---------------------------- MODULE SeriesJournal ----------------------------
(***************************************************************************)
(* Chronological research episodes with a journal of paid calls            *)
(* (research/series_replay.py: SeriesRunner, JournaledClient, SeriesStore) *)
(* around the inference of one episode (research/replay_inference.py).     *)
(*                                                                         *)
(* A runner takes the registry's lock and goes through the episodes in     *)
(* order.  An episode asks the model for a thesis and then for a proposal, *)
(* each at most twice; a call is reserved in the journal before it is made *)
(* and finished with its reply or its error.  A call that was cut off, by  *)
(* the runner's own time-out or by its end, stays pending, and its episode *)
(* is left to the operator.  Clocks, budgets and the content of replies    *)
(* are choices; a memory is the set of episodes whose revision it holds.   *)
(***************************************************************************)
EXTENDS Naturals, Sequences, FiniteSets

CONSTANTS
    Runners,      \* processes
    Nobody,       \* no process
    Episodes,     \* the number of episodes
    Available,    \* those with their event and their window
    MaxCalls,     \* max_api_calls
    MaxRetries,   \* outer_max_retries
    MaxRuns     \* bound: processes started

ASSUME JournalAssumption ==
    /\ IsFiniteSet(Runners) /\ Nobody \notin Runners
    /\ {Episodes, MaxCalls, MaxRetries, MaxRuns} \subseteq Nat
    /\ Available \subseteq 1 .. Episodes

VARIABLES
    episodes,    \* the state and the status of each episode
    calls,       \* the journal
    revisions,   \* the episodes whose revision is in the registry
    registryLock,        \* who holds the registry's lock
    runner,      \* where each process is
    sent,        \* requests made for each episode
    runs

registry == <<episodes, calls, revisions>>
seriesVars == <<registry, registryLock, runner, sent, runs>>

Stages == <<"memory", "portfolio">>
NoRun == [pc |-> "off", at |-> 1, left |-> 0, stage |-> 1, attempt |-> 1,
          memory |-> {}, generated |-> FALSE]

SeriesInit ==
    /\ episodes = [e \in 1 .. Episodes |-> [state |-> "pending", status |-> "none"]]
    /\ calls = <<>> /\ revisions = {} /\ registryLock = Nobody
    /\ runner = [w \in Runners |-> NoRun]
    /\ sent = [e \in 1 .. Episodes |-> 0] /\ runs = 0

RunnerAt(w, pc) == runner[w].pc = pc
RunnerGoes(w, pc) == runner' = [runner EXCEPT ![w].pc = pc]
E(w) == runner[w].at
CallsOf(e) == {c \in DOMAIN calls : calls[c].episode = e}
Unknown(e) == \E c \in CallsOf(e) : calls[c].state = "pending"
Completed(e, status) == [episodes EXCEPT ![e] = [state |-> "completed", status |-> status]]

\* The process is done, or gone: its lock is free.
Leaves(w) ==
    /\ runner' = [runner EXCEPT ![w] = NoRun]
    /\ registryLock' = IF registryLock = w THEN Nobody ELSE registryLock
-----------------------------------------------------------------------------
RegistryFree == registryLock = Nobody

\* run with --max-events
StartsRun(w) ==
    /\ RunnerAt(w, "off") /\ runs < MaxRuns /\ RegistryFree
    /\ registryLock' = w /\ runs' = runs + 1
    /\ \E n \in 1 .. Episodes :
         runner' = [runner EXCEPT ![w] = [NoRun EXCEPT !.pc = "select", !.left = n]]
    /\ UNCHANGED <<registry, sent>>

InOrderLeft(w) == RunnerAt(w, "select") /\ E(w) <= Episodes
State(w) == episodes[E(w)].state
Passes(w) == runner' = [runner EXCEPT ![w].at = @ + 1]

Over(w) == State(w) = "completed"

Skips(w) ==
    /\ InOrderLeft(w) /\ Over(w) /\ Passes(w)
    /\ UNCHANGED <<registry, registryLock, sent, runs>>

Blocked(w) == State(w) = "running"

\* The plan is done, an episode was interrupted, or enough has been done.
Stops(w) ==
    /\ RunnerAt(w, "select")
    /\ \/ E(w) > Episodes
       \/ E(w) <= Episodes /\ ~Over(w) /\ (Blocked(w) \/ runner[w].left = 0)
    /\ Leaves(w)
    /\ UNCHANGED <<registry, sent, runs>>

TakesUp(w) == InOrderLeft(w) /\ ~Over(w) /\ ~Blocked(w) /\ runner[w].left > 0

CallCount == Len(calls)

PutsOff(w) ==
    /\ TakesUp(w)
    /\ IF E(w) \notin Available THEN episodes' = Completed(E(w), "data_unavailable")
       ELSE CallCount >= MaxCalls /\ episodes' = Completed(E(w), "call_limit_reached")
    /\ runner' = [runner EXCEPT ![w].at = @ + 1, ![w].left = @ - 1]
    /\ UNCHANGED <<calls, revisions, registryLock, sent, runs>>

\* begin_episode, with the memory committed so far
Begins(w) ==
    /\ TakesUp(w) /\ State(w) = "pending" /\ E(w) \in Available /\ CallCount < MaxCalls
    /\ episodes' = [episodes EXCEPT ![E(w)].state = "running"]
    /\ runner' = [runner EXCEPT ![w] = [@ EXCEPT !.pc = "call", !.stage = 1, !.attempt = 1,
                                               !.memory = revisions, !.generated = FALSE]]
    /\ UNCHANGED <<calls, revisions, registryLock, sent, runs>>
-----------------------------------------------------------------------------
(***************************************************************************)
(* One episode                                                             *)
(***************************************************************************)
\* Mutant: an earlier request of unknown end is not looked for.
MayCall_Anyway(e) == CallCount < MaxCalls

MayCall(e) == ~Unknown(e) /\ CallCount < MaxCalls

\* begin_call; what it refuses is an error that is not retried.
Reserves(w) ==
    /\ RunnerAt(w, "call")
    /\ IF MayCall(E(w))
       THEN /\ calls' = Append(calls, [episode |-> E(w), stage |-> Stages[runner[w].stage],
                                       state |-> "pending"])
            /\ RunnerGoes(w, "send")
       ELSE RunnerGoes(w, "result") /\ UNCHANGED calls
    /\ UNCHANGED <<episodes, revisions, registryLock, sent, runs>>

\* A context that is refused, a budget that is spent, a clock that went back.
GivesUp(w) ==
    /\ RunnerAt(w, "call") /\ RunnerGoes(w, "result")
    /\ UNCHANGED <<registry, registryLock, sent, runs>>

Sends(w) ==
    /\ RunnerAt(w, "send") /\ sent' = [sent EXCEPT ![E(w)] = @ + 1] /\ RunnerGoes(w, "wait")
    /\ UNCHANGED <<registry, registryLock, runs>>

\* finish_call: the journal's last row is the runner's own.
Finished == [calls EXCEPT ![Len(calls)].state = "finished"]

\* A memory that is valid is kept, and the proposal is asked for; one that is not
\* ends the episode, as the proposal does.
Answered(w) ==
    /\ RunnerAt(w, "wait") /\ calls' = Finished
    /\ \/ /\ runner[w].stage = 1
          /\ \E changed \in BOOLEAN :
               runner' = [runner EXCEPT ![w] = [@ EXCEPT !.pc = "call", !.stage = 2, !.attempt = 1,
                                                         !.generated = changed]]
       \/ RunnerGoes(w, "result")
    /\ UNCHANGED <<episodes, revisions, registryLock, sent, runs>>

NextAttempt(n) == n + 1

Retries(w) ==
    /\ runner[w].attempt <= MaxRetries
    /\ runner' = [runner EXCEPT ![w].pc = "call", ![w].attempt = NextAttempt(@)]

Fails(w) ==
    /\ RunnerAt(w, "wait") /\ calls' = Finished
    /\ Retries(w) \/ RunnerGoes(w, "result")
    /\ UNCHANGED <<episodes, revisions, registryLock, sent, runs>>

\* The runner cuts the call off; that is an error to be retried.
TimesOut(w) ==
    /\ RunnerAt(w, "wait")
    /\ Retries(w) \/ (runner[w].attempt > MaxRetries /\ RunnerGoes(w, "result"))
    /\ UNCHANGED <<registry, registryLock, sent, runs>>

MayConclude(e) == ~Unknown(e)

\* finish_episode: the result and the revision in one transaction.
Concludes(w) ==
    /\ RunnerAt(w, "result") /\ MayConclude(E(w)) /\ State(w) = "running"
    /\ episodes' = Completed(E(w), "result")
    /\ revisions' = IF runner[w].generated THEN revisions \cup {E(w)} ELSE revisions
    /\ runner' = [runner EXCEPT ![w].pc = "select", ![w].at = @ + 1, ![w].left = @ - 1]
    /\ UNCHANGED <<calls, registryLock, sent, runs>>

LeavesOpen(w) ==
    /\ RunnerAt(w, "result") /\ ~MayConclude(E(w)) /\ Leaves(w)
    /\ UNCHANGED <<registry, sent, runs>>

\* Killed, or ended by an error that nothing handles.
RunnerDies(w) == ~RunnerAt(w, "off") /\ Leaves(w) /\ UNCHANGED <<registry, sent, runs>>

\* abandon_interrupted, by the operator
Abandon(e) ==
    /\ RegistryFree /\ episodes[e].state = "running"
    /\ episodes' = Completed(e, "interrupted_unknown")
    /\ UNCHANGED <<calls, revisions, registryLock, runner, sent, runs>>

Episode(w) ==
    \/ Reserves(w) \/ GivesUp(w) \/ Sends(w) \/ Answered(w) \/ Fails(w) \/ TimesOut(w)
    \/ Concludes(w) \/ LeavesOpen(w)

SeriesNext ==
    \/ \E w \in Runners :
         StartsRun(w) \/ Skips(w) \/ Stops(w) \/ PutsOff(w) \/ Begins(w) \/ Episode(w)
         \/ RunnerDies(w)
    \/ \E e \in 1 .. Episodes : Abandon(e)

SeriesSpec == SeriesInit /\ [][SeriesNext]_seriesVars
-----------------------------------------------------------------------------
(***************************************************************************)
(* Properties                                                              *)
(***************************************************************************)
Working(w) == runner[w].pc \in {"call", "send", "wait", "result"}

\* The state keeps its shape, and whoever works holds the lock and its episode.
JournalTypeOK ==
    /\ \A e \in 1 .. Episodes :
         /\ episodes[e].state \in {"pending", "running", "completed"}
         /\ episodes[e].status # "none" <=> episodes[e].state = "completed"
    /\ revisions \subseteq {e \in 1 .. Episodes : episodes[e].status = "result"}
    /\ \A w \in Runners : ~RunnerAt(w, "off") => registryLock = w
    /\ \A w \in Runners : Working(w) => State(w) = "running"

\* An episode is taken up when all before it are over, and is shown just what they
\* have committed, whatever was interrupted and abandoned in between.
EpisodesAreInOrder ==
    /\ \A e \in 1 .. Episodes :
         episodes[e].state # "pending" => \A f \in 1 .. e - 1 : episodes[f].state = "completed"
    /\ \A w \in Runners : Working(w) => runner[w].memory = revisions

\* "The cap counts reserved attempts, including errors and unknown calls"
\* (docs/research/chronological-replay.md): over all starts no more requests are
\* made than the plan allows, and none that the journal does not show.
SpendIsCapped ==
    /\ Len(calls) <= MaxCalls
    /\ \A e \in 1 .. Episodes : sent[e] <= Cardinality(CallsOf(e))

\* A request whose end is unknown is the last of its episode.
UnknownIsLast ==
    \A e \in 1 .. Episodes : \A c, d \in CallsOf(e) : c < d => calls[c].state = "finished"

\* A memory made by an episode with a call of unknown end is not carried forward.
UnknownLeavesNoMemory == \A e \in revisions : ~Unknown(e)

\* An episode asks twice at most for each of its two answers.
CallsPerEpisode ==
    \A e \in 1 .. Episodes : \A s \in {"memory", "portfolio"} :
        Cardinality({c \in CallsOf(e) : calls[c].stage = s}) <= 1 + MaxRetries

\* The journal adds up: requests are those it shows, in their order and within their
\* limits, and what an unknown one touched is not built on.
JournalAddsUp ==
    /\ JournalTypeOK
    /\ EpisodesAreInOrder
    /\ SpendIsCapped
    /\ UnknownIsLast
    /\ UnknownLeavesNoMemory
    /\ CallsPerEpisode
=============================================================================
