---------------------------- MODULE SourceHealth ----------------------------
(***************************************************************************)
(* The health of a provider's streams and the gate it puts on new risk     *)
(* (observer.py: evaluate_observer_stream_health; runtime.py:              *)
(* _news_poll_worker and _check_event_source_health).                      *)
(*                                                                         *)
(* Polls run as tasks of their own.  What a stream's row in the report     *)
(* says depends on the poll recorded last, on its time of receipt, and on  *)
(* whether a failure was recorded at that time or later; only this order   *)
(* of times is kept.  Names under which polls and failures are recorded    *)
(* are pairs of a stream and a day, 0 for a name without a day.  An answer *)
(* may be good, not parsed, or so old that it counts as degraded.          *)
(***************************************************************************)
EXTENDS Naturals, Sequences, SequencesExt

CONSTANTS
    Polled,         \* streams of the provider
    Dated,          \* those whose polls are recorded under the day they ask for
    Tasks,          \* polls that may be under way at a time
    Deduplicated,   \* those that are polled by one task at a time
    MaxDay,         \* bound: days
    MaxFaults,      \* bound: polls that fail and answers that are no good
    MaxRestarts     \* bound: restarts

ASSUME SourceHealthAssumption ==
    /\ Dated \subseteq Polled /\ Deduplicated \subseteq Polled
    /\ MaxDay \in Nat \ {0} /\ {MaxFaults, MaxRestarts} \subseteq Nat

VARIABLES
    day,       \* the day
    task,      \* what each task is at
    answered,  \* the tasks with an answer that is not recorded yet, in the order of receipt
    last,      \* the answer of the poll that was recorded last under a name
    failing,   \* names with a failure recorded at or after the receipt of that poll
    newest,    \* history: how the poll of a stream ended that, of those recorded, ended last
    faults, restarts

mishaps == <<faults, restarts>>
healthVars == <<day, task, answered, last, failing, newest, mishaps>>

PollNames == Polled \X (0..MaxDay)
NoTask == [pc |-> "idle"]
Bad == {"unparsed", "degraded"}

HealthInit ==
    /\ day = 1 /\ task = [t \in Tasks |-> NoTask] /\ answered = <<>>
    /\ last = [n \in PollNames |-> "none"] /\ failing = {}
    /\ newest = [s \in Polled |-> "none"] /\ faults = 0 /\ restarts = 0

TaskAt(t, pc) == task[t].pc = pc
InFlight(s) == \E t \in Tasks : ~TaskAt(t, "idle") /\ task[t].stream = s

PollName(t) == <<task[t].stream, IF task[t].stream \in Dated THEN task[t].day ELSE 0>>

\* Mutant: failures are recorded under a name of their own.
FailName_Own(t) == <<task[t].stream, 1>>

\* "calendar/global", "calendar/supplemental": never with the day.
FailName(t) == <<task[t].stream, 0>>

Fault == faults < MaxFaults /\ faults' = faults + 1 /\ UNCHANGED restarts
-----------------------------------------------------------------------------
MayBegin(s) == s \in Deduplicated => ~InFlight(s)

Begins(t, s) ==
    /\ TaskAt(t, "idle") /\ MayBegin(s)
    /\ task' = [task EXCEPT ![t] =
                   [pc |-> "fetch", stream |-> s, day |-> day, missed |-> FALSE, late |-> FALSE]]
    /\ UNCHANGED <<day, answered, last, failing, newest, mishaps>>

Answers(t, out) ==
    /\ TaskAt(t, "fetch")
    /\ task' = [task EXCEPT ![t] =
                   [pc |-> "answered", stream |-> @.stream, day |-> @.day,
                    missed |-> FALSE, late |-> FALSE, out |-> out]]
    /\ answered' = Append(answered, t)
    /\ UNCHANGED <<day, last, failing, newest>>

AnswersWell(t) == Answers(t, "ok") /\ UNCHANGED mishaps
AnswersBadly(t) == Fault /\ \E out \in Bad : Answers(t, out)

Errs(t) ==
    /\ TaskAt(t, "fetch") /\ Fault
    /\ task' = [task EXCEPT ![t].pc = "failed"] /\ answered' = Append(answered, t)
    /\ UNCHANGED <<day, last, failing, newest>>

\* Its place among the answers, and those that came before it.
Place(t) == CHOOSE k \in DOMAIN answered : answered[k] = t
Before(t) == {answered[k] : k \in 1..(Place(t) - 1)}
Beside(t) == {u \in Tasks \ {t} : ~TaskAt(u, "idle") /\ task[u].stream = task[t].stream}

\* Tasks that ended before this one and are recorded after it are late.
Recorded(t, out) ==
    /\ answered' = RemoveAt(answered, Place(t))
    /\ newest' = IF task[t].late THEN newest ELSE [newest EXCEPT ![task[t].stream] = out]
    /\ task' = [u \in Tasks |->
           CASE u = t -> NoTask
             [] u \in Beside(t) ->
                  [task[u] EXCEPT
                      !.late = @ \/ u \in Before(t),
                      !.missed = @ \/ (out = "failed" /\ TaskAt(u, "answered") /\ PollName(u) = FailName(t))]
             [] OTHER -> task[u]]

\* Mutant: a recorded poll makes up for every failure before it.
StillFails_Never(t) == FALSE

\* consecutive_failures
StillFails(t) == task[t].missed

RecordsPoll(t) ==
    /\ TaskAt(t, "answered") /\ Recorded(t, task[t].out)
    /\ last' = [last EXCEPT ![PollName(t)] = task[t].out]
    /\ failing' = IF StillFails(t) THEN failing \cup {PollName(t)} ELSE failing \ {PollName(t)}
    /\ UNCHANGED <<day, mishaps>>

\* failure
RecordsFailure(t) ==
    /\ TaskAt(t, "failed") /\ Recorded(t, "failed")
    /\ failing' = failing \cup {FailName(t)}
    /\ UNCHANGED <<day, last, mishaps>>

NewDay ==
    /\ day < MaxDay /\ day' = day + 1
    /\ UNCHANGED <<task, answered, last, failing, newest, mishaps>>

CollectorRestarts ==
    /\ restarts < MaxRestarts /\ restarts' = restarts + 1
    /\ task' = [t \in Tasks |-> NoTask] /\ answered' = <<>>
    /\ UNCHANGED <<day, last, failing, newest, faults>>

TaskEnds(t) == RecordsPoll(t) \/ RecordsFailure(t)

HealthNext ==
    \/ NewDay \/ CollectorRestarts
    \/ \E t \in Tasks :
         \/ \E s \in Polled : Begins(t, s)
         \/ AnswersWell(t) \/ AnswersBadly(t) \/ Errs(t) \/ TaskEnds(t)

HealthSpec == HealthInit /\ [][HealthNext]_healthVars

\* The worker polls every stream again and again, a poll has a time-out, and its
\* task is not held up for ever.
HealthFairSpec ==
    /\ HealthSpec
    /\ \A s \in Polled : SF_healthVars(\E t \in Tasks : Begins(t, s))
    /\ \A t \in Tasks : WF_healthVars(AnswersWell(t) \/ TaskEnds(t))
-----------------------------------------------------------------------------
(***************************************************************************)
(* The gate                                                                *)
(***************************************************************************)
Reported == {n \in PollNames : last[n] # "none" \/ n \in failing}

\* allows_new_risk
Allows(n) == n \notin failing /\ last[n] = "ok"

\* For an event of its own.  The provider is read from the event's id, up to the
\* first colon; that of a bundle begins with "bundle", which is no provider, so that
\* the gate does not hold bundles back.
MayOpen == \A n \in Reported : Allows(n)
-----------------------------------------------------------------------------
(***************************************************************************)
(* Properties                                                              *)
(***************************************************************************)
\* The state keeps its shape; answers wait once each, and a deduplicated stream
\* has one poll under way.
HealthTypeOK ==
    /\ day \in 1..MaxDay /\ failing \subseteq PollNames
    /\ last \in [PollNames -> {"none", "ok"} \cup Bad]
    /\ newest \in [Polled -> {"none", "ok", "failed"} \cup Bad]
    /\ \A t \in Tasks : (\E k \in DOMAIN answered : answered[k] = t) <=> ~TaskAt(t, "idle") /\ ~TaskAt(t, "fetch")
    /\ \A t, u \in Tasks :
         /\ t # u /\ ~TaskAt(t, "idle") /\ ~TaskAt(u, "idle")
         /\ task[t].stream \in Deduplicated
         => task[t].stream # task[u].stream

\* After a poll that failed, no new risk on the provider's news, in whatever order
\* the polls that were under way together are recorded.
FailureClosesGate ==
    \A s \in Polled : newest[s] = "failed" => ~MayOpen

\* After an answer that is no good, no new risk either, provided that the stream is
\* polled by one task at a time.
BadAnswerClosesGate ==
    \A s \in Deduplicated : newest[s] \in Bad => ~MayOpen

\* A name that holds the gate closed has a reason: a quiet market is not a fault, and
\* what failed before the last poll is made up for.  Of a stream whose polls overlap, or
\* are recorded by the day, this is not sure.
ClosedForAReason ==
    \A n \in Reported :
        n[1] \in Deduplicated \ Dated /\ ~Allows(n) => newest[n[1]] # "ok"

\* The gate follows the health of the provider, either way.
GateFollowsHealth ==
    /\ HealthTypeOK
    /\ FailureClosesGate
    /\ BadAnswerClosesGate
    /\ ClosedForAReason

\* Once nothing fails any more, the gate opens and stays open.
GateReopens == <>[]MayOpen
=============================================================================
