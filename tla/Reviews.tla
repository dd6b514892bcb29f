------------------------------- MODULE Reviews -------------------------------
(***************************************************************************)
(* Stateful thesis reviews (runtime.py: ShadowRunner.step_reviews,         *)
(* ReviewPolicy, the runtime_reviews table of SQLiteRuntimeStore), with    *)
(* what recover_incomplete does to a review left unfinished.               *)
(*                                                                         *)
(* After each look at the news the event worker goes through the theses of *)
(* a memory snapshot.  The first trigger that is due and has not been used *)
(* is recorded, durably, before the model is asked about a review event    *)
(* made from the thesis's origin.  Limits and the cooldown are read from   *)
(* the recorded reviews; the price a breakout is measured from is kept in  *)
(* memory.  Times are counted from the thesis's last revision and from its *)
(* last review, as far as they matter.                                     *)
(***************************************************************************)
EXTENDS Naturals, FiniteSets, FiniteSetsExt

CONSTANTS
    Theses,
    Horizon,        \* review_horizon: when review_at comes
    Period,         \* periodic_review_seconds
    Cooldown,       \* cooldown_seconds
    MaxPerThesis,   \* max_reviews_per_thesis
    MaxTotal,       \* max_total_review_calls
    MaxTries,       \* max_reasoning_attempts, for recover_incomplete
    MaxRevisions,   \* bound: revisions of a thesis
    MaxAge,         \* bound: an age counts no further
    MaxSessions,    \* bound: how often the process is started
    MaxTrouble      \* bound: waits for a quote and exceptions

ASSUME ReviewAssumption ==
    /\ IsFiniteSet(Theses)
    /\ {Horizon, Period, MaxPerThesis, MaxTotal, MaxTries, MaxRevisions} \subseteq Nat \ {0}
    /\ {Cooldown, MaxAge, MaxSessions, MaxTrouble} \subseteq Nat
    /\ Horizon <= MaxAge /\ Period <= MaxAge

VARIABLES
    theses,   \* the memory: revision and status of each thesis, durable
    age,      \* time since its last revision
    since,    \* time since its last review was triggered
    high,     \* the price is above the level of the price rule
    reviews,  \* runtime_reviews with the review event's row, by dedup_key, durable
    session,  \* how often the process has been started
    refs,     \* _thesis_ref_mids: where the price was when a revision was first seen
    step,     \* where step_reviews or recover_incomplete is
    aged,     \* during a pass, the time since the revisions it has read
    trouble

memory == <<theses, age>>
reviewVars == <<memory, since, high, reviews, session, refs, step, aged, trouble>>

NoTheses == [t \in Theses |-> [revision |-> 0, active |-> FALSE]]
Resting(pc) == [pc |-> pc, theses |-> NoTheses, high |-> FALSE, todo |-> {}, key |-> {},
                recovering |-> FALSE]
NoAges == [t \in Theses |-> 0]
NoRef == [revision |-> 0, high |-> FALSE]

ReviewsInit ==
    /\ theses \in [Theses -> [revision : {1}, active : BOOLEAN]]
    /\ age = [t \in Theses |-> 0] /\ since = [t \in Theses |-> Cooldown]
    /\ high \in BOOLEAN /\ reviews = [k \in {} |-> {}]
    /\ session = 0 /\ refs = [t \in Theses |-> NoRef]
    /\ step = Resting("down") /\ aged = NoAges /\ trouble = 0
-----------------------------------------------------------------------------
(***************************************************************************)
(* Limits                                                                  *)
(***************************************************************************)
Keys == DOMAIN reviews
OfThesis(t) == {k \in Keys : k.thesis = t}

\* Mutant: only the reviews of this session are counted.
CountFor_Session(t) == Cardinality({k \in OfThesis(t) : reviews[k].session = session})

\* count_reviews
CountFor(t) == Cardinality(OfThesis(t))
TotalSpent == Cardinality(Keys) >= MaxTotal

\* last_review_triggered_at
Cooled(t) == OfThesis(t) = {} \/ since[t] >= Cooldown

Within(t) == ~TotalSpent /\ CountFor(t) < MaxPerThesis /\ Cooled(t)
-----------------------------------------------------------------------------
(***************************************************************************)
(* Triggers, in the order they are tried, on the snapshot of the step      *)
(***************************************************************************)
KeyOf(t, kind, slot) ==
    [thesis |-> t, revision |-> step.theses[t].revision, kind |-> kind, slot |-> slot]

RefFor(t) ==
    IF refs[t].revision = step.theses[t].revision THEN refs[t]
    ELSE [revision |-> step.theses[t].revision, high |-> step.high]

\* Mutant: the time of the review is not compared with a stepped review_at.
Due_Once(t) ==
    <<IF step.high THEN {KeyOf(t, "price", 0)} ELSE {},
      IF aged[t] = Horizon THEN {KeyOf(t, "review_at", 0)} ELSE {},
      IF RefFor(t).high # step.high THEN {KeyOf(t, "excursion", 0)} ELSE {},
      IF aged[t] >= Period THEN {KeyOf(t, "periodic", aged[t] \div Period)} ELSE {}>>

Due(t) ==
    <<IF step.high THEN {KeyOf(t, "price", 0)} ELSE {},
      IF aged[t] >= Horizon THEN {KeyOf(t, "review_at", 0)} ELSE {},
      IF RefFor(t).high # step.high THEN {KeyOf(t, "excursion", 0)} ELSE {},
      IF aged[t] >= Period THEN {KeyOf(t, "periodic", aged[t] \div Period)} ELSE {}>>

\* The first of them without a review yet.
Chosen(t) ==
    LET fresh == {n \in 1 .. 4 : Due(t)[n] \ Keys # {}}
    IN  IF fresh = {} THEN {} ELSE Due(t)[Min(fresh)]
-----------------------------------------------------------------------------
(***************************************************************************)
(* One pass over the theses                                                *)
(***************************************************************************)
\* With a valid quote and a budget; a pass without them does nothing.
StepBegins ==
    /\ step.pc = "idle" /\ ~TotalSpent
    /\ step' = [Resting("step") EXCEPT !.theses = theses, !.high = high,
                                     !.todo = {t \in Theses : theses[t].active}]
    /\ aged' = age
    /\ UNCHANGED <<memory, since, high, reviews, session, refs, trouble>>

\* A spent budget ends the pass too.
StepEnds ==
    /\ step.pc = "step" /\ (step.todo = {} \/ TotalSpent)
    /\ step' = Resting("idle") /\ aged' = NoAges
    /\ UNCHANGED <<memory, since, high, reviews, session, refs, trouble>>

SeeRef(t) == IF CountFor(t) < MaxPerThesis THEN refs' = [refs EXCEPT ![t] = RefFor(t)]
             ELSE UNCHANGED refs

Passes(t) ==
    /\ step.pc = "step" /\ t \in step.todo /\ ~TotalSpent
    /\ ~Within(t) \/ Chosen(t) = {}
    /\ SeeRef(t)
    /\ step' = [step EXCEPT !.todo = @ \ {t}]
    /\ UNCHANGED <<memory, since, high, reviews, session, aged, trouble>>

\* record_review_started
NewReview == [session |-> session, told |-> "started", event |-> "absent",
              attempts |-> 0, calls |-> 0, lost |-> 0]
Recorded(key) == [k \in {key} \cup Keys |-> IF k = key THEN NewReview ELSE reviews[k]]

Reviews(t) ==
    /\ step.pc = "step" /\ t \in step.todo /\ Within(t)
    /\ SeeRef(t)
    /\ \E key \in Chosen(t) :
         /\ reviews' = Recorded(key)
         /\ step' = [step EXCEPT !.todo = @ \ {t}, !.pc = "cycle", !.key = key]
    /\ since' = [since EXCEPT ![t] = 0]
    /\ UNCHANGED <<memory, high, session, aged, trouble>>
-----------------------------------------------------------------------------
(***************************************************************************)
(* The review's cycle, in the pass or in the recovery                      *)
(***************************************************************************)
Row == reviews[step.key]
Back == step' = [step EXCEPT !.pc = IF step.recovering THEN "recover" ELSE "step", !.key = {}]

\* update_review_outcome is called by the pass only.
Ends(event, attempts) ==
    reviews' = [reviews EXCEPT ![step.key].event = event, ![step.key].attempts = @ + attempts,
                               ![step.key].told = IF step.recovering THEN @ ELSE event]

Asks ==
    /\ step.pc = "cycle"
    /\ reviews' = [reviews EXCEPT ![step.key].calls = @ + 1,
                                  ![step.key].event = IF @ = "absent" THEN "received" ELSE @]
    /\ step' = [step EXCEPT !.pc = "answer"]
    /\ UNCHANGED <<memory, since, high, session, refs, aged, trouble>>

\* No quote for the model: the event waits, for a recovery.
Waits ==
    /\ step.pc = "cycle" /\ trouble < MaxTrouble /\ trouble' = trouble + 1
    /\ Ends("awaiting_market_quote", 0) /\ Back
    /\ UNCHANGED <<memory, since, high, session, refs, aged>>

\* The decision leaves theses alone, revises or closes them.
Decides ==
    /\ step.pc = "answer"
    /\ Ends("over", 0) /\ Back
    /\ \E changed \in SUBSET {t \in Theses : theses[t].revision < MaxRevisions} :
       \E active \in SUBSET changed :
         /\ theses' = [t \in Theses |->
                          IF t \notin changed THEN theses[t]
                          ELSE [revision |-> theses[t].revision + 1, active |-> t \in active]]
         /\ age' = [t \in Theses |-> IF t \in changed THEN 0 ELSE age[t]]
    /\ UNCHANGED <<since, high, session, refs, aged, trouble>>

\* The call fails.  A time-out of the pass or the recovery reads the same.
CallFails ==
    /\ step.pc = "answer"
    /\ Ends("reasoning_failed", 1) /\ Back
    /\ UNCHANGED <<memory, since, high, session, refs, aged, trouble>>

\* History: a call whose end nothing tells of.
Lost == IF step.pc = "answer" THEN [reviews EXCEPT ![step.key].lost = @ + 1] ELSE reviews

\* Another exception ends the pass; the table still says the review has started.
Raises ==
    /\ step.pc = "answer" /\ ~step.recovering /\ trouble < MaxTrouble /\ trouble' = trouble + 1
    /\ step' = Resting("idle") /\ aged' = NoAges /\ reviews' = Lost
    /\ UNCHANGED <<memory, since, high, session, refs>>
-----------------------------------------------------------------------------
(***************************************************************************)
(* Starting and recovery                                                   *)
(***************************************************************************)
Unfinished == {k \in Keys : reviews[k].event \in {"received", "awaiting_market_quote", "reasoning_failed"}}

SessionBegins ==
    /\ step.pc = "down" /\ session < MaxSessions /\ session' = session + 1
    /\ refs' = [t \in Theses |-> NoRef]
    /\ step' = [Resting("recover") EXCEPT !.todo = Unfinished, !.recovering = TRUE]
    /\ UNCHANGED <<memory, since, high, reviews, aged, trouble>>

MayRetry(k) == reviews[k].attempts < MaxTries

\* Tried often enough, or the origin is too old for a recovery.
RecoveryAbandons(k) ==
    /\ step.pc = "recover" /\ k \in step.todo
    /\ reviews' = [reviews EXCEPT ![k].event = "over"]
    /\ step' = [step EXCEPT !.todo = @ \ {k}]
    /\ UNCHANGED <<memory, since, high, session, refs, aged, trouble>>

RecoveryRuns(k) ==
    /\ step.pc = "recover" /\ k \in step.todo /\ MayRetry(k)
    /\ step' = [step EXCEPT !.todo = @ \ {k}, !.pc = "cycle", !.key = k]
    /\ UNCHANGED <<memory, since, high, reviews, session, refs, aged, trouble>>

RecoveryEnds ==
    /\ step.pc = "recover" /\ step.todo = {}
    /\ step' = Resting("idle")
    /\ UNCHANGED <<memory, since, high, reviews, session, refs, aged, trouble>>

Dies ==
    /\ step.pc # "down" /\ session < MaxSessions
    /\ step' = Resting("down") /\ aged' = NoAges /\ reviews' = Lost
    /\ UNCHANGED <<memory, since, high, session, refs, trouble>>
-----------------------------------------------------------------------------
(***************************************************************************)
(* The world: time, the price, and decisions on news between two passes    *)
(***************************************************************************)
Older(n, limit) == IF n < limit THEN n + 1 ELSE n

InPass == step.pc \in {"step", "cycle", "answer"} /\ ~step.recovering

Tick ==
    /\ age' = [t \in Theses |-> Older(age[t], MaxAge)]
    /\ since' = [t \in Theses |-> Older(since[t], Cooldown)]
    /\ aged' = IF InPass THEN [t \in Theses |-> Older(aged[t], MaxAge)] ELSE aged
    /\ <<age', since', aged'>> # <<age, since, aged>>
    /\ UNCHANGED <<theses, high, reviews, session, refs, step, trouble>>

PriceMoves ==
    /\ high' = ~high
    /\ UNCHANGED <<memory, since, reviews, session, refs, step, aged, trouble>>

NewsRevises(t) ==
    /\ step.pc = "idle" /\ theses[t].revision < MaxRevisions
    /\ \E active \in BOOLEAN :
         theses' = [theses EXCEPT ![t] = [revision |-> @.revision + 1, active |-> active]]
    /\ age' = [age EXCEPT ![t] = 0]
    /\ UNCHANGED <<since, high, reviews, session, refs, step, aged, trouble>>

Pass == StepBegins \/ StepEnds \/ \E t \in Theses : Passes(t) \/ Reviews(t)
ReviewCycle == Asks \/ Waits \/ Decides \/ CallFails \/ Raises
ReviewRecovery == RecoveryEnds \/ \E k \in Keys : RecoveryAbandons(k) \/ RecoveryRuns(k)
Works == Pass \/ ReviewCycle \/ ReviewRecovery

ReviewsNext ==
    \/ Works \/ SessionBegins \/ Dies
    \/ Tick \/ PriceMoves \/ \E t \in Theses : NewsRevises(t)

ReviewsSpec == ReviewsInit /\ [][ReviewsNext]_reviewVars

\* Time goes on and the worker's loop too; nothing is asked of price and news.
ReviewFairness == WF_reviewVars(Tick) /\ WF_reviewVars(SessionBegins) /\ WF_reviewVars(Works)
FairReviews == ReviewsSpec /\ ReviewFairness
-----------------------------------------------------------------------------
(***************************************************************************)
(* Properties                                                              *)
(***************************************************************************)
Outcomes == {"received", "awaiting_market_quote", "reasoning_failed", "over"}

\* The state keeps its shape, and a review is of a revision there has been.
ReviewsTypeOK ==
    /\ theses \in [Theses -> [revision : 1 .. MaxRevisions, active : BOOLEAN]]
    /\ age \in [Theses -> 0 .. MaxAge] /\ since \in [Theses -> 0 .. Cooldown]
    /\ session \in 0 .. MaxSessions /\ trouble \in 0 .. MaxTrouble
    /\ \A k \in Keys :
         /\ k.revision \in 1 .. theses[k.thesis].revision
         /\ reviews[k].told \in {"started"} \cup Outcomes
         /\ reviews[k].event \in {"absent"} \cup Outcomes
         /\ reviews[k].session \in 1 .. session
    /\ step.pc \in {"down", "recover", "idle", "step", "cycle", "answer"}
    /\ step.pc \in {"cycle", "answer"} => step.key \in Keys

\* The limits on reviews outlive the process: restarts give no thesis and no
\* runner more reviews, whatever the reviews came to.
ReviewsAreCapped ==
    /\ \A t \in Theses : Cardinality(OfThesis(t)) <= MaxPerThesis
    /\ Cardinality(Keys) <= MaxTotal

\* A review is not asked about for ever: it costs as many calls as it may have
\* attempts, but for calls lost with their process or to an exception.
CallsPerReview == \A k \in Keys : reviews[k].calls <= MaxTries + reviews[k].lost

\* Reviews are bounded in number and in calls, over restarts and failures.
ReviewsAreBounded == ReviewsTypeOK /\ ReviewsAreCapped /\ CallsPerReview

\* A thesis due for review is reviewed for it, unless it is revised or closed
\* or its reviews (or all) are used up.
Overdue(t) ==
    /\ theses[t].active /\ age[t] >= Horizon
    /\ ~TotalSpent /\ CountFor(t) < MaxPerThesis
    /\ \A k \in OfThesis(t) : k.revision = theses[t].revision => k.kind # "review_at"
DueReviewHappens == \A t \in Theses : Overdue(t) ~> ~Overdue(t)
=============================================================================
