---------------------------- MODULE ThesisMemory ----------------------------
(***************************************************************************)
(* The durable thesis memory (sqlite_memory.py: SQLiteThesisMemory) and    *)
(* the reasoners that read and extend it (reasoning.py: MemoryReasoner;    *)
(* trading/agent.py: ObservationReasoner with SinglePassTradingAgent).     *)
(*                                                                         *)
(* A reasoner records its event, looks for a decision already made, reads  *)
(* a snapshot as of a time it took before, calls the model and commits the *)
(* answer.  Each store operation is one transaction in a thread of its     *)
(* own, and a caller that gives up (a time-out cancels it) leaves its      *)
(* commit running.  The clock is the host's, and may step back.            *)
(*                                                                         *)
(* A thesis is named after the event whose decision created it: the code   *)
(* draws a fresh id, and an event has one committed decision.  Supporting  *)
(* and contradicting events are one set: an event triggers one decision,   *)
(* so it is never cited on both sides.  The store's answer to the same     *)
(* decision sent twice is not modelled: no caller sends one again.         *)
(***************************************************************************)
EXTENDS Integers, Sequences, FiniteSets

CONSTANTS
    Events,
    Reasoners,
    Traders,    \* the reasoners that are trading agents; the others keep beliefs only
    Arrivals,   \* when events may be received
    Ttl,        \* decision_ttl: how long an answer may wait for its commit
    Horizon,    \* review_horizon
    MaxClock,   \* bound: the last tick
    MaxSteps,   \* bound: how often the clock steps back
    MaxCalls    \* bound: model calls

ASSUME MemoryAssumption ==
    /\ Traders \subseteq Reasoners
    /\ Arrivals \subseteq Nat
    /\ Ttl \in Nat \ {0} /\ Horizon \in Nat \ {0}
    /\ MaxClock \in Nat /\ MaxSteps \in Nat /\ MaxCalls \in Nat

VARIABLES
    clock,
    steps,      \* how often the clock has stepped back
    received,   \* received_timestamp of each event
    recorded,   \* raw_events: recorded_at
    decisions,  \* decisions and thesis_revisions in the order of memory_version
    reasoner,   \* the process() call each reasoner is in
    commits,    \* commits whose thread has not run yet
    calls       \* model calls made

vars == <<clock, steps, received, recorded, decisions, reasoner, commits, calls>>
store == <<recorded, decisions>>
time == <<clock, steps, received>>

Never == -1
NoThesis == [revision |-> 0, active |-> FALSE, evidence |-> {}, updatedAt |-> Never]
NoTarget == {}
NoChanges == [t \in {} |-> NoThesis]
Resting == [pc |-> "idle", event |-> Never, cutoff |-> Never, base |-> 0,
            started |-> Never, call |-> 0]

Init ==
    /\ clock = 0 /\ steps = 0 /\ calls = 0
    /\ received \in [Events -> Arrivals]
    /\ recorded = [e \in Events |-> Never]
    /\ decisions = <<>>
    /\ reasoner = [r \in Reasoners |-> Resting]
    /\ commits = {}
-----------------------------------------------------------------------------
(***************************************************************************)
(* Reading the store                                                       *)
(***************************************************************************)
Decided(e) == \E v \in DOMAIN decisions : decisions[v].event = e

\* The version that had been committed at a time.
VersionAt(time_) == Cardinality({v \in DOMAIN decisions : decisions[v].committedAt <= time_})

\* The latest revision of a thesis in the first v decisions.
ThesisAt(v, t) ==
    LET revising == {w \in 1 .. v : t \in DOMAIN decisions[w].changes}
    IN  IF revising = {} THEN NoThesis
        ELSE LET last == CHOOSE w \in revising : \A u \in revising : u <= w
             IN  decisions[last].changes[t]

Known(v) == {t \in Events : ThesisAt(v, t) # NoThesis}

\* _evidence
Available(e, started) == recorded[e] # Never /\ recorded[e] <= started /\ received[e] <= started

\* What a non-zero position may rest on.
Live(thesis, completed) ==
    thesis.active /\ thesis.updatedAt + Horizon > completed
-----------------------------------------------------------------------------
(***************************************************************************)
(* Answering: the changes and the target a model's reply amounts to        *)
(***************************************************************************)
\* build_thesis_changes for one thesis.
Revised(thesis, e, active, now) ==
    [revision |-> thesis.revision + 1, active |-> active,
     evidence |-> thesis.evidence \cup {e}, updatedAt |-> now]

\* The thesis created or updated, and those invalidated with it.
Changes(r, primary, active, invalidated) ==
    [t \in {primary} \cup invalidated |->
        Revised(ThesisAt(reasoner[r].base, t), reasoner[r].event, t = primary /\ active, clock)]

AllChanges(r) ==
    LET known == Known(reasoner[r].base)
    IN  {NoChanges} \cup
        {Changes(r, primary, active, invalidated) :
            primary \in known \cup {reasoner[r].event}, active \in BOOLEAN,
            invalidated \in IF r \in Traders THEN SUBSET known ELSE {{}}}

\* A thesis as decision d leaves it.
Effective(d, t) == IF t \in DOMAIN d.changes THEN d.changes[t] ELSE ThesisAt(d.base, t)

\* _build_target: the theses a non-zero position cites.  One is enough, for each
\* is checked by itself; a target of weight zero needs none to be live.
TargetsOf(r, d) ==
    {NoTarget} \cup
    IF r \in Traders THEN {{t} : t \in {u \in Events : Live(Effective(d, u), d.completed)}}
    ELSE {}
-----------------------------------------------------------------------------
(***************************************************************************)
(* What _commit insists on                                                 *)
(***************************************************************************)
\* Mutant: the decision for the event is looked for before the call only.
FirstForEvent_LookedBefore(d) == TRUE

FirstForEvent(d) == ~Decided(d.event)

\* Mutant: revisions are compared, the version of the memory is not.
BuiltOnLatest_ByRevision(d) == TRUE

BuiltOnLatest(d) == d.base = Len(decisions)

InOrder(d) ==
    decisions # <<>> =>
        LET latest == decisions[Len(decisions)].committedAt
        IN  clock >= latest /\ d.started >= latest

InTime(d) == d.completed <= clock /\ clock < d.completed + Ttl

RevisionFits(d, t) ==
    LET old == ThesisAt(Len(decisions), t)
        new == d.changes[t]
    IN  /\ new.revision = old.revision + 1
        /\ new.updatedAt >= old.updatedAt
        /\ d.started <= new.updatedAt /\ new.updatedAt <= d.completed
        /\ d.event \in new.evidence
        /\ \A e \in new.evidence : Available(e, d.started)

TargetFits(d) ==
    \A t \in d.target :
        Live(IF t \in DOMAIN d.changes THEN d.changes[t] ELSE ThesisAt(Len(decisions), t),
             d.completed)

Accepted(d) ==
    /\ FirstForEvent(d) /\ BuiltOnLatest(d)
    /\ InOrder(d) /\ InTime(d)
    /\ Available(d.event, d.started)
    /\ \A t \in DOMAIN d.changes : RevisionFits(d, t)
    /\ TargetFits(d)
-----------------------------------------------------------------------------
(***************************************************************************)
(* The steps of process()                                                  *)
(***************************************************************************)
Goes(r, call) == reasoner' = [reasoner EXCEPT ![r] = call]
At(r, pc) == reasoner[r].pc = pc

\* An event that was not received yet by this clock is refused.
Record(r, e) ==
    /\ At(r, "idle")
    /\ recorded[e] # Never \/ received[e] <= clock
    /\ recorded' = [recorded EXCEPT ![e] = IF @ = Never THEN clock ELSE @]
    /\ Goes(r, [Resting EXCEPT !.pc = "recorded", !.event = e])
    /\ UNCHANGED <<time, decisions, commits, calls>>

\* decision_for_event, and the time the snapshot will be taken at.
Look(r) ==
    /\ At(r, "recorded")
    /\ Goes(r, IF Decided(reasoner[r].event) THEN Resting
               ELSE [reasoner[r] EXCEPT !.pc = "looked", !.cutoff = clock])
    /\ UNCHANGED <<time, store, commits, calls>>

\* A snapshot or a context that holds anything from the future is refused.
FromTheFuture(r) ==
    LET cutoff == reasoner[r].cutoff
    IN  \/ \E t \in Events : ThesisAt(VersionAt(cutoff), t).updatedAt > cutoff
        \/ r \in Traders /\ received[reasoner[r].event] > cutoff

Snapshot(r) ==
    /\ At(r, "looked")
    /\ Goes(r, IF FromTheFuture(r) THEN Resting
               ELSE [reasoner[r] EXCEPT !.pc = "read", !.base = VersionAt(reasoner[r].cutoff)])
    /\ UNCHANGED <<time, store, commits, calls>>

\* A trading agent notes the time again, which may not precede its context.
Call(r) ==
    /\ At(r, "read") /\ calls < MaxCalls
    /\ LET started == IF r \in Traders THEN clock ELSE reasoner[r].cutoff
       IN  IF started < reasoner[r].cutoff
           THEN Goes(r, Resting) /\ UNCHANGED calls
           ELSE /\ Goes(r, [reasoner[r] EXCEPT !.pc = "thinking", !.started = started,
                                               !.call = calls + 1])
                /\ calls' = calls + 1
    /\ UNCHANGED <<time, store, commits>>

\* A call takes longer than the clock's resolution: one that seems to take no
\* time does not occur (the clock would have to step back by exactly its length).
Answer(r) ==
    /\ At(r, "thinking") /\ clock > reasoner[r].started
    /\ \E changes \in AllChanges(r) :
         LET d == [id |-> reasoner[r].call, event |-> reasoner[r].event,
                   base |-> reasoner[r].base, started |-> reasoner[r].started,
                   completed |-> clock, changes |-> changes, target |-> NoTarget]
         IN  \E target \in TargetsOf(r, d) :
                 commits' = commits \cup {[d EXCEPT !.target = target]}
    /\ Goes(r, [Resting EXCEPT !.pc = "committing", !.call = reasoner[r].call])
    /\ UNCHANGED <<time, store, calls>>

\* The call failed, its answer was unusable, or the clock regressed; or the
\* caller ran out of time, and a commit it had begun goes on.
GiveUp(r) ==
    /\ At(r, "thinking") \/ At(r, "committing")
    /\ Goes(r, Resting)
    /\ UNCHANGED <<time, store, commits, calls>>

\* _commit in its thread.
Commit(d) ==
    /\ commits' = commits \ {d}
    /\ decisions' = IF Accepted(d)
                    THEN Append(decisions,
                                [event |-> d.event, base |-> d.base, started |-> d.started,
                                 completed |-> d.completed, changes |-> d.changes,
                                 target |-> d.target, committedAt |-> clock])
                    ELSE decisions
    /\ reasoner' = [r \in Reasoners |->
                       IF reasoner[r].call = d.id THEN Resting ELSE reasoner[r]]
    /\ UNCHANGED <<time, recorded, calls>>

\* The process ends: its reasoners and the threads that had not run are gone.
Crash ==
    /\ commits # {} \/ \E r \in Reasoners : ~At(r, "idle")
    /\ commits' = {} /\ reasoner' = [r \in Reasoners |-> Resting]
    /\ UNCHANGED <<time, store, calls>>
-----------------------------------------------------------------------------
Tick ==
    /\ clock < MaxClock /\ clock' = clock + 1
    /\ UNCHANGED <<steps, received, store, reasoner, commits, calls>>

ClockStepsBack ==
    /\ clock > 0 /\ steps < MaxSteps
    /\ clock' = clock - 1 /\ steps' = steps + 1
    /\ UNCHANGED <<received, store, reasoner, commits, calls>>

Next ==
    \/ \E r \in Reasoners :
         \/ \E e \in Events : Record(r, e)
         \/ Look(r) \/ Snapshot(r) \/ Call(r) \/ Answer(r) \/ GiveUp(r)
    \/ \E d \in commits : Commit(d)
    \/ Crash \/ Tick \/ ClockStepsBack

Spec == Init /\ [][Next]_vars
-----------------------------------------------------------------------------
(***************************************************************************)
(* Properties                                                              *)
(***************************************************************************)
Times == 0 .. MaxClock
Revisions == [revision : Nat, active : BOOLEAN, evidence : SUBSET Events, updatedAt : Times]
IsChanges(f) == DOMAIN f \subseteq Events /\ \A t \in DOMAIN f : f[t] \in Revisions

\* The state keeps its shape, and the reasoners' calls are distinct.
TypeOK ==
    /\ clock \in Times /\ steps \in 0 .. MaxSteps /\ calls \in 0 .. MaxCalls
    /\ received \in [Events -> Arrivals]
    /\ recorded \in [Events -> Times \cup {Never}]
    /\ \A v \in DOMAIN decisions :
         LET d == decisions[v]
         IN  /\ d.event \in Events /\ d.base \in Nat /\ d.target \subseteq Events
             /\ {d.started, d.completed, d.committedAt} \subseteq Times
             /\ IsChanges(d.changes)
    /\ \A d \in commits : d.id \in 1 .. calls /\ IsChanges(d.changes) /\ d.target \subseteq Events
    /\ \A r \in Reasoners :
         /\ reasoner[r].pc \in {"idle", "recorded", "looked", "read", "thinking", "committing"}
         /\ reasoner[r].pc = "thinking" =>
              \A q \in Reasoners \ {r} : reasoner[q].call # reasoner[r].call

\* A committed decision can be explained from the store alone: the memory as of
\* the moment its reasoning began is just the memory it was based on, which is
\* all that was decided before it.  (A snapshot is read after its cutoff was
\* taken and committed on long after, while other reasoners commit and the clock
\* may step back.)
HistoryIsReproducible ==
    \A v \in DOMAIN decisions :
        decisions[v].base = v - 1 /\ VersionAt(decisions[v].started) = v - 1

\* No hindsight: whatever the memory holds after a decision rests on events that
\* were received and stored before that decision's reasoning began, by the
\* times a later audit reads from the store.
NoHindsight ==
    \A v \in DOMAIN decisions : \A t \in Events :
        \A e \in ThesisAt(v, t).evidence :
            /\ recorded[e] # Never /\ recorded[e] <= decisions[v].started
            /\ received[e] <= decisions[v].started

\* A non-zero position is asked for only on theses that, in the memory the
\* decision leaves, are active and not due for review when it was completed.
TargetsRestOnLiveTheses ==
    \A v \in DOMAIN decisions :
        LET d == decisions[v]
        IN  \A t \in d.target :
                /\ ThesisAt(v, t).active
                /\ d.completed < ThesisAt(v, t).updatedAt + Horizon

\* The memory tells causes from consequences: a decision can be explained from what
\* the store had when it was made, and its target from the theses it left.
MemoryIsCausal ==
    /\ TypeOK
    /\ HistoryIsReproducible
    /\ NoHindsight
    /\ TargetsRestOnLiveTheses

\* Concurrent reasoners, abandoned commits and crashes leave a memory that one
\* careful reasoner could have written: no event decided twice, no update lost.
Log == INSTANCE ThesisLog WITH
    decided  <- [v \in DOMAIN decisions |-> decisions[v].event],
    evidence <- [t \in Events |-> ThesisAt(Len(decisions), t).evidence],
    revision <- [t \in Events |-> ThesisAt(Len(decisions), t).revision]

IsThesisLog == Log!Spec
=============================================================================
