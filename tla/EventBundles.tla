---------------------------- MODULE EventBundles ----------------------------
(***************************************************************************)
(* Bundles of simultaneous news (runtime.py: ShadowRunner.step_events, the *)
(* bundle tables of SQLiteRuntimeStore, recover_incomplete with its        *)
(* reconciliation; english_tier1.py: bundle_simultaneous_events).          *)
(*                                                                         *)
(* One scan sorts the latest captured items into those whose bundle or own *)
(* event is still in progress, those done, and new ones; it goes on with   *)
(* the first, then groups the new ones, records each group's event, binds  *)
(* its members to it and only then runs the event's cycle.  When the event *)
(* is over its members are marked one by one.  The process may die between *)
(* any two writes, and any of them may raise instead: that ends the scan,  *)
(* or the recovery with its reconciliation, and the next scan begins.  A   *)
(* requested stop leaves the loops at the same places and adds nothing to  *)
(* a crash.                                                                *)
(*                                                                         *)
(* An event is the set of items it speaks for: the code's bundle id is a   *)
(* digest of its members' ids.  The inside of a cycle is EventRuntime's.   *)
(***************************************************************************)
EXTENDS Naturals, Sequences, FiniteSets, SequencesExt

CONSTANTS
    Items,        \* revisions the observer may publish, numbered by their ids
    Key,          \* the provider and moment of each: what makes two simultaneous
    Window,       \* how many of the latest revisions a scan reads (200)
    MaxAttempts,  \* max_reasoning_attempts
    MaxStarts,    \* bound: how often the process is started
    MaxFaults     \* bound: time-outs, waits for a quote and exceptions

ASSUME BundleAssumption ==
    /\ Items \subseteq Nat
    /\ Window \in Nat /\ MaxAttempts \in Nat \ {0}
    /\ MaxStarts \in Nat /\ MaxFaults \in Nat

VARIABLES
    arrivals,   \* captured items in the order they became available
    rows,       \* runtime_events, durable
    bound,      \* runtime_event_bundles, durable: the event an item is bound to
    evidence,   \* events recorded in the memory, durable
    committed,  \* events with a committed decision, durable
    asked,      \* history: events the model was asked about, and those over
    left,       \*   whose members an exception left unmarked
    runner,     \* where step_events or recover_incomplete is
    began,      \* how many items had arrived when the process started
    starts, faults

store == <<rows, bound, evidence, committed>>
history == <<asked, left>>
vars == <<arrivals, store, history, runner, began, starts, faults>>

Events == (UNION {SUBSET {j \in Items : Key[j] = Key[i]} : i \in Items}) \ {{}}
Own(i) == {i}
Unbound == {}
NoRow == [state |-> "absent", attempts |-> 0]
Incomplete == {"received", "awaiting_market_quote", "reasoning_failed", "memory_committed"}
Down == [pc |-> "down", after |-> "down", event |-> {}, todo |-> {}, fresh |-> {}]

Init ==
    /\ arrivals = <<>> /\ began = 0
    /\ rows = [e \in Events |-> NoRow]
    /\ bound = [i \in Items |-> Unbound]
    /\ evidence = {} /\ committed = {} /\ asked = {} /\ left = {}
    /\ runner = Down /\ starts = 0 /\ faults = 0
-----------------------------------------------------------------------------
\* "over" stands for every terminal state but "bundled".
Terminal(row) == row.state \in {"over", "bundled"}

Exhausted(row) == row.state = "reasoning_failed" /\ row.attempts >= MaxAttempts
Done(e) == Terminal(rows[e]) \/ Exhausted(rows[e])

Members(e) == {i \in Items : bound[i] = e}
Unmarked(e) == {i \in Members(e) : rows[Own(i)].state # "bundled"}

Set(e, state) == rows' = [rows EXCEPT ![e].state = state]
Fails(e) == rows' = [rows EXCEPT ![e] = [state |-> "reasoning_failed", attempts |-> @.attempts + 1]]

\* finalize_bundle_members begins, or there is nothing to mark.
Marks(e) ==
    runner' = IF Unmarked(e) = {} THEN [runner EXCEPT !.pc = runner.after, !.event = {}]
              ELSE [runner EXCEPT !.pc = "mark", !.event = e]

\* Those whose members are not marked although they are over.
OverUnmarked == {e \in Events : Terminal(rows[e]) /\ Unmarked(e) # {}}

Returns == runner' = [runner EXCEPT !.pc = runner.after, !.event = {}]
Idles == runner' = [Down EXCEPT !.pc = "idle", !.after = "idle"]
Runs(e, rest) == runner' = [rest EXCEPT !.pc = "cycle", !.event = e]
World == <<arrivals, began, starts>>
-----------------------------------------------------------------------------
(***************************************************************************)
(* Starting: recover_incomplete, then the members a crash left unmarked    *)
(***************************************************************************)
Start ==
    /\ runner.pc = "down" /\ starts < MaxStarts
    /\ starts' = starts + 1 /\ began' = Len(arrivals)
    /\ runner' = [Down EXCEPT !.pc = "recover", !.after = "recover",
                              !.todo = {e \in Events : rows[e].state \in Incomplete}]
    /\ UNCHANGED <<arrivals, store, history, faults>>

\* An undecided event that was tried often enough, or is too old by now, ends here.
RecoverAbandons(e) ==
    /\ runner.pc = "recover" /\ e \in runner.todo /\ e \in evidence \ committed
    /\ Set(e, "over")
    /\ runner' = [runner EXCEPT !.todo = @ \ {e}, !.event = e, !.pc = "mark"]
    /\ UNCHANGED <<World, bound, evidence, committed, history, faults>>

RecoverRuns(e) ==
    /\ runner.pc = "recover" /\ e \in runner.todo
    /\ e \in evidence => (e \in committed \/ rows[e].attempts < MaxAttempts)
    /\ IF e \in evidence THEN Runs(e, [runner EXCEPT !.todo = @ \ {e}])
       ELSE runner' = [runner EXCEPT !.todo = @ \ {e}]
    /\ UNCHANGED <<World, store, history, faults>>

\* unfinalized_bundle_ids
RecoverEnds ==
    /\ runner.pc = "recover" /\ runner.todo = {}
    /\ runner' = [runner EXCEPT !.pc = "reconcile", !.after = "reconcile",
                                !.todo = {e \in Events : Unmarked(e) # {}}]
    /\ UNCHANGED <<World, store, history, faults>>

Reconciles(e) == Done(e)

ReconcileNext(e) ==
    /\ runner.pc = "reconcile" /\ e \in runner.todo
    /\ runner' = LET rest == [runner EXCEPT !.todo = @ \ {e}]
                 IN  IF Reconciles(e) THEN [rest EXCEPT !.pc = "mark", !.event = e] ELSE rest
    /\ UNCHANGED <<World, store, history, faults>>

ReconcileEnds ==
    /\ runner.pc = "reconcile" /\ runner.todo = {}
    /\ Idles /\ left' = {}
    /\ UNCHANGED <<World, store, asked, faults>>
-----------------------------------------------------------------------------
(***************************************************************************)
(* One scan                                                                *)
(***************************************************************************)
Latest == {arrivals[k] : k \in {n \in DOMAIN arrivals : n + Window > Len(arrivals)}}
BeforeRun(i) == \E k \in DOMAIN arrivals : arrivals[k] = i /\ k <= began

ScanBegins ==
    /\ runner.pc = "idle" /\ arrivals # <<>>
    /\ runner' = [Down EXCEPT !.pc = "scan", !.after = "scan", !.fresh = Latest]
    /\ left' = {e \in left : Unmarked(e) \cap Latest = {}}
    /\ UNCHANGED <<World, store, asked, faults>>

\* Mutant: whatever is bound is left to the recovery.
InProgress_Unbound(i) ==
    IF bound[i] # Unbound \/ rows[Own(i)] = NoRow \/ Done(Own(i)) THEN {} ELSE {Own(i)}

\* What the scan has to go on with for item i: its bundle, or its own event.
InProgress(i) ==
    IF bound[i] # Unbound
    THEN IF rows[Own(i)].state # "bundled" \/ ~Done(bound[i]) THEN {bound[i]} ELSE {}
    ELSE IF rows[Own(i)] = NoRow \/ Done(Own(i)) THEN {} ELSE {Own(i)}

IsNew(i) == bound[i] = Unbound /\ rows[Own(i)] = NoRow

\* New items that the filter refuses, or that are older than the run, end here.
FilterOut(i) ==
    /\ runner.pc = "scan" /\ i \in runner.fresh /\ IsNew(i)
    /\ Set(Own(i), "over")
    /\ runner' = [runner EXCEPT !.fresh = @ \ {i}]
    /\ UNCHANGED <<World, bound, evidence, committed, history, faults>>

\* The others have been looked at; simultaneous new items make one event.
Sorted ==
    LET new  == {i \in runner.fresh : IsNew(i)}
    IN  [runner EXCEPT !.todo = UNION {InProgress(i) : i \in runner.fresh}, !.fresh = new]

ScanEnds ==
    /\ runner.pc = "scan"
    /\ \A i \in runner.fresh : IsNew(i) => ~BeforeRun(i)
    /\ runner' = [Sorted EXCEPT !.pc = "continue", !.after = "continue"]
    /\ UNCHANGED <<World, store, history, faults>>

\* Phase A: an event in progress.
ContinueNext(e) ==
    /\ runner.pc = "continue" /\ e \in runner.todo
    /\ LET rest == [runner EXCEPT !.todo = @ \ {e}]
       IN  IF Terminal(rows[e]) \/ (Exhausted(rows[e]) /\ e \notin committed)
           THEN runner' = IF Unmarked(e) = {} THEN rest
                          ELSE [rest EXCEPT !.pc = "mark", !.event = e]
           ELSE Runs(e, rest)
    /\ UNCHANGED <<World, store, history, faults>>

ContinueEnds ==
    /\ runner.pc = "continue" /\ runner.todo = {}
    /\ runner' = [runner EXCEPT !.pc = "group", !.after = "group"]
    /\ UNCHANGED <<World, store, history, faults>>

\* bundle_simultaneous_events
Groups == {{j \in runner.fresh : Key[j] = Key[i]} : i \in runner.fresh}

\* Phase B: a new event; a bundle is recorded as evidence first.
GroupNext(e) ==
    /\ runner.pc = "group" /\ e \in Groups
    /\ LET rest == [runner EXCEPT !.fresh = @ \ e]
       IN  IF Cardinality(e) = 1
           THEN Runs(e, rest) /\ UNCHANGED evidence
           ELSE /\ runner' = [rest EXCEPT !.pc = "bind", !.event = e]
                /\ evidence' = evidence \cup {e}
    /\ UNCHANGED <<World, rows, bound, committed, history, faults>>

\* Mutant: members are bound after the cycle, when they are marked.
Bound_Later(e) == bound

\* bind_bundle_members, one transaction.
Bound(e) == [i \in Items |-> IF i \in e THEN e ELSE bound[i]]

Bind ==
    LET e == runner.event
    IN  /\ runner.pc = "bind"
        /\ \A i \in e : bound[i] \in {Unbound, e}
        /\ bound' = Bound(e)
        /\ rows' = [f \in Events |->
                       IF f = e /\ rows[f] = NoRow THEN [NoRow EXCEPT !.state = "received"]
                       ELSE IF \E i \in e : f = Own(i) /\ rows[f] = NoRow
                            THEN [NoRow EXCEPT !.state = "bundle_member_pending"]
                            ELSE rows[f]]
        /\ runner' = [runner EXCEPT !.pc = "cycle"]
        /\ UNCHANGED <<World, evidence, committed, history, faults>>

GroupsEnd ==
    /\ runner.pc = "group" /\ runner.fresh = {}
    /\ Idles
    /\ UNCHANGED <<World, store, history, faults>>
-----------------------------------------------------------------------------
(***************************************************************************)
(* run_cycle as step_events and recover_incomplete see it                  *)
(***************************************************************************)
\* Without a decision: the event ends (refused, too old),
CycleEndsEarly ==
    LET e == runner.event
    IN  /\ runner.pc = "cycle" /\ e \notin committed
        /\ evidence' = evidence \cup {e} /\ Set(e, "over")
        /\ Marks(e)
        /\ UNCHANGED <<World, bound, committed, history, faults>>

\* waits for a quote,
CycleWaits ==
    LET e == runner.event
    IN  /\ runner.pc = "cycle" /\ e \notin committed /\ faults < MaxFaults
        /\ evidence' = evidence \cup {e} /\ Set(e, "awaiting_market_quote")
        /\ faults' = faults + 1 /\ Returns
        /\ UNCHANGED <<World, bound, committed, history>>

\* or is put to the model.
CycleAsks ==
    LET e == runner.event
    IN  /\ runner.pc = "cycle" /\ e \notin committed
        /\ evidence' = evidence \cup {e} /\ asked' = asked \cup {e}
        /\ IF rows[e] = NoRow THEN Set(e, "received") ELSE UNCHANGED rows
        /\ runner' = [runner EXCEPT !.pc = "answer"]
        /\ UNCHANGED <<World, bound, committed, left, faults>>

\* Only the scan marks the members of an event that failed for the last time.
AnswerFails ==
    LET e == runner.event
    IN  /\ runner.pc = "answer"
        /\ Fails(e)
        /\ IF rows[e].attempts + 1 >= MaxAttempts /\ runner.after # "recover" THEN Marks(e) ELSE Returns
        /\ UNCHANGED <<World, bound, evidence, committed, history, faults>>

AnswerCommits ==
    LET e == runner.event
    IN  /\ runner.pc = "answer"
        /\ committed' = committed \cup {e}
        /\ runner' = [runner EXCEPT !.pc = "cycle"]
        /\ UNCHANGED <<World, rows, bound, evidence, history, faults>>

\* A committed decision is carried through.
CycleConcludes ==
    LET e == runner.event
    IN  /\ runner.pc = "cycle" /\ e \in committed
        /\ Set(e, "over") /\ Marks(e)
        /\ UNCHANGED <<World, bound, evidence, committed, history, faults>>

\* The time-out of the caller: while the cycle waits for the runtime's lock,
\* before the commit or after.
Timeout ==
    LET e == runner.event
    IN  /\ runner.pc \in {"cycle", "answer"}
        /\ faults < MaxFaults /\ faults' = faults + 1
        /\ Fails(e)
        /\ IF rows[e].attempts + 1 >= MaxAttempts THEN Marks(e) ELSE Returns
        /\ UNCHANGED <<World, bound, evidence, committed, history>>

\* Members are marked in the order of their ids.
MarkNext ==
    /\ runner.pc = "mark" /\ Unmarked(runner.event) # {}
    /\ Set(Own(Min(Unmarked(runner.event))), "bundled")
    /\ UNCHANGED <<World, bound, evidence, committed, history, runner, faults>>

MarksEnd ==
    /\ runner.pc = "mark" /\ Unmarked(runner.event) = {}
    /\ Returns
    /\ UNCHANGED <<World, store, history, faults>>
-----------------------------------------------------------------------------
Capture(i) ==
    /\ ~Contains(arrivals, i)
    /\ arrivals' = Append(arrivals, i)
    /\ UNCHANGED <<store, history, runner, began, starts, faults>>

Crash ==
    /\ runner.pc # "down" /\ starts < MaxStarts
    /\ runner' = Down
    /\ UNCHANGED <<World, store, history, faults>>

\* What comes next raises, the cycle or a write: _event_worker logs it and goes
\* on with a scan, after recovery too, which lists its events only once.
BreaksOff ==
    /\ runner.pc \notin {"down", "idle"}
    /\ faults < MaxFaults /\ faults' = faults + 1
    /\ Idles /\ left' = left \cup OverUnmarked
    /\ UNCHANGED <<World, store, asked>>

Recovery ==
    \/ \E e \in Events : RecoverAbandons(e) \/ RecoverRuns(e) \/ ReconcileNext(e)
    \/ RecoverEnds \/ ReconcileEnds

Cycle ==
    \/ CycleEndsEarly \/ CycleWaits \/ CycleAsks \/ CycleConcludes
    \/ AnswerFails \/ AnswerCommits \/ Timeout
    \/ MarkNext \/ MarksEnd

Scan ==
    \/ ScanBegins \/ ScanEnds \/ ContinueEnds \/ Bind \/ GroupsEnd
    \/ \E i \in Items : FilterOut(i)
    \/ \E e \in Events : ContinueNext(e) \/ GroupNext(e)

Next == Start \/ Recovery \/ Scan \/ Cycle \/ BreaksOff \/ Crash \/ \E i \in Items : Capture(i)

Spec == Init /\ [][Next]_vars

\* The service manager restarts the process, and its loops go on.
Fairness == WF_vars(Start) /\ WF_vars(Recovery \/ Scan \/ Cycle)
FairSpec == Spec /\ Fairness
-----------------------------------------------------------------------------
(***************************************************************************)
(* Properties                                                              *)
(***************************************************************************)
States == {"absent", "bundle_member_pending", "over", "bundled"} \cup Incomplete

\* The state keeps its shape; attempts end where they should but for time-outs
\* of events already decided.
TypeOK ==
    /\ arrivals \in Seq(Items) /\ began \in 0 .. Len(arrivals)
    /\ \A e \in Events : rows[e].state \in States /\ rows[e].attempts \in 0 .. MaxAttempts + faults
    /\ bound \in [Items -> Events \cup {Unbound}]
    /\ evidence \subseteq Events /\ committed \subseteq asked /\ asked \subseteq evidence
    /\ left \subseteq Events
    /\ starts \in 0 .. MaxStarts /\ faults \in 0 .. MaxFaults

\* "... never regroup already-bound constituents into a new bundle or generate
\* duplicate LLM calls" (docs/architecture.md): whatever crashes, late siblings
\* and retries do, an item is put to the model as part of one event only.
OneVoice == \A e, f \in asked : e = f \/ e \cap f = {}

\* Between scans no event is over with a member unmarked, though a crash may
\* fall between any two marks and the scan no longer reach back to them -- but
\* those an exception left behind, until a scan or a recovery gets to them.
MembersFollow ==
    runner.pc = "idle" =>
        \A i \in Items :
            bound[i] # Unbound /\ Terminal(rows[bound[i]]) =>
                rows[Own(i)].state = "bundled" \/ bound[i] \in left

\* An item speaks in one event, and ends with it.
ItemsSpeakOnce == TypeOK /\ OneVoice /\ MembersFollow

\* Every captured item comes to an end: refused, tried often enough, or over,
\* by itself or with its bundle -- unless later items push it out of the scan's
\* window first.
Pending(i) == Contains(arrivals, i) /\ ~Done(Own(i)) /\ i \in Latest
EveryItemConcludes == []<>(\A i \in Items : ~Pending(i))
=============================================================================
