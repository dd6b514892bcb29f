-------------------------- MODULE EventWorkerProofs --------------------------
(***************************************************************************)
(* Theorems about the event worker's other jobs, for every value of their  *)
(* constants and any number of restarts.                                   *)
(*                                                                         *)
(* Bundles: an item of news is put to the model as part of one event only  *)
(* and ends with it.  An event speaks for its items when it is their       *)
(* bundle, or the own event of one that is in no bundle.  The inductive    *)
(* invariant says what follows from that for the stores (StoresFit), what  *)
(* the worker may take as read at each place between two writes            *)
(* (WorkFits), and which events may still be over with a member unmarked   *)
(* (LooseFits).                                                            *)
(*                                                                         *)
(* Reviews: the limits hold over restarts, and a review costs no more      *)
(* calls than attempts.  The inductive invariant says what a pass may rely *)
(* on about its snapshot and a recovery about its work (StepFits), and     *)
(* accounts for every call (CallsFit).                                     *)
(***************************************************************************)
EXTENDS EventBundles, Reviews, FiniteSetTheorems, WellFoundedInduction, TLAPS

Rows == [state : States, attempts : Nat]
Phases == {"down", "recover", "reconcile", "idle", "scan", "continue", "group"}
Inside == {"bind", "cycle", "answer", "mark"}
Workers == [pc : Phases \cup Inside, after : Phases, event : Events \cup {{}},
            todo : SUBSET Events, fresh : SUBSET Items]

Shape ==
    /\ arrivals \in Seq(Items) /\ began \in 0 .. Len(arrivals)
    /\ rows \in [Events -> Rows]
    /\ bound \in [Items -> Events \cup {Unbound}]
    /\ evidence \subseteq Events /\ committed \subseteq asked /\ asked \subseteq evidence
    /\ left \subseteq Events
    /\ runner \in Workers
    /\ starts \in 0 .. MaxStarts /\ faults \in 0 .. MaxFaults

Sole(e) == \E i \in Items : e = Own(i)
HasRow(e) == rows[e].state # "absent"

\* The event is the one that its items are heard in.
Speaks(e) == \A i \in e : bound[i] = IF Sole(e) THEN Unbound ELSE e

\* A bundle has a row, speaks for all its members, and stands for their own events.
Bundled(i) ==
    bound[i] # Unbound =>
        /\ i \in bound[i] /\ ~Sole(bound[i])
        /\ Speaks(bound[i]) /\ HasRow(bound[i])
        /\ rows[Own(i)].state \in {"bundle_member_pending", "bundled"}

\* Only an event that speaks for its items is worked on, and its attempts are counted.
RowFits(e) ==
    /\ ~HasRow(e) => rows[e] = NoRow
    /\ rows[e].state \in Incomplete \cup {"over"} => Speaks(e)
    /\ rows[e].state \in {"bundle_member_pending", "bundled"} =>
         Sole(e) /\ \A i \in e : bound[i] # Unbound
    /\ rows[e].attempts <= MaxAttempts + faults
    /\ e \notin committed =>
         \/ rows[e].attempts < MaxAttempts
         \/ rows[e].attempts = MaxAttempts /\ rows[e].state \in {"reasoning_failed", "over"}

StoresFit ==
    /\ \A i \in Items : Bundled(i)
    /\ \A e \in Events : RowFits(e)
    /\ \A e \in asked : Speaks(e) /\ HasRow(e)

\* What the worker relies on: the event in its hands, the events it has yet to go on
\* with, and the new items it has yet to group.
EventFits ==
    /\ runner.pc \in Phases => runner.after = runner.pc
    /\ runner.pc \in Inside =>
         runner.event \in Events /\ runner.after \in {"recover", "reconcile", "continue", "group"}
    /\ runner.pc = "bind" =>
         runner.after = "group" /\ ~Sole(runner.event) /\ \A i \in runner.event : IsNew(i)
    /\ runner.pc \in {"cycle", "answer"} =>
         /\ Speaks(runner.event)
         /\ runner.event \notin committed => rows[runner.event].attempts < MaxAttempts
    /\ runner.pc = "answer" => runner.event \in asked \ committed
    /\ runner.pc \in {"bind", "cycle", "answer"} => runner.event \cap runner.fresh = {}

TodoFits == runner.after \in {"recover", "continue"} => \A e \in runner.todo : Speaks(e) /\ HasRow(e)

FreshFits ==
    /\ IsFiniteSet(runner.fresh)
    /\ runner.after # "scan" => \A i \in runner.fresh : IsNew(i)

WorkFits == EventFits /\ TodoFits /\ FreshFits

\* An event that is over with a member unmarked is one that a crash left so and recovery
\* has not come to, one that an exception left so and that the scan has before it or does
\* not reach, or the one whose members are being marked.
Loose(e) == Terminal(rows[e]) /\ Unmarked(e) # {}
Excused(e) ==
    \/ runner.after \in {"down", "recover"}
    \/ runner.after \in {"reconcile", "continue"} /\ e \in runner.todo
    \/ runner.after = "scan" /\ Unmarked(e) \cap runner.fresh # {}
    \/ runner.after # "reconcile" /\ e \in left
    \/ runner.pc = "mark" /\ e = runner.event
LooseFits == \A e \in Events : Loose(e) => Excused(e)

Inv == Shape /\ StoresFit /\ WorkFits /\ LooseFits
-----------------------------------------------------------------------------
(***************************************************************************)
(* Constants, events and their items                                       *)
(***************************************************************************)
LEMMA Bounds ==
    /\ Items \subseteq Nat /\ MaxAttempts \in Nat \ {0}
    /\ Window \in Nat /\ MaxStarts \in Nat /\ MaxFaults \in Nat
BY BundleAssumption

\* An event is a set of simultaneous items; any of them could be one by itself.
LEMMA EventItems ==
    /\ \A e \in Events : e \subseteq Items /\ e # {}
    /\ \A i \in Items : Own(i) \in Events /\ Sole(Own(i))
    /\ \A i, j : Own(i) = Own(j) => i = j
BY DEF Events, Own, Sole

\* The items of a scan that are simultaneous make an event.
LEMMA SimultaneousItems ==
    ASSUME NEW s \in SUBSET Items, NEW i \in s
    PROVE  {j \in s : Key[j] = Key[i]} \in Events
<1> DEFINE g == {j \in s : Key[j] = Key[i]}
<1>1. g \in SUBSET {j \in Items : Key[j] = Key[i]} /\ g # {}
  OBVIOUS
<1> QED
  BY <1>1 DEF Events

\* The fields of a row and of the worker.
LEMMA Fields ==
    ASSUME Shape
    PROVE  /\ \A e \in Events : /\ rows[e] \in Rows /\ rows[e].state \in States
                                /\ rows[e].attempts \in Nat
           /\ \A i \in Items : bound[i] \in Events \cup {Unbound}
           /\ runner.pc \in Phases \cup Inside /\ runner.after \in Phases
           /\ runner.event \in Events \cup {{}} /\ runner.todo \in SUBSET Events
           /\ runner.fresh \in SUBSET Items /\ runner \in Workers
           /\ DOMAIN rows = Events
BY DEF Shape, Rows, Workers

LEMMA NoRowIsRow == NoRow \in Rows /\ ~(NoRow.state # "absent") /\ NoRow.attempts = 0
BY DEF NoRow, Rows, States

\* What is new has no row and no bundle.
LEMMA NewIsBare ==
    ASSUME Shape, StoresFit, NEW i \in Items
    PROVE  IsNew(i) <=> bound[i] = Unbound /\ ~HasRow(Own(i))
BY EventItems, NoRowIsRow DEF StoresFit, RowFits, IsNew, HasRow

\* The own event of an item has no members.
LEMMA SoleHasNoMembers ==
    ASSUME Shape, StoresFit, NEW e \in Events, Sole(e)
    PROVE  Unmarked(e) = {}
<1>1. \A i \in Items : bound[i] # e
  BY EventItems DEF StoresFit, Bundled, Unbound
<1> QED
  BY <1>1 DEF Unmarked, Members

\* What speaks for its items and has a row is no member that waits for its bundle.
LEMMA SpeaksIsWorked ==
    ASSUME Shape, StoresFit, NEW e \in Events, Speaks(e), HasRow(e)
    PROVE  rows[e].state \in Incomplete \cup {"over"}
<1>1. rows[e].state \in {"bundle_member_pending", "over", "bundled"} \cup Incomplete
  BY Fields DEF States, HasRow
<1>2. ASSUME rows[e].state \in {"bundle_member_pending", "bundled"} PROVE FALSE
  <2>1. Sole(e) /\ \A i \in e : bound[i] # Unbound
    BY <1>2 DEF StoresFit, RowFits
  <2> QED
    BY <2>1, EventItems DEF Speaks
<1> QED
  BY <1>1, <1>2
-----------------------------------------------------------------------------
(***************************************************************************)
(* Steps that write one event's row                                        *)
(***************************************************************************)
\* What stays of the other events and items when the row of e turns into r.
Aside(e) ==
    /\ \A f \in Events : /\ Speaks(f)' = Speaks(f)
                         /\ HasRow(f) => HasRow(f)'
                         /\ f # e => rows'[f] = rows[f]
                         /\ Unmarked(f)' = Unmarked(f)
    /\ HasRow(e)'
    /\ \A i \in Items : IsNew(i) /\ i \notin e => IsNew(i)'

\* The attempts of a row that the event's fate accounts for.
Accounted(e, r) ==
    /\ r.attempts <= MaxAttempts + faults'
    /\ e \notin committed' =>
         \/ r.attempts < MaxAttempts
         \/ r.attempts = MaxAttempts /\ r.state \in {"reasoning_failed", "over"}

LEMMA RowTurns ==
    ASSUME Shape, StoresFit, NEW e \in Events, Speaks(e),
           NEW r \in Rows, r.state \in Incomplete \cup {"over"}, Accounted(e, r),
           rows' = [rows EXCEPT ![e] = r], bound' = bound,
           asked' \in {asked, asked \cup {e}}, committed \subseteq committed',
           faults' \in Nat, faults <= faults'
    PROVE  StoresFit' /\ Aside(e)
<1>1. rows'[e] = r /\ \A f \in Events : f # e => rows'[f] = rows[f]
  BY Fields
<1>2. r.state \notin {"absent", "bundle_member_pending", "bundled"} /\ HasRow(e)'
  BY <1>1 DEF Incomplete, HasRow
<1>3. \A f : Speaks(f)' = Speaks(f)
  BY DEF Speaks, Sole
<1>4. \A f \in Events : HasRow(f) => HasRow(f)'
  BY <1>1, <1>2 DEF HasRow
<1>5. \A i \in Items : bound[i] # Unbound => Own(i) # e
  BY EventItems DEF Speaks, Own, Sole
<1>6. \A i \in Items : bound[i] # Unbound => rows'[Own(i)] = rows[Own(i)]
  BY <1>1, <1>5, EventItems
<1>7. \A f \in Events : Unmarked(f)' = Unmarked(f)
  <2> SUFFICES ASSUME NEW f \in Events PROVE Unmarked(f)' = Unmarked(f)
    OBVIOUS
  <2>1. \A i \in Members(f) : i \in Items /\ bound[i] # Unbound
    BY EventItems DEF Members, Unbound
  <2> QED
    BY <2>1, <1>6 DEF Unmarked, Members
<1>8. ASSUME NEW i \in Items, IsNew(i), i \notin e PROVE IsNew(i)'
  <2>1. Own(i) # e /\ Own(i) \in Events
    BY <1>8, EventItems DEF Own
  <2> QED
    BY <1>1, <1>8, <2>1 DEF IsNew
<1>9. ASSUME NEW i \in Items PROVE Bundled(i)'
  <2>1. ASSUME bound[i] # Unbound PROVE Bundled(i)'
    <3>1. bound[i] \in Events /\ Bundled(i)
      BY <2>1, Fields DEF StoresFit
    <3> QED
      BY <2>1, <3>1, <1>3, <1>4, <1>6 DEF Bundled, Sole, HasRow
  <2> QED
    BY <2>1 DEF Bundled
<1>10. ASSUME NEW f \in Events PROVE RowFits(f)'
  <2>1. CASE f = e
    <3>1. r.attempts <= MaxAttempts + faults'
          /\ (e \notin committed' => \/ r.attempts < MaxAttempts
                                     \/ r.attempts = MaxAttempts /\ r.state \in {"reasoning_failed", "over"})
      BY DEF Accounted
    <3> QED
      BY <1>1, <1>2, <1>3, <2>1, <3>1 DEF RowFits
  <2>2. CASE f # e
    <3>1. rows'[f] = rows[f] /\ RowFits(f) /\ HasRow(f)' = HasRow(f)
      BY <1>1, <2>2 DEF StoresFit, HasRow
    <3>2. rows[f].attempts <= MaxAttempts + faults'
      BY <3>1, Fields, Bounds DEF RowFits, Shape
    <3> QED
      BY <1>3, <3>1, <3>2 DEF RowFits, Sole
  <2> QED
    BY <2>1, <2>2
<1>11. \A f \in asked' : Speaks(f)' /\ HasRow(f)'
  BY <1>2, <1>3, <1>4 DEF StoresFit, Shape
<1>12. StoresFit'
  BY <1>9, <1>10, <1>11 DEF StoresFit
<1> QED
  BY <1>1, <1>2, <1>3, <1>4, <1>7, <1>8, <1>12 DEF Aside
-----------------------------------------------------------------------------
(***************************************************************************)
(* Steps that write no row                                                 *)
(***************************************************************************)
\* What is said of the stores is said of rows, bundles and decisions alone.
LEMMA StoresStay ==
    ASSUME Shape, StoresFit, rows' = rows, bound' = bound, asked' = asked, committed' = committed,
           faults' = faults
    PROVE  /\ StoresFit'
           /\ \A f : /\ Speaks(f)' = Speaks(f) /\ HasRow(f)' = HasRow(f)
                     /\ Unmarked(f)' = Unmarked(f) /\ Loose(f)' = Loose(f)
           /\ \A i : IsNew(i)' = IsNew(i)
<1>1. \A f : /\ Speaks(f)' = Speaks(f) /\ HasRow(f)' = HasRow(f)
             /\ Unmarked(f)' = Unmarked(f) /\ Loose(f)' = Loose(f)
  BY DEF Speaks, HasRow, Unmarked, Members, Loose, Terminal, Sole
<1>2. \A i : IsNew(i)' = IsNew(i)
  BY DEF IsNew
<1>3. \A i \in Items : Bundled(i)'
  BY <1>1 DEF StoresFit, Bundled, Sole
<1>4. \A e \in Events : RowFits(e)'
  BY <1>1 DEF StoresFit, RowFits, Sole
<1>5. \A e \in asked' : Speaks(e)' /\ HasRow(e)'
  BY <1>1 DEF StoresFit
<1> QED
  BY <1>1, <1>2, <1>3, <1>4, <1>5 DEF StoresFit

\* A step of the worker alone leaves the rest as it was.
StoreStays == rows' = rows /\ bound' = bound /\ committed' = committed /\ asked' = asked

LEMMA WorkerMoves ==
    ASSUME Inv, StoreStays, UNCHANGED <<arrivals, began, faults>>,
           evidence \subseteq evidence', evidence' \subseteq Events,
           starts' \in 0 .. MaxStarts, runner' \in Workers, left' \in SUBSET Events,
           EventFits', TodoFits', FreshFits', \A e \in Events : Loose(e) => Excused(e)'
    PROVE  Inv'
<1>1. StoresFit' /\ \A f \in Events : Loose(f)' = Loose(f)
  BY StoresStay DEF Inv, StoreStays
<1>2. Shape'
  BY DEF Inv, Shape, StoreStays
<1> QED
  BY <1>1, <1>2 DEF Inv, WorkFits, LooseFits

\* A process that is down relies on nothing.
LEMMA DownFits ==
    ASSUME runner' = Down
    PROVE  /\ runner' \in Workers /\ EventFits' /\ TodoFits' /\ FreshFits'
           /\ \A e \in Events : Excused(e)'
<1>1. runner'.pc = "down" /\ runner'.after = "down" /\ runner'.fresh = {}
  BY DEF Down
<1>2. runner' \in Workers
  BY DEF Down, Workers, Phases
<1>3. EventFits' /\ TodoFits'
  BY <1>1 DEF EventFits, TodoFits, Inside, Phases
<1>4. FreshFits'
  BY <1>1, FS_EmptySet DEF FreshFits
<1>5. \A e \in Events : Excused(e)'
  BY <1>1 DEF Excused
<1> QED
  BY <1>2, <1>3, <1>4, <1>5

LEMMA InvCrash ==
    ASSUME Inv, Crash
    PROVE  Inv'
<1>1. evidence \subseteq Events /\ starts \in 0 .. MaxStarts /\ left \in SUBSET Events
  BY DEF Inv, Shape
<1> QED
  BY <1>1, DownFits, WorkerMoves DEF Crash, StoreStays, store, World, history

\* The cycle or a write raises: what is half marked by now is left to the next scan.
LEMMA InvBreaksOff ==
    ASSUME Inv, BreaksOff
    PROVE  Inv'
<1>1. runner' = [Down EXCEPT !.pc = "idle", !.after = "idle"]
  BY DEF BreaksOff, Idles
<1>2. /\ runner' \in Workers /\ runner'.pc = "idle" /\ runner'.after = "idle" /\ runner'.fresh = {}
  BY <1>1 DEF Workers, Phases, Inside, Down
<1>3. /\ rows' = rows /\ bound' = bound /\ committed' = committed /\ asked' = asked
      /\ UNCHANGED <<arrivals, began, starts, evidence>>
      /\ left' = left \cup OverUnmarked
      /\ faults \in Nat /\ faults' = faults + 1 /\ faults' \in 0 .. MaxFaults
  BY Bounds DEF BreaksOff, store, World, Inv, Shape
<1>4. Shape'
  BY <1>2, <1>3 DEF Inv, Shape, OverUnmarked
<1>5. \A f : /\ Speaks(f)' = Speaks(f) /\ HasRow(f)' = HasRow(f) /\ Loose(f)' = Loose(f)
  BY <1>3 DEF Speaks, HasRow, Unmarked, Members, Loose, Terminal, Sole
<1>6. StoresFit'
  <2>1. \A i \in Items : Bundled(i)'
    BY <1>3, <1>5 DEF Inv, StoresFit, Bundled, Sole
  <2>2. ASSUME NEW e \in Events PROVE RowFits(e)'
    <3>1. RowFits(e) /\ rows[e].attempts \in Nat
      BY Fields DEF Inv, StoresFit
    <3>2. rows[e].attempts <= MaxAttempts + faults'
      BY <1>3, <3>1, Bounds DEF RowFits
    <3> QED
      BY <1>3, <1>5, <3>1, <3>2 DEF RowFits, Sole
  <2>3. \A e \in asked' : Speaks(e)' /\ HasRow(e)'
    BY <1>3, <1>5 DEF Inv, StoresFit
  <2> QED
    BY <2>1, <2>2, <2>3 DEF StoresFit
<1>7. WorkFits'
  BY <1>2, FS_EmptySet DEF WorkFits, EventFits, TodoFits, FreshFits, Phases, Inside
<1>8. LooseFits'
  <2> SUFFICES ASSUME NEW f \in Events, Loose(f)' PROVE Excused(f)'
    BY DEF LooseFits
  <2>1. f \in OverUnmarked
    BY <1>5 DEF OverUnmarked, Loose
  <2> QED
    BY <1>2, <1>3, <2>1 DEF Excused
<1> QED
  BY <1>4, <1>6, <1>7, <1>8 DEF Inv

\* An item is captured.
LEMMA InvCapture ==
    ASSUME Inv, NEW i \in Items, Capture(i)
    PROVE  Inv'
<1>1. StoresFit' /\ \A f : /\ Speaks(f)' = Speaks(f) /\ HasRow(f)' = HasRow(f)
                           /\ Loose(f)' = Loose(f) /\ Unmarked(f)' = Unmarked(f)
  BY StoresStay DEF Inv, Capture, store, history
<1>2. \A j : IsNew(j)' = IsNew(j)
  BY StoresStay DEF Inv, Capture, store, history
<1>3. Shape'
  <2>1. arrivals' \in Seq(Items) /\ Len(arrivals') = Len(arrivals) + 1 /\ Len(arrivals) \in Nat
    BY DEF Inv, Shape, Capture
  <2> QED
    BY <2>1 DEF Inv, Shape, Capture, store, history
<1>4. WorkFits'
  BY <1>1, <1>2 DEF Inv, WorkFits, EventFits, TodoFits, FreshFits, Capture, store, history, Sole
<1>5. LooseFits'
  BY <1>1 DEF Inv, LooseFits, Excused, Capture, history
<1> QED
  BY <1>1, <1>3, <1>4, <1>5 DEF Inv

\* The process starts: what it has to go on with are events with a row in progress.
LEMMA InvStart ==
    ASSUME Inv, Start
    PROVE  Inv'
<1> DEFINE begun == {e \in Events : rows[e].state \in Incomplete}
<1>1. runner' = [Down EXCEPT !.pc = "recover", !.after = "recover", !.todo = begun]
  BY DEF Start
<1>2. /\ runner'.pc = "recover" /\ runner'.after = "recover" /\ runner'.todo = begun
      /\ runner'.fresh = {} /\ runner' \in Workers
  BY <1>1 DEF Down, Workers, Phases
<1>3. StoresFit' /\ \A f : Speaks(f)' = Speaks(f) /\ HasRow(f)' = HasRow(f)
  BY StoresStay DEF Inv, Start, store, history
<1>4. Shape'
  <2>1. began' \in 0 .. Len(arrivals) /\ starts' \in 0 .. MaxStarts
    BY Bounds DEF Inv, Shape, Start
  <2> QED
    BY <1>2, <2>1 DEF Inv, Shape, Start, store, history
<1>5. \A e \in begun : Speaks(e) /\ HasRow(e)
  BY DEF Inv, StoresFit, RowFits, Incomplete, HasRow
<1>6. TodoFits'
  BY <1>2, <1>3, <1>5 DEF TodoFits
<1>7. EventFits'
  BY <1>2 DEF EventFits, Phases, Inside
<1>8. FreshFits' /\ LooseFits'
  BY <1>2, FS_EmptySet DEF FreshFits, LooseFits, Excused
<1> QED
  BY <1>3, <1>4, <1>6, <1>7, <1>8 DEF Inv, WorkFits
-----------------------------------------------------------------------------
(***************************************************************************)
(* The steps of recovery and scan that only move the worker                *)
(***************************************************************************)
\* What is said of the stores, before and after a step of the worker alone.
LEMMA SameStores ==
    ASSUME Inv, StoreStays, faults' = faults
    PROVE  /\ \A f : /\ Speaks(f)' = Speaks(f) /\ HasRow(f)' = HasRow(f)
                     /\ Unmarked(f)' = Unmarked(f)
           /\ \A i : IsNew(i)' = IsNew(i)
BY StoresStay DEF Inv, StoreStays

\* The events with a row have no new items.
LEMMA WorkedIsNotNew ==
    ASSUME Shape, StoresFit, NEW e \in Events, Speaks(e), HasRow(e), NEW i \in e
    PROVE  ~IsNew(i)
<1>1. ASSUME IsNew(i) PROVE FALSE
  <2>1. i \in Items /\ bound[i] = Unbound /\ ~HasRow(Own(i))
    BY <1>1, EventItems, NewIsBare
  <2>2. Sole(e)
    BY <2>1, EventItems DEF Speaks, Unbound
  <2>3. e = Own(i)
    BY <2>2 DEF Sole, Own
  <2> QED
    BY <2>1, <2>3
<1> QED
  BY <1>1

\* Between its cycles the worker is where its loop is; events that are half marked are
\* before it, or left by an exception.
LEMMA AtRest ==
    ASSUME Inv, runner.pc \in Phases
    PROVE  /\ runner.after = runner.pc
           /\ \A e \in Events : Loose(e) =>
                \/ runner.pc \in {"down", "recover"}
                \/ runner.pc \in {"reconcile", "continue"} /\ e \in runner.todo
                \/ runner.pc = "scan" /\ Unmarked(e) \cap runner.fresh # {}
                \/ runner.pc # "reconcile" /\ e \in left
BY DEF Inv, WorkFits, EventFits, LooseFits, Excused, Phases

LEMMA InvRecoverRuns ==
    ASSUME Inv, NEW e \in Events, RecoverRuns(e)
    PROVE  Inv'
<1>1. runner.pc = "recover" /\ runner.after = "recover" /\ e \in runner.todo /\ runner \in Workers
  BY AtRest DEF RecoverRuns, Phases, Inv, Shape
<1>2. Speaks(e) /\ HasRow(e) /\ IsFiniteSet(runner.fresh) /\ \A i \in runner.fresh : IsNew(i)
  BY <1>1 DEF Inv, WorkFits, TodoFits, FreshFits
<1>3. e \cap runner.fresh = {}
  BY <1>2, WorkedIsNotNew DEF Inv
<1>4. StoreStays /\ UNCHANGED <<arrivals, began, faults, evidence, starts, left>>
  BY DEF RecoverRuns, StoreStays, store, World, history
<1> DEFINE rest == [runner EXCEPT !.todo = @ \ {e}]
<1>5. IF e \in evidence THEN runner' = [rest EXCEPT !.pc = "cycle", !.event = e] ELSE runner' = rest
  BY DEF RecoverRuns, Runs
<1>6. /\ runner' \in Workers /\ runner'.after = "recover" /\ runner'.todo = runner.todo \ {e}
      /\ runner'.fresh = runner.fresh
      /\ IF e \in evidence THEN runner'.pc = "cycle" /\ runner'.event = e ELSE runner'.pc = "recover"
  BY <1>1, <1>5, ZenonT(40) DEF Workers, Phases, Inside
<1>7. EventFits'
  <2>1. CASE e \in evidence
    <3>1. e \in committed \/ rows[e].attempts < MaxAttempts
      BY <2>1 DEF RecoverRuns
    <3> QED
      BY <1>2, <1>3, <1>4, <1>6, <2>1, <3>1, SameStores DEF EventFits, StoreStays, Phases, Inside
  <2>2. CASE e \notin evidence
    BY <1>6, <2>2 DEF EventFits, Phases, Inside
  <2> QED
    BY <2>1, <2>2
<1>8. TodoFits' /\ FreshFits'
  BY <1>1, <1>2, <1>4, <1>6, SameStores DEF TodoFits, FreshFits, Inv, WorkFits
<1>9. \A f \in Events : Excused(f)'
  BY <1>6 DEF Excused
<1> QED
  BY <1>4, <1>6, <1>7, <1>8, <1>9, WorkerMoves DEF Inv, Shape

LEMMA InvRecoverEnds ==
    ASSUME Inv, RecoverEnds
    PROVE  Inv'
<1>1. runner.pc = "recover" /\ runner.after = "recover" /\ runner \in Workers
  BY AtRest DEF RecoverEnds, Phases, Inv, Shape
<1> DEFINE bundles == {e \in Events : Unmarked(e) # {}}
<1>2. runner' = [runner EXCEPT !.pc = "reconcile", !.after = "reconcile", !.todo = bundles]
  BY DEF RecoverEnds
<1>3. /\ runner' \in Workers /\ runner'.pc = "reconcile" /\ runner'.after = "reconcile"
      /\ runner'.todo = bundles /\ runner'.fresh = runner.fresh
  BY <1>1, <1>2 DEF Workers, Phases, Inside
<1>4. StoreStays /\ UNCHANGED <<arrivals, began, faults, evidence, starts, left>>
  BY DEF RecoverEnds, StoreStays, store, World, history
<1>5. EventFits' /\ TodoFits'
  BY <1>3 DEF EventFits, TodoFits, Phases, Inside
<1>6. FreshFits'
  BY <1>1, <1>3, <1>4, SameStores DEF Inv, WorkFits, FreshFits
<1>7. \A f \in Events : Loose(f) => Excused(f)'
  BY <1>3 DEF Excused, Loose
<1> QED
  BY <1>3, <1>4, <1>5, <1>6, <1>7, WorkerMoves DEF Inv, Shape

LEMMA InvReconcileNext ==
    ASSUME Inv, NEW e \in Events, ReconcileNext(e)
    PROVE  Inv'
<1>1. runner.pc = "reconcile" /\ runner.after = "reconcile" /\ runner \in Workers
  BY AtRest DEF ReconcileNext, Phases, Inv, Shape
<1> DEFINE rest == [runner EXCEPT !.todo = @ \ {e}]
<1>2. runner' = IF Reconciles(e) THEN [rest EXCEPT !.pc = "mark", !.event = e] ELSE rest
  BY DEF ReconcileNext
<1>3. /\ runner' \in Workers /\ runner'.after = "reconcile" /\ runner'.todo = runner.todo \ {e}
      /\ runner'.fresh = runner.fresh
      /\ IF Reconciles(e) THEN runner'.pc = "mark" /\ runner'.event = e ELSE runner'.pc = "reconcile"
  BY <1>1, <1>2 DEF Workers, Phases, Inside
<1>4. StoreStays /\ UNCHANGED <<arrivals, began, faults, evidence, starts, left>>
  BY DEF ReconcileNext, StoreStays, store, World, history
<1>5. EventFits' /\ TodoFits'
  BY <1>3 DEF EventFits, TodoFits, Phases, Inside
<1>6. FreshFits'
  BY <1>1, <1>3, <1>4, SameStores DEF Inv, WorkFits, FreshFits
<1>7. ASSUME NEW f \in Events, Loose(f) PROVE Excused(f)'
  <2>1. f \in runner.todo
    BY <1>1, <1>7, AtRest DEF Phases
  <2>2. CASE f = e
    BY <1>3, <1>7, <2>2 DEF Excused, Loose, Reconciles, Done
  <2>3. CASE f # e
    BY <1>3, <2>1, <2>3 DEF Excused
  <2> QED
    BY <2>2, <2>3
<1> QED
  BY <1>3, <1>4, <1>5, <1>6, <1>7, WorkerMoves DEF Inv, Shape

\* Recovery or a scan is over, with no event half marked but those left.
LEMMA InvIdles ==
    ASSUME Inv, ReconcileEnds \/ GroupsEnd
    PROVE  Inv'
<1>1. runner' = [Down EXCEPT !.pc = "idle", !.after = "idle"]
  BY DEF ReconcileEnds, GroupsEnd, Idles
<1>2. /\ runner' \in Workers /\ runner'.pc = "idle" /\ runner'.after = "idle" /\ runner'.fresh = {}
  BY <1>1 DEF Workers, Phases, Inside, Down
<1>3. /\ StoreStays /\ UNCHANGED <<arrivals, began, faults, evidence, starts>>
      /\ left' \in SUBSET Events
  BY DEF ReconcileEnds, GroupsEnd, StoreStays, store, World, history, Inv, Shape
<1>4. EventFits' /\ TodoFits' /\ FreshFits'
  BY <1>2, FS_EmptySet DEF EventFits, TodoFits, FreshFits, Phases, Inside
<1>5. ASSUME NEW f \in Events, Loose(f) PROVE Excused(f)'
  <2>1. GroupsEnd /\ f \in left
    BY <1>5, AtRest DEF ReconcileEnds, GroupsEnd, Phases
  <2> QED
    BY <1>2, <2>1 DEF GroupsEnd, history, Excused
<1> QED
  BY <1>2, <1>3, <1>4, <1>5, WorkerMoves DEF Inv, Shape

\* The latest items are finitely many.
LEMMA LatestAreFinite ==
    ASSUME Shape
    PROVE  Latest \in SUBSET Items /\ IsFiniteSet(Latest)
<1> DEFINE last == {n \in DOMAIN arrivals : n + Window > Len(arrivals)}
           at == [k \in last |-> arrivals[k]]
<1>1. Len(arrivals) \in Nat /\ DOMAIN arrivals = 1 .. Len(arrivals)
      /\ \A k \in DOMAIN arrivals : arrivals[k] \in Items
  BY DEF Shape
<1>2. IsFiniteSet(last)
  <2>1. IsFiniteSet(1 .. Len(arrivals))
    BY <1>1, FS_Interval
  <2> QED
    BY <1>1, <2>1, FS_Subset
<1>3. Latest = {at[k] : k \in last}
  BY DEF Latest
<1>4. IsFiniteSet({at[k] : k \in last})
  <2>1. at \in [last -> {at[k] : k \in last}] /\ \A y \in {at[k] : k \in last} : \E k \in last : at[k] = y
    OBVIOUS
  <2>2. at \in Surjection(last, {at[k] : k \in last})
    BY <2>1 DEF Surjection
  <2> QED
    BY <1>2, <2>2, FS_Surjection
<1>5. Latest \subseteq Items
  BY <1>1 DEF Latest
<1> QED
  BY <1>3, <1>4, <1>5

LEMMA InvScanBegins ==
    ASSUME Inv, ScanBegins
    PROVE  Inv'
<1>1. runner' = [Down EXCEPT !.pc = "scan", !.after = "scan", !.fresh = Latest]
  BY DEF ScanBegins
<1>2. Latest \in SUBSET Items /\ IsFiniteSet(Latest)
  BY LatestAreFinite DEF Inv
<1>3. /\ runner' \in Workers /\ runner'.pc = "scan" /\ runner'.after = "scan"
      /\ runner'.fresh = Latest
  BY <1>1, <1>2 DEF Workers, Phases, Inside, Down
<1>4. /\ StoreStays /\ UNCHANGED <<arrivals, began, faults, evidence, starts>>
      /\ left' = {e \in left : Unmarked(e) \cap Latest = {}} /\ left' \in SUBSET Events
  BY DEF ScanBegins, StoreStays, store, World, history, Inv, Shape
<1>5. EventFits' /\ TodoFits' /\ FreshFits'
  BY <1>2, <1>3 DEF EventFits, TodoFits, FreshFits, Phases, Inside
<1>6. ASSUME NEW f \in Events, Loose(f) PROVE Excused(f)'
  <2>1. f \in left
    BY <1>6, AtRest DEF ScanBegins, Phases
  <2>2. Unmarked(f)' = Unmarked(f)
    BY <1>4, SameStores
  <2> QED
    BY <1>3, <1>4, <2>1, <2>2 DEF Excused
<1> QED
  BY <1>3, <1>4, <1>5, <1>6, WorkerMoves DEF Inv, Shape

\* What an item is gone on with speaks for its items and has a row.
LEMMA InProgressFits ==
    ASSUME Inv, NEW i \in Items, NEW e \in InProgress(i)
    PROVE  e \in Events /\ Speaks(e) /\ HasRow(e)
<1>1. CASE bound[i] # Unbound
  <2>1. e = bound[i] /\ Bundled(i)
    BY <1>1 DEF InProgress, Inv, StoresFit
  <2> QED
    BY <1>1, <2>1, Fields DEF Bundled, Inv
<1>2. CASE bound[i] = Unbound
  <2>1. e = Own(i) /\ rows[Own(i)] # NoRow /\ Own(i) \in Events /\ Sole(Own(i))
    BY <1>2, EventItems DEF InProgress
  <2>2. HasRow(e)
    BY <2>1 DEF Inv, StoresFit, RowFits
  <2>3. Speaks(e)
    BY <1>2, <2>1 DEF Speaks, Own
  <2> QED
    BY <2>1, <2>2, <2>3
<1> QED
  BY <1>1, <1>2

LEMMA InvScanEnds ==
    ASSUME Inv, ScanEnds
    PROVE  Inv'
<1> DEFINE fresh == {i \in runner.fresh : IsNew(i)}
           todo == UNION {InProgress(i) : i \in runner.fresh}
<1>1. runner' = [[runner EXCEPT !.todo = todo, !.fresh = fresh] EXCEPT !.pc = "continue",
                                                                    !.after = "continue"]
  BY DEF ScanEnds, Sorted
<1>2. runner \in Workers /\ runner.fresh \subseteq Items /\ IsFiniteSet(runner.fresh)
  BY Fields DEF Inv, Shape, WorkFits, FreshFits
<1>3. \A e \in todo : e \in Events /\ Speaks(e) /\ HasRow(e)
  BY <1>2, InProgressFits
<1>4. IsFiniteSet(fresh)
  BY <1>2, FS_Subset
<1>5. fresh \in SUBSET Items /\ todo \in SUBSET Events
  BY <1>2, <1>3
<1> HIDE DEF fresh, todo
<1>6. /\ runner' \in Workers /\ runner'.pc = "continue" /\ runner'.after = "continue"
      /\ runner'.todo = todo /\ runner'.fresh = fresh
  BY <1>1, <1>2, <1>5 DEF Workers, Phases, Inside
<1>7. StoreStays /\ UNCHANGED <<arrivals, began, faults, evidence, starts, left>>
  BY DEF ScanEnds, StoreStays, store, World, history
<1>8. EventFits' /\ TodoFits' /\ FreshFits'
  <2>1. \A i \in fresh : IsNew(i)
    BY DEF fresh
  <2> QED
    BY <1>3, <1>4, <1>6, <1>7, <2>1, SameStores DEF EventFits, TodoFits, FreshFits, Phases, Inside
<1>9. ASSUME NEW f \in Events, Loose(f) PROVE Excused(f)'
  <2>1. \/ f \in left
        \/ Unmarked(f) \cap runner.fresh # {}
    BY <1>9, AtRest DEF ScanEnds, Phases
  <2>2. ASSUME NEW i \in Unmarked(f) \cap runner.fresh PROVE f \in todo
    <3>1. i \in Items /\ bound[i] = f /\ f # Unbound /\ rows[Own(i)].state # "bundled"
      BY <1>2, <2>2, EventItems DEF Unmarked, Members, Unbound
    <3>2. f \in InProgress(i)
      BY <3>1 DEF InProgress
    <3> QED
      BY <2>2, <3>2 DEF todo
  <2> QED
    BY <1>6, <1>7, <2>1, <2>2 DEF Excused
<1> QED
  BY <1>6, <1>7, <1>8, <1>9, WorkerMoves DEF Inv, Shape

LEMMA InvContinueNext ==
    ASSUME Inv, NEW e \in Events, ContinueNext(e)
    PROVE  Inv'
<1>1. runner.pc = "continue" /\ runner.after = "continue" /\ e \in runner.todo /\ runner \in Workers
  BY AtRest DEF ContinueNext, Phases, Inv, Shape
<1>2. Speaks(e) /\ HasRow(e) /\ IsFiniteSet(runner.fresh) /\ \A i \in runner.fresh : IsNew(i)
  BY <1>1 DEF Inv, WorkFits, TodoFits, FreshFits
<1>3. e \cap runner.fresh = {}
  BY <1>2, WorkedIsNotNew DEF Inv
<1>4. StoreStays /\ UNCHANGED <<arrivals, began, faults, evidence, starts, left>>
  BY DEF ContinueNext, StoreStays, store, World, history
<1> DEFINE rest == [runner EXCEPT !.todo = @ \ {e}]
           over == Terminal(rows[e]) \/ (Exhausted(rows[e]) /\ e \notin committed)
<1>5. \/ runner' = rest
      \/ runner' = [rest EXCEPT !.pc = "mark", !.event = e]
      \/ ~over /\ runner' = [rest EXCEPT !.pc = "cycle", !.event = e]
  BY DEF ContinueNext, Runs
<1>5a. Loose(e) => runner' = [rest EXCEPT !.pc = "mark", !.event = e]
  BY DEF ContinueNext, Runs, Loose
<1>6. /\ runner' \in Workers /\ runner'.after = "continue" /\ runner'.todo = runner.todo \ {e}
      /\ runner'.fresh = runner.fresh
      /\ \/ runner'.pc = "continue"
         \/ runner'.pc = "mark" /\ runner'.event = e
         \/ ~over /\ runner'.pc = "cycle" /\ runner'.event = e
  BY <1>1, <1>5 DEF Workers, Phases, Inside
<1>6a. Loose(e) => runner'.pc = "mark" /\ runner'.event = e
  BY <1>1, <1>5a DEF Workers
<1>7. ~over /\ e \notin committed => rows[e].attempts < MaxAttempts
  <2>1. RowFits(e) /\ rows[e].attempts \in Nat
    BY Fields DEF Inv, StoresFit
  <2> QED
    BY <2>1, Bounds DEF RowFits, Terminal, Exhausted
<1>8. EventFits'
  <2>1. /\ Speaks(e)' /\ committed' = committed /\ rows' = rows
    BY <1>2, <1>4, SameStores DEF StoreStays
  <2> HIDE DEF over
  <2> QED
    BY <1>3, <1>6, <1>7, <2>1 DEF EventFits, Phases, Inside
<1>9. TodoFits' /\ FreshFits'
  BY <1>1, <1>2, <1>4, <1>6, SameStores DEF TodoFits, FreshFits, Inv, WorkFits
<1>10. ASSUME NEW f \in Events, Loose(f) PROVE Excused(f)'
  <2>1. f \in left \/ f \in runner.todo
    BY <1>1, <1>10, AtRest DEF Phases
  <2>2. CASE f = e
    BY <1>10, <1>6a, <2>2 DEF Excused
  <2>3. CASE f # e
    BY <1>4, <1>6, <2>1, <2>3 DEF Excused
  <2> QED
    BY <2>2, <2>3
<1> QED
  BY <1>4, <1>6, <1>8, <1>9, <1>10, WorkerMoves DEF Inv, Shape

LEMMA InvContinueEnds ==
    ASSUME Inv, ContinueEnds
    PROVE  Inv'
<1>1. runner.pc = "continue" /\ runner.after = "continue" /\ runner \in Workers
  BY AtRest DEF ContinueEnds, Phases, Inv, Shape
<1>2. runner' = [runner EXCEPT !.pc = "group", !.after = "group"]
  BY DEF ContinueEnds
<1>3. /\ runner' \in Workers /\ runner'.pc = "group" /\ runner'.after = "group"
      /\ runner'.fresh = runner.fresh
  BY <1>1, <1>2 DEF Workers, Phases, Inside
<1>4. StoreStays /\ UNCHANGED <<arrivals, began, faults, evidence, starts, left>>
  BY DEF ContinueEnds, StoreStays, store, World, history
<1>5. EventFits' /\ TodoFits'
  BY <1>3 DEF EventFits, TodoFits, Phases, Inside
<1>6. FreshFits'
  BY <1>1, <1>3, <1>4, SameStores DEF Inv, WorkFits, FreshFits
<1>7. \A f \in Events : Loose(f) => Excused(f)'
  BY <1>1, <1>3, <1>4, AtRest DEF ContinueEnds, Excused, Phases
<1> QED
  BY <1>3, <1>4, <1>5, <1>6, <1>7, WorkerMoves DEF Inv, Shape
-----------------------------------------------------------------------------
(***************************************************************************)
(* The steps inside a cycle                                                *)
(***************************************************************************)
\* One event's row turns, and the worker goes on with what it had.
LEMMA RowMoves ==
    ASSUME Inv, NEW e \in Events, Speaks(e),
           NEW r \in Rows, r.state \in Incomplete \cup {"over"}, Accounted(e, r),
           rows' = [rows EXCEPT ![e] = r], bound' = bound,
           asked' \in {asked, asked \cup {e}}, committed \subseteq committed',
           committed' \subseteq asked', asked' \subseteq evidence', evidence' \subseteq Events,
           faults <= faults', faults' \in 0 .. MaxFaults, UNCHANGED World, left' = left,
           runner' \in Workers, EventFits', runner'.after = runner.after,
           runner'.todo \subseteq runner.todo, runner'.fresh \subseteq runner.fresh,
           runner.after = "scan" \/ e \cap runner'.fresh = {},
           \A f \in Events \ {e} : Excused(f) => Excused(f)',
           r.state = "over" /\ Unmarked(e) # {} => Excused(e)'
    PROVE  Inv'
<1>1. StoresFit' /\ Aside(e)
  <2>1. Shape /\ StoresFit /\ faults' \in Nat
    BY DEF Inv
  <2> QED
    BY <2>1, RowTurns
<1>2. rows'[e] = r /\ rows' \in [Events -> Rows]
  BY Fields DEF Inv, Shape
<1>3. Shape'
  BY <1>2 DEF Inv, Shape, World
<1>4. TodoFits'
  <2>1. ASSUME NEW f \in runner'.todo, runner.after \in {"recover", "continue"}
        PROVE  Speaks(f)' /\ HasRow(f)'
    <3>1. f \in Events /\ Speaks(f) /\ HasRow(f)
      BY <2>1, Fields DEF Inv, WorkFits, TodoFits
    <3> QED
      BY <3>1, <1>1 DEF Aside
  <2> QED
    BY <2>1 DEF TodoFits
<1>5. FreshFits'
  <2>1. IsFiniteSet(runner'.fresh)
    BY FS_Subset DEF Inv, WorkFits, FreshFits
  <2>2. ASSUME runner.after # "scan", NEW i \in runner'.fresh PROVE IsNew(i)'
    <3>1. i \in Items /\ IsNew(i) /\ i \notin e
      BY <2>2, Fields DEF Inv, WorkFits, FreshFits
    <3> QED
      BY <3>1, <1>1 DEF Aside
  <2> QED
    BY <2>1, <2>2 DEF FreshFits
<1>6. LooseFits'
  <2> SUFFICES ASSUME NEW f \in Events, Loose(f)' PROVE Excused(f)'
    BY DEF LooseFits
  <2>1. Unmarked(f)' = Unmarked(f) /\ (f # e => rows'[f] = rows[f])
    BY <1>1 DEF Aside
  <2>2. CASE f = e
    BY <2>1, <2>2, <1>2 DEF Loose, Terminal, Incomplete
  <2>3. CASE f # e
    BY <2>1, <2>3 DEF Loose, Terminal, Inv, LooseFits
  <2> QED
    BY <2>2, <2>3
<1> QED
  BY <1>1, <1>3, <1>4, <1>5, <1>6 DEF Inv, WorkFits

\* The event in the worker's hands during a cycle.
LEMMA InCycle ==
    ASSUME Inv, runner.pc \in {"cycle", "answer"}
    PROVE  /\ runner.event \in Events /\ Speaks(runner.event) /\ RowFits(runner.event)
           /\ runner.after \in {"recover", "reconcile", "continue", "group"}
           /\ runner.event \notin committed => rows[runner.event].attempts < MaxAttempts
           /\ runner.event \cap runner.fresh = {}
           /\ rows[runner.event] \in Rows /\ rows[runner.event].attempts \in Nat
BY Fields DEF Inv, WorkFits, EventFits, StoresFit, Inside

\* The cycle ends with a new row for its event; members of an event that is over are marked.
LEMMA CycleTurns ==
    ASSUME Inv, runner.pc \in {"cycle", "answer"}, NEW e \in Events, e = runner.event,
           NEW r \in Rows, r.state \in Incomplete \cup {"over"}, Accounted(e, r),
           rows' = [rows EXCEPT ![e] = r], bound' = bound,
           asked' = asked, committed' = committed,
           evidence' \in {evidence, evidence \cup {e}},
           faults <= faults', faults' \in 0 .. MaxFaults, UNCHANGED World, left' = left,
           \/ Returns /\ (r.state = "over" => Unmarked(e) = {})
           \/ Marks(e)
    PROVE  Inv'
<1>1. /\ e \in Events /\ Speaks(e) /\ e \cap runner.fresh = {} /\ runner \in Workers
      /\ runner.after \in {"recover", "reconcile", "continue", "group"}
  BY InCycle DEF Inv, Shape
<1>2. \/ /\ runner' = [runner EXCEPT !.pc = runner.after, !.event = {}]
         /\ r.state = "over" => Unmarked(e) = {}
      \/ runner' = [runner EXCEPT !.pc = "mark", !.event = e]
  BY DEF Returns, Marks
<1>3. /\ runner' \in Workers /\ runner'.after = runner.after /\ runner'.todo = runner.todo
      /\ runner'.fresh = runner.fresh
      /\ \/ runner'.pc = runner.after /\ (r.state = "over" => Unmarked(e) = {})
         \/ runner'.pc = "mark" /\ runner'.event = e
  BY <1>1, <1>2 DEF Workers, Phases, Inside
<1>4. EventFits'
  BY <1>1, <1>3 DEF EventFits, Phases, Inside
<1>5. \A f \in Events \ {e} : Excused(f) => Excused(f)'
  BY <1>1, <1>3 DEF Excused
<1>6. r.state = "over" /\ Unmarked(e) # {} => Excused(e)'
  BY <1>3 DEF Excused
<1>7. asked \subseteq evidence' /\ evidence' \subseteq Events /\ committed \subseteq asked
  BY <1>1 DEF Inv, Shape
<1> QED
  BY <1>1, <1>3, <1>4, <1>5, <1>6, <1>7, RowMoves

LEMMA InvMarksEnd ==
    ASSUME Inv, MarksEnd
    PROVE  Inv'
<1>1. /\ runner.pc = "mark" /\ Unmarked(runner.event) = {} /\ runner \in Workers
      /\ runner.after \in {"recover", "reconcile", "continue", "group"}
  BY DEF MarksEnd, Inv, Shape, WorkFits, EventFits, Inside
<1>2. runner' = [runner EXCEPT !.pc = runner.after, !.event = {}]
  BY DEF MarksEnd, Returns
<1>3. /\ runner' \in Workers /\ runner'.pc = runner.after /\ runner'.after = runner.after
      /\ runner'.todo = runner.todo /\ runner'.fresh = runner.fresh
  BY <1>1, <1>2 DEF Workers, Phases
<1>4. StoreStays /\ UNCHANGED <<arrivals, began, faults, evidence, starts, left>>
  BY DEF MarksEnd, StoreStays, store, World, history
<1>5. EventFits'
  BY <1>1, <1>3 DEF EventFits, Phases, Inside
<1>6. TodoFits' /\ FreshFits'
  BY <1>3, <1>4, SameStores DEF Inv, WorkFits, TodoFits, FreshFits
<1>7. \A f \in Events : Loose(f) => Excused(f)'
  BY <1>1, <1>3, <1>4 DEF Inv, LooseFits, Excused, Loose
<1> QED
  BY <1>3, <1>4, <1>5, <1>6, <1>7, WorkerMoves DEF Inv, Shape

LEMMA InvGroupNext ==
    ASSUME Inv, NEW e \in Events, GroupNext(e)
    PROVE  Inv'
<1>1. runner.pc = "group" /\ runner.after = "group" /\ e \in Groups /\ runner \in Workers
  BY AtRest DEF GroupNext, Phases, Inv, Shape
<1>2. /\ runner.fresh \subseteq Items /\ IsFiniteSet(runner.fresh) /\ e \subseteq runner.fresh
      /\ \A i \in runner.fresh : IsNew(i)
  BY <1>1, Fields DEF Inv, WorkFits, FreshFits, Groups
<1>3. IsFiniteSet(e) /\ IsFiniteSet(runner.fresh \ e)
  BY <1>2, FS_Subset
<1> DEFINE others == runner.fresh \ e
           rest == [runner EXCEPT !.fresh = others]
<1>4. IF Cardinality(e) = 1
      THEN runner' = [rest EXCEPT !.pc = "cycle", !.event = e] /\ evidence' = evidence
      ELSE runner' = [rest EXCEPT !.pc = "bind", !.event = e] /\ evidence' = evidence \cup {e}
  BY DEF GroupNext, Runs
<1>5. /\ runner' \in Workers /\ runner'.after = "group" /\ runner'.event = e
      /\ runner'.fresh = others /\ runner'.todo = runner.todo
      /\ runner'.pc = IF Cardinality(e) = 1 THEN "cycle" ELSE "bind"
  <2>1. others \in SUBSET Items
    BY <1>2
  <2>2. /\ runner.pc \in Phases /\ runner.todo \in SUBSET Events
        /\ runner = [pc |-> runner.pc, after |-> runner.after, event |-> runner.event,
                     todo |-> runner.todo, fresh |-> runner.fresh]
    BY <1>1 DEF Workers
  <2>3. runner' = [pc |-> IF Cardinality(e) = 1 THEN "cycle" ELSE "bind", after |-> "group",
                   event |-> e, todo |-> runner.todo, fresh |-> others]
    BY <1>1, <1>4, <2>2, Zenon
  <2> HIDE DEF others
  <2> QED
    BY <2>1, <2>2, <2>3 DEF Workers, Phases, Inside
<1>6. StoreStays /\ UNCHANGED <<arrivals, began, faults, starts, left>>
  BY DEF GroupNext, StoreStays, store, World, history
<1>7. evidence \subseteq evidence' /\ evidence' \subseteq Events
  BY <1>4 DEF Inv, Shape
<1>8. \A f \in Events : Loose(f) => Excused(f)'
  BY <1>1, <1>5, <1>6, AtRest DEF Excused, Phases
<1>9. EventFits'
  <2>1. CASE Cardinality(e) = 1
    <3>1. PICK i : e = {i}
      BY <1>3, <2>1, FS_Singleton
    <3>2. i \in Items /\ IsNew(i) /\ e = Own(i)
      BY <1>2, <3>1 DEF Own
    <3>3. Speaks(e) /\ rows[e].attempts = 0
      BY <3>1, <3>2, NoRowIsRow DEF Speaks, Sole, IsNew
    <3> QED
      BY <1>5, <1>6, <2>1, <3>3, SameStores, Bounds DEF EventFits, Phases, Inside, StoreStays
  <2>2. CASE Cardinality(e) # 1
    <3>1. ~Sole(e)
      BY <2>2, FS_Singleton DEF Sole, Own
    <3>2. \A i \in e : IsNew(i)'
      BY <1>2, <1>6, SameStores
    <3> QED
      BY <1>5, <2>2, <3>1, <3>2 DEF EventFits, Phases, Inside, Sole
  <2> QED
    BY <2>1, <2>2
<1>10. TodoFits' /\ FreshFits'
  BY <1>2, <1>3, <1>5, <1>6, SameStores DEF TodoFits, FreshFits
<1> QED
  BY <1>5, <1>6, <1>7, <1>8, <1>9, <1>10, WorkerMoves DEF Inv, Shape

\* The event ends without a decision, waits for a quote, or ends with one.
LEMMA InvCycleEndsEarly ==
    ASSUME Inv, CycleEndsEarly
    PROVE  Inv'
<1> DEFINE e == runner.event
           r == [rows[e] EXCEPT !.state = "over"]
<1>1. /\ runner.pc = "cycle" /\ e \in Events /\ rows[e] \in Rows /\ rows[e].attempts \in Nat
      /\ RowFits(e) /\ (e \notin committed => rows[e].attempts < MaxAttempts)
  BY InCycle DEF CycleEndsEarly
<1>2. /\ r \in Rows /\ r.state \in Incomplete \cup {"over"}
      /\ rows' = [rows EXCEPT ![e] = r]
  BY <1>1 DEF CycleEndsEarly, Set, Fails, Rows, States, Incomplete
<1>3. faults <= faults' /\ faults' \in 0 .. MaxFaults
  BY Bounds DEF Inv, Shape, CycleEndsEarly
<1>4. Accounted(e, r)
  BY <1>1, <1>3, Bounds DEF CycleEndsEarly, Accounted, RowFits, Inv, Shape
<1> QED
  BY <1>1, <1>2, <1>3, <1>4, CycleTurns DEF CycleEndsEarly, World, history

LEMMA InvCycleWaits ==
    ASSUME Inv, CycleWaits
    PROVE  Inv'
<1> DEFINE e == runner.event
           r == [rows[e] EXCEPT !.state = "awaiting_market_quote"]
<1>1. /\ runner.pc = "cycle" /\ e \in Events /\ rows[e] \in Rows /\ rows[e].attempts \in Nat
      /\ RowFits(e) /\ (e \notin committed => rows[e].attempts < MaxAttempts)
  BY InCycle DEF CycleWaits
<1>2. /\ r \in Rows /\ r.state \in Incomplete \cup {"over"} /\ r.state # "over"
      /\ rows' = [rows EXCEPT ![e] = r]
  BY <1>1 DEF CycleWaits, Set, Fails, Rows, States, Incomplete
<1>3. faults <= faults' /\ faults' \in 0 .. MaxFaults
  BY Bounds DEF Inv, Shape, CycleWaits
<1>4. Accounted(e, r)
  BY <1>1, <1>3, Bounds DEF CycleWaits, Accounted, RowFits, Inv, Shape
<1> QED
  BY <1>1, <1>2, <1>3, <1>4, CycleTurns DEF CycleWaits, World, history

LEMMA InvCycleConcludes ==
    ASSUME Inv, CycleConcludes
    PROVE  Inv'
<1> DEFINE e == runner.event
           r == [rows[e] EXCEPT !.state = "over"]
<1>1. /\ runner.pc = "cycle" /\ e \in Events /\ rows[e] \in Rows /\ rows[e].attempts \in Nat
      /\ RowFits(e) /\ (e \notin committed => rows[e].attempts < MaxAttempts)
  BY InCycle DEF CycleConcludes
<1>2. /\ r \in Rows /\ r.state \in Incomplete \cup {"over"}
      /\ rows' = [rows EXCEPT ![e] = r]
  BY <1>1 DEF CycleConcludes, Set, Fails, Rows, States, Incomplete
<1>3. faults <= faults' /\ faults' \in 0 .. MaxFaults
  BY Bounds DEF Inv, Shape, CycleConcludes
<1>4. Accounted(e, r)
  BY <1>1, <1>3, Bounds DEF CycleConcludes, Accounted, RowFits, Inv, Shape
<1> QED
  BY <1>1, <1>2, <1>3, <1>4, CycleTurns DEF CycleConcludes, World, history

\* The model's answer is no use, or none comes in time.
LEMMA InvAnswerFails ==
    ASSUME Inv, AnswerFails
    PROVE  Inv'
<1> DEFINE e == runner.event
           r == [state |-> "reasoning_failed", attempts |-> rows[e].attempts + 1]
<1>1. /\ runner.pc = "answer" /\ e \in Events /\ rows[e] \in Rows /\ rows[e].attempts \in Nat
      /\ RowFits(e) /\ (e \notin committed => rows[e].attempts < MaxAttempts)
  BY InCycle DEF AnswerFails
<1>2. /\ r \in Rows /\ r.state \in Incomplete \cup {"over"} /\ r.state # "over"
      /\ rows' = [rows EXCEPT ![e] = r]
  BY <1>1 DEF AnswerFails, Set, Fails, Rows, States, Incomplete
<1>3. faults <= faults' /\ faults' \in 0 .. MaxFaults
  BY Bounds DEF Inv, Shape, AnswerFails
<1>4. Accounted(e, r)
  <2>1. e \notin committed /\ MaxAttempts \in Nat /\ faults \in Nat
    BY <1>1, Bounds DEF Inv, WorkFits, EventFits, Shape
  <2>2. r.attempts <= MaxAttempts /\ r.state = "reasoning_failed"
    BY <1>1, <2>1
  <2>3. faults' \in Nat
    BY <1>3
  <2>4. r.attempts \in Nat
    BY <1>1
  <2> QED
    BY <2>1, <2>2, <2>3, <2>4 DEF Accounted
<1> QED
  BY <1>1, <1>2, <1>3, <1>4, CycleTurns DEF AnswerFails, World, history

\* The time-out of the caller may come after the decision: then the attempts go on.
LEMMA InvTimeout ==
    ASSUME Inv, Timeout
    PROVE  Inv'
<1> DEFINE e == runner.event
           r == [state |-> "reasoning_failed", attempts |-> rows[e].attempts + 1]
<1>1. /\ runner.pc \in {"cycle", "answer"} /\ e \in Events /\ rows[e] \in Rows
      /\ rows[e].attempts \in Nat /\ rows[e].attempts <= MaxAttempts + faults
      /\ e \notin committed => rows[e].attempts < MaxAttempts
  BY InCycle DEF Timeout, RowFits
<1>2. /\ r \in Rows /\ r.state \in Incomplete \cup {"over"} /\ r.state # "over"
      /\ rows' = [rows EXCEPT ![e] = r]
  BY <1>1 DEF Timeout, Fails, Rows, States, Incomplete
<1>3. faults' = faults + 1 /\ faults' \in 0 .. MaxFaults /\ faults \in Nat
  BY Bounds DEF Inv, Shape, Timeout
<1>4. Accounted(e, r)
  BY <1>1, <1>3, Bounds DEF Accounted, Timeout
<1>5. faults <= faults' /\ faults' \in 0 .. MaxFaults
  BY <1>3
<1>6. /\ asked' = asked /\ committed' = committed /\ evidence' = evidence /\ bound' = bound
      /\ UNCHANGED World /\ left' = left /\ (Returns \/ Marks(e))
  BY DEF Timeout, history
<1> HIDE DEF r
<1> QED
  BY <1>1, <1>2, <1>4, <1>5, <1>6, CycleTurns

LEMMA InvCycleAsks ==
    ASSUME Inv, CycleAsks
    PROVE  Inv'
<1> SUFFICES ASSUME NEW e, e = runner.event PROVE Inv'
  OBVIOUS
<1> DEFINE r == IF rows[e] = NoRow THEN [rows[e] EXCEPT !.state = "received"] ELSE rows[e]
<1>1. /\ runner.pc = "cycle" /\ e \in Events /\ Speaks(e) /\ RowFits(e)
      /\ rows[e] \in Rows /\ rows[e].attempts \in Nat
      /\ e \notin committed /\ rows[e].attempts < MaxAttempts
      /\ runner.after \in {"recover", "reconcile", "continue", "group"}
      /\ e \cap runner.fresh = {} /\ runner \in Workers
  BY InCycle DEF CycleAsks, Inv, Shape
<1>2. rows' = [rows EXCEPT ![e] = r]
  BY <1>1 DEF CycleAsks, Set, Inv, Shape
<1>3. r \in Rows /\ r.state \in Incomplete \cup {"over"} /\ r.attempts = rows[e].attempts
  <2>1. CASE rows[e] = NoRow
    BY <1>1, <2>1 DEF Rows, States, Incomplete
  <2>2. CASE rows[e] # NoRow
    <3>1. HasRow(e)
      BY <1>1, <2>2 DEF RowFits
    <3>2. rows[e].state \in Incomplete \cup {"over"}
      BY <1>1, <3>1, SpeaksIsWorked DEF Inv
    <3> QED
      BY <1>1, <2>2, <3>2
  <2> QED
    BY <2>1, <2>2
<1>4. faults' = faults /\ faults \in 0 .. MaxFaults
  BY DEF Inv, Shape, CycleAsks
<1>5. Accounted(e, r)
  BY <1>1, <1>3, <1>4, Bounds DEF Accounted
<1>6. /\ runner' \in Workers /\ runner'.pc = "answer" /\ runner'.after = runner.after
      /\ runner'.event = e /\ runner'.todo = runner.todo /\ runner'.fresh = runner.fresh
  BY <1>1 DEF CycleAsks, Workers, Phases, Inside
<1>7. asked' = asked \cup {e} /\ committed' = committed /\ evidence' = evidence \cup {e}
      /\ bound' = bound /\ UNCHANGED World /\ left' = left
  BY DEF CycleAsks
<1>8. EventFits'
  <2>1. Speaks(e)' /\ rows'[e].attempts < MaxAttempts
    BY <1>1, <1>2, <1>3, <1>7 DEF Speaks, Sole, Inv, Shape
  <2> QED
    BY <1>1, <1>6, <1>7, <2>1 DEF EventFits, Phases, Inside
<1>9. /\ committed' \subseteq asked' /\ asked' \subseteq evidence' /\ evidence' \subseteq Events
      /\ faults <= faults' /\ faults' \in 0 .. MaxFaults
  BY <1>1, <1>4, <1>7 DEF Inv, Shape
<1>10. /\ \A f \in Events \ {e} : Excused(f) => Excused(f)'
       /\ r.state = "over" /\ Unmarked(e) # {} => Excused(e)'
  <2>1. \A f \in Events : Excused(f) => Excused(f)'
    BY <1>1, <1>6, <1>7 DEF Excused
  <2>2. r.state = "over" /\ Unmarked(e) # {} => Loose(e)
    <3>1. r.state = "over" => r = rows[e]
      OBVIOUS
    <3> QED
      BY <3>1 DEF Loose, Terminal
  <2> QED
    BY <1>1, <2>1, <2>2 DEF Inv, LooseFits
<1> HIDE DEF r
<1> QED
  BY <1>1, <1>2, <1>3, <1>4, <1>5, <1>6, <1>7, <1>8, <1>9, <1>10, RowMoves

LEMMA InvAnswerCommits ==
    ASSUME Inv, AnswerCommits
    PROVE  Inv'
<1> SUFFICES ASSUME NEW e, e = runner.event PROVE Inv'
  OBVIOUS
<1> DEFINE r == rows[e]
<1>1. /\ runner.pc = "answer" /\ e \in Events /\ Speaks(e) /\ RowFits(e) /\ e \in asked
      /\ r \in Rows /\ r.attempts \in Nat
      /\ runner.after \in {"recover", "reconcile", "continue", "group"}
      /\ e \cap runner.fresh = {} /\ runner \in Workers
  BY InCycle DEF AnswerCommits, Inv, Shape, WorkFits, EventFits
<1>2. rows' = [rows EXCEPT ![e] = r] /\ rows' = rows
  BY <1>1 DEF AnswerCommits, Inv, Shape
<1>3. r.state \in Incomplete \cup {"over"}
  BY <1>1, SpeaksIsWorked DEF Inv, StoresFit
<1>4. faults' = faults /\ faults \in 0 .. MaxFaults
  BY DEF Inv, Shape, AnswerCommits
<1>5. /\ asked' = asked /\ committed' = committed \cup {e} /\ evidence' = evidence
      /\ bound' = bound /\ UNCHANGED World /\ left' = left
  BY DEF AnswerCommits, history
<1>6. Accounted(e, r)
  BY <1>1, <1>4, <1>5 DEF Accounted, RowFits
<1>7. /\ runner' \in Workers /\ runner'.pc = "cycle" /\ runner'.after = runner.after
      /\ runner'.event = e /\ runner'.todo = runner.todo /\ runner'.fresh = runner.fresh
  BY <1>1 DEF AnswerCommits, Workers, Phases, Inside
<1>8. EventFits'
  <2>1. Speaks(e)'
    BY <1>1, <1>5 DEF Speaks, Sole
  <2> QED
    BY <1>1, <1>5, <1>7, <2>1 DEF EventFits, Phases, Inside
<1>9. /\ committed' \subseteq asked' /\ asked' \subseteq evidence' /\ evidence' \subseteq Events
      /\ faults <= faults' /\ faults' \in 0 .. MaxFaults /\ committed \subseteq committed'
  BY <1>1, <1>4, <1>5 DEF Inv, Shape
<1>10. /\ \A f \in Events \ {e} : Excused(f) => Excused(f)'
       /\ r.state = "over" /\ Unmarked(e) # {} => Excused(e)'
  <2>1. \A f \in Events : Excused(f) => Excused(f)'
    BY <1>1, <1>5, <1>7 DEF Excused
  <2> QED
    BY <1>1, <2>1 DEF Inv, LooseFits, Loose, Terminal
<1> HIDE DEF r
<1> QED
  BY <1>1, <1>2, <1>3, <1>4, <1>5, <1>6, <1>7, <1>8, <1>9, <1>10, RowMoves

\* Recovery gives up an undecided event.
LEMMA InvRecoverAbandons ==
    ASSUME Inv, NEW e \in Events, RecoverAbandons(e)
    PROVE  Inv'
<1> DEFINE r == [rows[e] EXCEPT !.state = "over"]
<1>1. /\ runner.pc = "recover" /\ runner.after = "recover" /\ e \in runner.todo
      /\ runner \in Workers /\ e \notin committed
  BY AtRest DEF RecoverAbandons, Phases, Inv, Shape
<1>2. Speaks(e) /\ HasRow(e) /\ RowFits(e) /\ rows[e] \in Rows /\ rows[e].attempts \in Nat
  BY <1>1, Fields DEF Inv, WorkFits, TodoFits, StoresFit
<1>3. \A i \in runner.fresh : IsNew(i)
  BY <1>1 DEF Inv, WorkFits, FreshFits
<1>4. e \cap runner.fresh = {}
  BY <1>2, <1>3, WorkedIsNotNew DEF Inv
<1>5. rows' = [rows EXCEPT ![e] = r] /\ r \in Rows /\ r.state = "over"
      /\ r.attempts = rows[e].attempts
  BY <1>2 DEF RecoverAbandons, Set, Rows, States
<1>6. /\ asked' = asked /\ committed' = committed /\ evidence' = evidence /\ bound' = bound
      /\ faults' = faults /\ UNCHANGED World /\ left' = left /\ faults \in 0 .. MaxFaults
  BY DEF RecoverAbandons, history, Inv, Shape
<1>7. Accounted(e, r)
  BY <1>2, <1>5, <1>6 DEF Accounted, RowFits
<1>8. runner' = [runner EXCEPT !.todo = @ \ {e}, !.event = e, !.pc = "mark"]
  BY DEF RecoverAbandons
<1>9. /\ runner' \in Workers /\ runner'.pc = "mark" /\ runner'.after = "recover"
      /\ runner'.event = e /\ runner'.todo \subseteq runner.todo /\ runner'.fresh = runner.fresh
  BY <1>1, <1>8 DEF Workers, Phases, Inside
<1>10. EventFits' /\ \A f \in Events : Excused(f)'
  BY <1>9 DEF EventFits, Excused, Phases, Inside
<1>11. /\ committed' \subseteq asked' /\ asked' \subseteq evidence' /\ evidence' \subseteq Events
       /\ faults <= faults' /\ faults' \in 0 .. MaxFaults
  BY <1>6 DEF Inv, Shape
<1> HIDE DEF r
<1> QED
  BY <1>1, <1>2, <1>4, <1>5, <1>6, <1>7, <1>9, <1>10, <1>11, RowMoves

\* The filter ends a new item before any event is made of it.
LEMMA InvFilterOut ==
    ASSUME Inv, NEW i \in Items, FilterOut(i)
    PROVE  Inv'
<1> DEFINE e == Own(i)
           r == [rows[e] EXCEPT !.state = "over"]
<1>1. runner.pc = "scan" /\ runner.after = "scan" /\ runner \in Workers /\ IsNew(i)
  BY AtRest DEF FilterOut, Phases, Inv, Shape
<1>2. e \in Events /\ Sole(e) /\ rows[e] = NoRow /\ bound[i] = Unbound
  BY <1>1, EventItems DEF IsNew
<1>3. Speaks(e)
  BY <1>2 DEF Speaks, Own
<1>4. rows' = [rows EXCEPT ![e] = r] /\ r \in Rows /\ r.state = "over" /\ r.attempts = 0
  BY <1>2, NoRowIsRow DEF FilterOut, Set, Rows, States
<1>5. /\ asked' = asked /\ committed' = committed /\ evidence' = evidence /\ bound' = bound
      /\ faults' = faults /\ UNCHANGED World /\ left' = left /\ faults \in 0 .. MaxFaults
  BY DEF FilterOut, history, Inv, Shape
<1>6. Accounted(e, r)
  BY <1>4, <1>5, Bounds DEF Accounted
<1>7. runner' = [runner EXCEPT !.fresh = @ \ {i}]
  BY DEF FilterOut
<1>8. /\ runner' \in Workers /\ runner'.pc = "scan" /\ runner'.after = "scan"
      /\ runner'.fresh = runner.fresh \ {i} /\ runner'.todo = runner.todo
  BY <1>1, <1>7 DEF Workers
<1>8a. Aside(e)
  <2>1. Shape /\ StoresFit /\ faults' \in Nat /\ faults <= faults' /\ committed \subseteq committed'
    BY <1>5 DEF Inv
  <2> HIDE DEF r
  <2> QED
    BY <1>2, <1>3, <1>4, <1>5, <1>6, <2>1, RowTurns
<1>8b. ASSUME NEW f \in Events, Excused(f) PROVE Excused(f)'
  <2>1. Unmarked(f)' = Unmarked(f)
    BY <1>8a DEF Aside
  <2>2. i \notin Unmarked(f)
    BY <1>2, EventItems DEF Unmarked, Members, Unbound
  <2> QED
    BY <1>1, <1>5, <1>8, <1>8b, <2>1, <2>2 DEF Excused
<1>9. EventFits' /\ \A f \in Events \ {e} : Excused(f) => Excused(f)'
  BY <1>8, <1>8b DEF EventFits, Phases, Inside
<1>10. Unmarked(e) = {}
  BY <1>2, SoleHasNoMembers DEF Inv
<1>11. /\ committed' \subseteq asked' /\ asked' \subseteq evidence' /\ evidence' \subseteq Events
       /\ faults <= faults' /\ faults' \in 0 .. MaxFaults
  BY <1>5 DEF Inv, Shape
<1> HIDE DEF r
<1> QED
  BY <1>1, <1>2, <1>3, <1>4, <1>5, <1>6, <1>8, <1>9, <1>10, <1>11, RowMoves
-----------------------------------------------------------------------------
(***************************************************************************)
(* Binding and marking                                                     *)
(***************************************************************************)
\* What the worker finds when it binds a group: no member, and not the bundle, has a row.
LEMMA BindFinds ==
    ASSUME Inv, Bind, NEW e, e = runner.event
    PROVE  /\ e \in Events /\ ~Sole(e) /\ rows[e] = NoRow /\ e \notin asked
           /\ \A i \in e : bound[i] = Unbound /\ rows[Own(i)] = NoRow
           /\ runner.after = "group" /\ e \cap runner.fresh = {}
           /\ \A f \in Events : Loose(f) => f \in left
           /\ \A f \in Events : Speaks(f) /\ HasRow(f) => f \cap e = {} /\ f # e
<1>1. /\ e \in Events /\ ~Sole(e) /\ runner.after = "group" /\ e \cap runner.fresh = {}
      /\ \A i \in e : IsNew(i)
  BY DEF Inv, WorkFits, EventFits, Bind, Inside
<1>2. \A i \in e : bound[i] = Unbound /\ rows[Own(i)] = NoRow
  BY <1>1 DEF IsNew
<1>3. ~Speaks(e)
  BY <1>1, <1>2, EventItems DEF Speaks, Unbound
<1>4. ~HasRow(e) /\ rows[e] = NoRow
  <2>1. RowFits(e) /\ rows[e].state \in States
    BY <1>1, Fields DEF Inv, StoresFit
  <2> QED
    BY <1>1, <1>3, <2>1 DEF RowFits, HasRow, States
<1>5. e \notin asked
  BY <1>4 DEF Inv, StoresFit
<1>6. \A f \in Events : Loose(f) => f \in left
  BY <1>1 DEF Inv, LooseFits, Excused, Bind
<1>7. ASSUME NEW f \in Events, Speaks(f), HasRow(f) PROVE f \cap e = {} /\ f # e
  <2>1. ASSUME NEW i \in f \cap e PROVE FALSE
    <3>1. i \in Items /\ Sole(f)
      BY <1>2, <1>7, <2>1, EventItems DEF Speaks, Unbound
    <3>2. f = Own(i)
      BY <2>1, <3>1 DEF Sole, Own
    <3> QED
      BY <1>2, <1>7, <2>1, <3>2, NoRowIsRow DEF HasRow
  <2> QED
    BY <1>4, <1>7, <2>1
<1> QED
  BY <1>1, <1>2, <1>4, <1>5, <1>6, <1>7

\* The rows and the bundles a binding leaves.
LEMMA BindWrites ==
    ASSUME Inv, Bind, NEW e, e = runner.event
    PROVE  /\ bound' \in [Items -> Events \cup {Unbound}]
           /\ \A i \in Items : bound'[i] = IF i \in e THEN e ELSE bound[i]
           /\ rows' \in [Events -> Rows]
           /\ rows'[e].state = "received" /\ rows'[e].attempts = 0
           /\ \A i \in e : /\ rows'[Own(i)].state = "bundle_member_pending"
                           /\ rows'[Own(i)].attempts = 0
           /\ \A f \in Events : f # e /\ (\A i \in e : f # Own(i)) => rows'[f] = rows[f]
<1>1. /\ e \in Events /\ ~Sole(e) /\ rows[e] = NoRow
      /\ \A i \in e : bound[i] = Unbound /\ rows[Own(i)] = NoRow /\ Own(i) \in Events /\ Own(i) # e
  BY BindFinds, EventItems DEF Sole
<1>2. bound' = [i \in Items |-> IF i \in e THEN e ELSE bound[i]]
  BY DEF Bind, Bound
<1> DEFINE received == [NoRow EXCEPT !.state = "received"]
           pending == [NoRow EXCEPT !.state = "bundle_member_pending"]
<1>3. rows' = [f \in Events |->
                  IF f = e /\ rows[f] = NoRow THEN received
                  ELSE IF \E i \in e : f = Own(i) /\ rows[f] = NoRow THEN pending ELSE rows[f]]
  BY DEF Bind
<1>4. /\ received \in Rows /\ received.state = "received" /\ received.attempts = 0
      /\ pending \in Rows /\ pending.state = "bundle_member_pending" /\ pending.attempts = 0
  BY DEF NoRow, Rows, States, Incomplete
<1> HIDE DEF received, pending
<1>5. bound' \in [Items -> Events \cup {Unbound}]
      /\ \A i \in Items : bound'[i] = IF i \in e THEN e ELSE bound[i]
  BY <1>1, <1>2, Fields DEF Inv
<1>6. rows' \in [Events -> Rows]
  BY <1>3, <1>4, Fields DEF Inv
<1>7. rows'[e] = received
  BY <1>1, <1>3
<1>8. \A i \in e : rows'[Own(i)] = pending
  BY <1>1, <1>3
<1>9. \A f \in Events : f # e /\ (\A i \in e : f # Own(i)) => rows'[f] = rows[f]
  BY <1>3
<1> QED
  BY <1>4, <1>5, <1>6, <1>7, <1>8, <1>9

LEMMA InvBind ==
    ASSUME Inv, Bind
    PROVE  Inv'
<1> SUFFICES ASSUME NEW e, e = runner.event PROVE Inv'
  OBVIOUS
<1>1. /\ e \in Events /\ ~Sole(e) /\ rows[e] = NoRow /\ e \notin asked /\ e \subseteq Items
      /\ \A i \in e : bound[i] = Unbound /\ rows[Own(i)] = NoRow /\ Own(i) \in Events
      /\ runner.after = "group" /\ e \cap runner.fresh = {}
      /\ \A f \in Events : Loose(f) => f \in left
      /\ \A f \in Events : Speaks(f) /\ HasRow(f) => f \cap e = {} /\ f # e
  BY BindFinds, EventItems
<1>2. /\ bound' \in [Items -> Events \cup {Unbound}]
      /\ \A i \in Items : bound'[i] = IF i \in e THEN e ELSE bound[i]
      /\ rows' \in [Events -> Rows]
      /\ rows'[e].state = "received" /\ rows'[e].attempts = 0
      /\ \A i \in e : /\ rows'[Own(i)].state = "bundle_member_pending"
                      /\ rows'[Own(i)].attempts = 0
      /\ \A f \in Events : f # e /\ (\A i \in e : f # Own(i)) => rows'[f] = rows[f]
  BY BindWrites
<1>3. /\ asked' = asked /\ committed' = committed /\ evidence' = evidence
      /\ faults' = faults /\ UNCHANGED World /\ left' = left
  BY DEF Bind, history
<1>4. Speaks(e)' /\ HasRow(e)'
  BY <1>1, <1>2 DEF Speaks, HasRow, Sole
<1>5. ASSUME NEW f \in Events, Speaks(f), HasRow(f) PROVE Speaks(f)' /\ HasRow(f)'
  <2>1. f \cap e = {} /\ f # e /\ f \subseteq Items
    BY <1>1, <1>5, EventItems
  <2>2. \A i \in f : bound'[i] = bound[i]
    BY <1>2, <2>1
  <2>3. \A i \in e : f # Own(i)
    BY <2>1 DEF Own
  <2> QED
    BY <1>2, <1>5, <2>1, <2>2, <2>3 DEF Speaks, HasRow, Sole
<1>6. ASSUME NEW i \in Items, i \notin e
      PROVE  Own(i) \in Events /\ bound'[i] = bound[i] /\ rows'[Own(i)] = rows[Own(i)]
  <2>1. Own(i) \in Events /\ Own(i) # e /\ \A j \in e : Own(i) # Own(j)
    BY <1>1, <1>6, EventItems DEF Sole
  <2> QED
    BY <1>2, <1>6, <2>1
<1>7. Shape'
  <2>1. runner' = [runner EXCEPT !.pc = "cycle"]
    BY DEF Bind
  <2>2. runner' \in Workers
    BY <2>1 DEF Inv, Shape, Workers, Inside
  <2> QED
    BY <1>2, <1>3, <2>2 DEF Inv, Shape, World
<1>8. StoresFit'
  <2>1. ASSUME NEW i \in Items PROVE Bundled(i)'
    <3>1. CASE i \in e
      BY <1>1, <1>2, <1>4, <3>1 DEF Bundled, Sole
    <3>2. CASE i \notin e /\ bound[i] # Unbound
      <4>1. Bundled(i) /\ bound[i] \in Events
        BY <3>2, Fields DEF Inv, StoresFit
      <4>2. Speaks(bound[i])' /\ HasRow(bound[i])'
        <5>1. PICK g \in Events : g = bound[i]
          BY <4>1
        <5>2. Speaks(g)' /\ HasRow(g)'
          BY <1>5, <3>2, <4>1, <5>1 DEF Bundled
        <5>3. g = bound'[i]
          BY <1>6, <3>2, <5>1
        <5> QED
          BY <5>2, <5>3
      <4> QED
        BY <1>6, <3>2, <4>1, <4>2 DEF Bundled, Sole
    <3>3. CASE i \notin e /\ bound[i] = Unbound
      BY <1>6, <3>3 DEF Bundled
    <3> QED
      BY <3>1, <3>2, <3>3
  <2>2. ASSUME NEW f \in Events PROVE RowFits(f)'
    <3>1. CASE f = e
      BY <1>2, <1>3, <1>4, <3>1, Bounds DEF RowFits, Incomplete, Inv, Shape
    <3>2. CASE \E i \in e : f = Own(i)
      <4>1. PICK i \in e : f = Own(i)
        BY <3>2
      <4>2. Sole(f) /\ \A j \in f : bound'[j] # Unbound
        BY <1>1, <1>2, <4>1, EventItems DEF Sole, Own, Unbound
      <4>3. rows'[f].state = "bundle_member_pending" /\ rows'[f].attempts = 0
        BY <1>2, <4>1
      <4>4. rows'[f].attempts <= MaxAttempts + faults'
        BY <1>3, <4>3, Bounds DEF Inv, Shape
      <4> QED
        BY <4>2, <4>3, <4>4, Bounds DEF RowFits, HasRow, Sole, Incomplete
    <3>3. CASE f # e /\ \A i \in e : f # Own(i)
      <4>1. rows'[f] = rows[f] /\ RowFits(f)
        BY <1>2, <3>3 DEF Inv, StoresFit
      <4>2. rows[f].state \in Incomplete \cup {"over"} => Speaks(f)'
        BY <1>5, <4>1 DEF RowFits, HasRow, Incomplete
      <4>3. (\A i \in f : bound[i] # Unbound) => \A i \in f : bound'[i] # Unbound
        BY <1>1, <1>2, EventItems DEF Unbound
      <4> QED
        BY <1>3, <4>1, <4>2, <4>3 DEF RowFits, HasRow, Sole
    <3> QED
      BY <3>1, <3>2, <3>3
  <2>3. \A f \in asked' : Speaks(f)' /\ HasRow(f)'
    BY <1>3, <1>5 DEF Inv, StoresFit, Shape
  <2> QED
    BY <2>1, <2>2, <2>3 DEF StoresFit
<1>9. /\ runner'.pc = "cycle" /\ runner'.after = "group" /\ runner'.event = e
      /\ runner'.fresh = runner.fresh
  BY <1>1 DEF Bind, Inv, Shape, Workers
<1>10. EventFits' /\ TodoFits'
  BY <1>1, <1>2, <1>4, <1>9, Bounds DEF EventFits, TodoFits, Phases, Inside
<1>11. FreshFits'
  <2>1. \A i \in runner.fresh : IsNew(i) /\ i \in Items /\ i \notin e
    BY <1>1, Fields DEF Inv, WorkFits, FreshFits
  <2>2. \A i \in runner.fresh : IsNew(i)'
    BY <1>6, <2>1 DEF IsNew
  <2> QED
    BY <1>9, <2>2 DEF FreshFits, Inv, WorkFits
<1>12. ASSUME NEW f \in Events, Loose(f)' PROVE Excused(f)'
  <2>1. CASE f = e
    BY <1>2, <1>12, <2>1 DEF Loose, Terminal
  <2>2. CASE \E i \in e : f = Own(i)
    <3>1. PICK i \in e : f = Own(i)
      BY <2>2
    <3>2. bound'[i] # Unbound /\ i \in Items /\ Sole(f) /\ f \in Events
      BY <1>1, <1>2, <3>1, EventItems DEF Unbound
    <3>3. Terminal(rows'[f]) = FALSE
      BY <1>2, <3>1 DEF Terminal
    <3> QED
      BY <1>12, <3>3 DEF Loose
  <2>3. CASE f # e /\ \A i \in e : f # Own(i)
    <3>1. ASSUME NEW i \in Items, bound'[i] = f PROVE i \notin e /\ bound[i] = f
      BY <1>2, <2>3, <3>1
    <3>2. Unmarked(f)' \subseteq Unmarked(f)
      BY <1>6, <3>1 DEF Unmarked, Members
    <3>3. rows'[f] = rows[f]
      BY <1>2, <2>3
    <3>4. f \in left
      BY <1>1, <1>12, <3>2, <3>3 DEF Loose, Terminal
    <3> QED
      BY <1>3, <1>9, <3>4 DEF Excused
  <2> QED
    BY <2>1, <2>2, <2>3
<1> QED
  BY <1>7, <1>8, <1>10, <1>11, <1>12 DEF Inv, WorkFits, LooseFits

\* The least of a set of numbers is one of them.
LEMMA LeastIsOne ==
    ASSUME NEW T \in SUBSET Nat, T # {}
    PROVE  Min(T) \in T
<1> DEFINE Below == {ss \in Nat \X Nat : ss[1] < ss[2]}
<1>1. IsWellFoundedOn(Below, Nat)
  BY NatLessThanWellFounded, Zenon DEF OpToRel
<1>2. PICK n \in T : \A m \in T : ~ (<<m, n>> \in Below)
  BY <1>1, WFMin
<1>3. ASSUME NEW m \in T PROVE n <= m
  <2>1. n \in Nat /\ m \in Nat /\ <<m, n>> \notin Below
    BY <1>2
  <2> QED
    BY <2>1
<1> QED
  BY <1>3 DEF Min

\* Marking a member leaves what is said of every other event.
LEMMA InvMarkNext ==
    ASSUME Inv, MarkNext
    PROVE  Inv'
<1>1. PICK i : i = Min(Unmarked(runner.event))
  OBVIOUS
<1>2. runner.pc = "mark" /\ runner.event \in Events /\ i \in Unmarked(runner.event)
  <2>1. Unmarked(runner.event) # {} /\ Unmarked(runner.event) \subseteq Nat
    BY Bounds DEF MarkNext, Unmarked, Members
  <2> QED
    BY <1>1, <2>1, LeastIsOne DEF MarkNext, Inv, WorkFits, EventFits, Inside
<1>3. PICK o : o = Own(i)
  OBVIOUS
<1>4. /\ i \in Items /\ bound[i] # Unbound /\ o \in Events /\ Sole(o) /\ Unmarked(o) = {}
      /\ rows[o].state = "bundle_member_pending" /\ rows[o] \in Rows
  <2>1. /\ i \in Items /\ bound[i] \in Events /\ rows[o].state # "bundled"
    BY <1>2, <1>3 DEF Unmarked, Members
  <2>2. Bundled(i) /\ bound[i] # Unbound
    BY <2>1, EventItems DEF Inv, StoresFit, Unbound
  <2>3. o \in Events /\ Sole(o)
    BY <1>3, <2>1, EventItems
  <2> QED
    BY <1>3, <2>1, <2>2, <2>3, SoleHasNoMembers, Fields DEF Bundled, Inv
<1>5. rows' = [rows EXCEPT ![o].state = "bundled"]
  BY <1>1, <1>3 DEF MarkNext, Set
<1>6. /\ bound' = bound /\ asked' = asked /\ committed' = committed /\ evidence' = evidence
      /\ runner' = runner /\ faults' = faults /\ UNCHANGED World /\ left' = left
      /\ runner.after # "scan"
  BY DEF MarkNext, history, Inv, WorkFits, EventFits, Inside
<1>7. /\ rows' \in [Events -> Rows] /\ rows'[o].state = "bundled"
      /\ rows'[o].attempts = rows[o].attempts
      /\ \A f \in Events : f # o => rows'[f] = rows[f]
  BY <1>4, <1>5 DEF Inv, Shape, Rows, States
<1>8. Shape'
  BY <1>6, <1>7 DEF Inv, Shape, World
<1>9. \A f \in Events : Speaks(f)' = Speaks(f) /\ HasRow(f)' = HasRow(f)
  BY <1>4, <1>6, <1>7 DEF Speaks, HasRow, Sole
<1>10. ASSUME NEW j \in Items
       PROVE  /\ IsNew(j)' = IsNew(j)
              /\ rows[Own(j)].state = "bundled" => rows'[Own(j)].state = "bundled"
              /\ rows[Own(j)].state \in {"bundle_member_pending", "bundled"} =>
                   rows'[Own(j)].state \in {"bundle_member_pending", "bundled"}
  <2>1. CASE Own(j) = o
    BY <1>4, <1>6, <1>7, <2>1, NoRowIsRow DEF IsNew, NoRow
  <2>2. CASE Own(j) # o
    BY <1>6, <1>7, <2>2, EventItems DEF IsNew
  <2> QED
    BY <2>1, <2>2
<1>11. StoresFit'
  <2>1. ASSUME NEW j \in Items PROVE Bundled(j)'
    <3>1. Bundled(j) /\ bound[j] \in Events \cup {Unbound}
      BY Fields DEF Inv, StoresFit
    <3> QED
      BY <3>1, <1>6, <1>9, <1>10 DEF Bundled, Sole, Speaks, HasRow
  <2>2. ASSUME NEW f \in Events PROVE RowFits(f)'
    <3>1. RowFits(f)
      BY DEF Inv, StoresFit
    <3>2. CASE f = o
      <4>1. Sole(f) /\ \A j \in f : bound[j] # Unbound
        BY <1>4, <3>1, <3>2 DEF RowFits
      <4>2. rows[f].attempts <= MaxAttempts + faults /\ (f \notin committed => rows[f].attempts < MaxAttempts)
        BY <1>4, <3>1, <3>2 DEF RowFits
      <4> QED
        BY <1>6, <1>7, <3>2, <4>1, <4>2 DEF RowFits, HasRow, Sole, Incomplete
    <3>3. CASE f # o
      BY <1>6, <1>7, <1>9, <3>1, <3>3 DEF RowFits, Sole
    <3> QED
      BY <3>2, <3>3
  <2>3. \A f \in asked' : Speaks(f)' /\ HasRow(f)'
    BY <1>6, <1>9 DEF Inv, StoresFit, Shape
  <2> QED
    BY <2>1, <2>2, <2>3 DEF StoresFit
<1>12. EventFits' /\ TodoFits' /\ FreshFits'
  <2>1. EventFits'
    BY <1>2, <1>6 DEF Inv, WorkFits, EventFits, Inside, Phases
  <2>2. TodoFits'
    BY <1>6, <1>9, Fields DEF Inv, WorkFits, TodoFits
  <2>3. FreshFits'
    BY <1>6, <1>10, Fields DEF Inv, WorkFits, FreshFits
  <2> QED
    BY <2>1, <2>2, <2>3
<1>13. LooseFits'
  <2> SUFFICES ASSUME NEW f \in Events, Loose(f)' PROVE Excused(f)'
    BY DEF LooseFits
  <2>1. Unmarked(f)' \subseteq Unmarked(f)
    BY <1>6, <1>10 DEF Unmarked, Members
  <2>2. f # o
    BY <1>4, <2>1 DEF Loose
  <2>3. Loose(f)
    BY <1>7, <2>1, <2>2 DEF Loose, Terminal
  <2> QED
    BY <1>6, <2>3 DEF Inv, LooseFits, Excused
<1> QED
  BY <1>8, <1>11, <1>12, <1>13 DEF Inv, WorkFits
-----------------------------------------------------------------------------
(***************************************************************************)
(* The theorem                                                             *)
(***************************************************************************)
LEMMA InvInit ==
    ASSUME Init
    PROVE  Inv
<1>1. /\ runner.pc = "down" /\ runner.after = "down" /\ runner.fresh = {} /\ runner \in Workers
  BY DEF Init, Down, Workers, Phases, Inside
<1>2. Shape
  <2>1. arrivals = <<>> /\ arrivals \in Seq(Items) /\ began \in 0 .. Len(arrivals)
    BY DEF Init
  <2> QED
    BY <1>1, <2>1, NoRowIsRow, Bounds DEF Init, Shape, Unbound
<1>3. StoresFit
  BY NoRowIsRow, Bounds DEF Init, StoresFit, Bundled, RowFits, HasRow, Incomplete, NoRow
<1>4. WorkFits /\ LooseFits
  BY <1>1, FS_EmptySet DEF WorkFits, EventFits, TodoFits, FreshFits, LooseFits, Excused, Inside
<1> QED
  BY <1>2, <1>3, <1>4 DEF Inv

LEMMA InvNext ==
    ASSUME Inv, [Next]_vars
    PROVE  Inv'
<1>1. CASE Start
  BY <1>1, InvStart
<1>2. CASE Recovery
  BY <1>2, InvRecoverAbandons, InvRecoverRuns, InvReconcileNext, InvRecoverEnds, InvIdles
     DEF Recovery
<1>3. CASE Scan
  BY <1>3, InvScanBegins, InvScanEnds, InvContinueEnds, InvBind, InvIdles, InvFilterOut,
     InvContinueNext, InvGroupNext DEF Scan
<1>4. CASE Cycle
  BY <1>4, InvCycleEndsEarly, InvCycleWaits, InvCycleAsks, InvCycleConcludes, InvAnswerFails,
     InvAnswerCommits, InvTimeout, InvMarkNext, InvMarksEnd DEF Cycle
<1>5. CASE Crash \/ BreaksOff
  BY <1>5, InvCrash, InvBreaksOff
<1>6. CASE \E i \in Items : Capture(i)
  BY <1>6, InvCapture
<1>7. CASE UNCHANGED vars
  <2>1. StoresFit' /\ \A f : /\ Speaks(f)' = Speaks(f) /\ HasRow(f)' = HasRow(f)
                             /\ Loose(f)' = Loose(f) /\ Unmarked(f)' = Unmarked(f)
    BY <1>7, StoresStay DEF Inv, vars, store, history
  <2>2. \A i : IsNew(i)' = IsNew(i)
    BY <1>7, StoresStay DEF Inv, vars, store, history
  <2>3. Shape'
    BY <1>7 DEF Inv, Shape, vars, store, history
  <2>4. WorkFits'
    BY <1>7, <2>1, <2>2 DEF Inv, WorkFits, EventFits, TodoFits, FreshFits, vars, store, history, Sole
  <2>5. LooseFits'
    BY <1>7, <2>1 DEF Inv, LooseFits, Excused, vars, store, history
  <2> QED
    BY <2>1, <2>3, <2>4, <2>5 DEF Inv
<1> QED
  BY <1>1, <1>2, <1>3, <1>4, <1>5, <1>6, <1>7 DEF Next

\* Two events the model was asked about share no item: an item is heard in one event.
LEMMA HeardOnce ==
    ASSUME Inv
    PROVE  OneVoice
<1> SUFFICES ASSUME NEW e \in asked, NEW f \in asked, NEW i \in e \cap f PROVE e = f
  BY DEF OneVoice
<1>1. Speaks(e) /\ Speaks(f) /\ e \in Events /\ f \in Events /\ i \in Items
  BY EventItems DEF Inv, StoresFit, Shape
<1>2. bound[i] = (IF Sole(e) THEN Unbound ELSE e) /\ bound[i] = (IF Sole(f) THEN Unbound ELSE f)
  BY <1>1 DEF Speaks
<1>3. CASE Sole(e)
  <2>1. Sole(f)
    BY <1>1, <1>2, <1>3, EventItems DEF Unbound
  <2> QED
    BY <1>3, <2>1 DEF Sole, Own
<1>4. CASE ~Sole(e)
  <2>1. ~Sole(f)
    BY <1>1, <1>2, <1>4, EventItems DEF Unbound
  <2> QED
    BY <1>2, <1>4, <2>1
<1> QED
  BY <1>3, <1>4

LEMMA InvImplies ==
    ASSUME Inv
    PROVE  ItemsSpeakOnce
<1>1. TypeOK
  <2>1. \A e \in Events : rows[e].state \in States /\ rows[e].attempts \in 0 .. MaxAttempts + faults
    <3> SUFFICES ASSUME NEW e \in Events
                 PROVE  rows[e].state \in States /\ rows[e].attempts \in 0 .. MaxAttempts + faults
      OBVIOUS
    <3>1. rows[e].state \in States /\ rows[e].attempts \in Nat /\ rows[e].attempts <= MaxAttempts + faults
      BY Fields DEF Inv, StoresFit, RowFits
    <3>2. MaxAttempts + faults \in Nat
      BY Bounds DEF Inv, Shape
    <3> QED
      BY <3>1, <3>2
  <2> QED
    BY <2>1 DEF Inv, Shape, TypeOK
<1>2. MembersFollow
  <2> SUFFICES ASSUME runner.pc = "idle", NEW i \in Items, bound[i] # Unbound,
                      Terminal(rows[bound[i]])
               PROVE  rows[Own(i)].state = "bundled" \/ bound[i] \in left
    BY DEF MembersFollow
  <2>1. bound[i] \in Events /\ (Loose(bound[i]) => bound[i] \in left)
    BY Fields, AtRest DEF Inv, Phases
  <2> QED
    BY <2>1 DEF Loose, Unmarked, Members
<1> QED
  BY <1>1, <1>2, HeardOnce DEF ItemsSpeakOnce

\* Whatever crashes, late siblings, time-outs and retries do (step_events,
\* recover_incomplete, bind_bundle_members, finalize_bundle_members), an item is put to
\* the model as part of one event only, and between scans no event is over with a member
\* unmarked, but those an exception left so since a scan or a recovery got to them.
THEOREM ItemsSpeakInOneEvent == Spec => []ItemsSpeakOnce
<1>1. Spec => []Inv
  BY InvInit, InvNext, PTL DEF Spec
<1> QED
  BY <1>1, InvImplies, PTL
-----------------------------------------------------------------------------
(***************************************************************************)
(* Reviews                                                                 *)
(***************************************************************************)
Places == {"down", "recover", "idle", "step", "cycle", "answer"}
ReviewRows == [session : Nat, told : {"started"} \cup Outcomes, event : {"absent"} \cup Outcomes,
               attempts : Nat, calls : Nat, lost : Nat]
Snapshots == [Theses -> [revision : Nat, active : BOOLEAN]]
Steps == [pc : Places, theses : Snapshots, high : BOOLEAN, todo : SUBSET (Theses \cup Keys),
          key : Keys \cup {{}}, recovering : BOOLEAN]

ThesesFit ==
    /\ theses \in [Theses -> [revision : 1 .. MaxRevisions, active : BOOLEAN]]
    /\ age \in [Theses -> 0 .. MaxAge] /\ since \in [Theses -> 0 .. Cooldown] /\ high \in BOOLEAN
    /\ session \in 0 .. MaxSessions /\ trouble \in 0 .. MaxTrouble

\* Every review is of a thesis, in a revision it has had, and of a session there was.
ReviewsFit ==
    /\ reviews \in [Keys -> ReviewRows] /\ IsFiniteSet(Keys)
    /\ \A k \in Keys : /\ k.thesis \in Theses /\ k.revision \in 1 .. theses[k.thesis].revision
                       /\ reviews[k].session \in 1 .. session

\* What the pass and the recovery rely on: the snapshot's revisions have been, and what is
\* left to recover is not over, nor is the review in hand, which has attempts left.
StepFits ==
    /\ step \in Steps
    /\ step.pc # "down" => session >= 1
    /\ step.pc = "recover" => step.recovering
    /\ step.pc = "step" => ~step.recovering
    /\ ~step.recovering /\ step.pc \in {"step", "cycle", "answer"} =>
         /\ step.todo \subseteq Theses
         /\ \A t \in Theses : step.theses[t].revision \in 1 .. theses[t].revision
    /\ step.recovering => \A k \in step.todo : k \in Keys /\ reviews[k].event # "over"
    /\ step.pc \in {"cycle", "answer"} =>
         /\ step.key \in Keys /\ reviews[step.key].event # "over"
         /\ reviews[step.key].attempts < MaxTries
         /\ step.recovering => step.key \notin step.todo

\* A call that was made counts as an attempt, or is lost, or waits for its answer.
Waiting(k) == IF step.pc = "answer" /\ step.key = k THEN 1 ELSE 0
CallsFit ==
    \A k \in Keys :
        /\ reviews[k].calls <= MaxTries + reviews[k].lost
        /\ reviews[k].event # "over" =>
             /\ reviews[k].attempts <= MaxTries
             /\ reviews[k].calls <= reviews[k].attempts + reviews[k].lost + Waiting(k)

ReviewInv == ThesesFit /\ ReviewsFit /\ StepFits /\ CallsFit /\ ReviewsAreCapped

-----------------------------------------------------------------------------
LEMMA ReviewBounds ==
    /\ IsFiniteSet(Theses) /\ MaxTries \in Nat \ {0} /\ MaxPerThesis \in Nat \ {0}
    /\ MaxTotal \in Nat \ {0} /\ MaxRevisions \in Nat \ {0} /\ MaxSessions \in Nat
    /\ MaxTrouble \in Nat /\ MaxAge \in Nat /\ Cooldown \in Nat
BY ReviewAssumption

\* Revisions never go back.
RevisionsGrow == \A t \in Theses : theses[t].revision <= theses'[t].revision

\* A step that leaves the reviews alone.
LEMMA ReviewsRest ==
    ASSUME ReviewInv, reviews' = reviews, session' \in {session, session + 1}, ThesesFit',
           RevisionsGrow, StepFits', \A k \in Keys : Waiting(k)' = Waiting(k)
    PROVE  ReviewInv'
<1>1. Keys' = Keys
  BY DEF Keys
<1>2. ReviewsFit'
  <2>1. reviews \in [Keys -> ReviewRows] /\ IsFiniteSet(Keys)
    BY DEF ReviewInv, ReviewsFit
  <2>2. ASSUME NEW k \in Keys
        PROVE  /\ k.thesis \in Theses /\ k.revision \in 1 .. theses'[k.thesis].revision
               /\ reviews[k].session \in 1 .. session'
    <3>1. /\ k.thesis \in Theses /\ k.revision \in 1 .. theses[k.thesis].revision
          /\ reviews[k].session \in 1 .. session
      BY <2>2 DEF ReviewInv, ReviewsFit
    <3>2. /\ theses[k.thesis].revision \in Nat /\ theses'[k.thesis].revision \in Nat
          /\ theses[k.thesis].revision <= theses'[k.thesis].revision /\ session \in Nat
      BY <3>1 DEF ReviewInv, ThesesFit, RevisionsGrow
    <3> QED
      BY <3>1, <3>2
  <2> QED
    BY <1>1, <2>1, <2>2 DEF ReviewsFit
<1>3. CallsFit'
  BY <1>1 DEF ReviewInv, CallsFit
<1>4. ReviewsAreCapped'
  BY <1>1 DEF ReviewInv, ReviewsAreCapped, OfThesis
<1> QED
  BY <1>2, <1>3, <1>4 DEF ReviewInv

\* A step that writes one review.
LEMMA ReviewTurns ==
    ASSUME ReviewInv, NEW k \in Keys, NEW r \in ReviewRows, r.session = reviews[k].session,
           reviews' = [reviews EXCEPT ![k] = r], session' = session, ThesesFit', RevisionsGrow,
           StepFits', r.calls <= MaxTries + r.lost,
           r.event # "over" =>
               r.attempts <= MaxTries /\ r.calls <= r.attempts + r.lost + Waiting(k)',
           \A j \in Keys \ {k} : Waiting(j)' = Waiting(j)
    PROVE  ReviewInv'
<1>1. reviews \in [Keys -> ReviewRows] /\ IsFiniteSet(Keys)
  BY DEF ReviewInv, ReviewsFit
<1>2. /\ Keys' = Keys /\ reviews' \in [Keys -> ReviewRows] /\ reviews'[k] = r
      /\ \A j \in Keys \ {k} : reviews'[j] = reviews[j]
  BY <1>1 DEF Keys
<1>3. ReviewsFit'
  <2>1. ASSUME NEW j \in Keys
        PROVE  /\ j.thesis \in Theses /\ j.revision \in 1 .. theses'[j.thesis].revision
               /\ reviews'[j].session \in 1 .. session'
    <3>1. /\ j.thesis \in Theses /\ j.revision \in 1 .. theses[j.thesis].revision
          /\ reviews[j].session \in 1 .. session
      BY <2>1 DEF ReviewInv, ReviewsFit
    <3>2. /\ theses[j.thesis].revision \in Nat /\ theses'[j.thesis].revision \in Nat
          /\ theses[j.thesis].revision <= theses'[j.thesis].revision
      BY <3>1 DEF ReviewInv, ThesesFit, RevisionsGrow
    <3>3. reviews'[j].session = reviews[j].session
      BY <1>2
    <3> QED
      BY <3>1, <3>2, <3>3
  <2> QED
    BY <1>1, <1>2, <2>1 DEF ReviewsFit
<1>4. CallsFit'
  <2>1. ASSUME NEW j \in Keys, j # k
        PROVE  /\ reviews'[j].calls <= MaxTries + reviews'[j].lost
               /\ reviews'[j].event # "over" =>
                    /\ reviews'[j].attempts <= MaxTries
                    /\ reviews'[j].calls <= reviews'[j].attempts + reviews'[j].lost + Waiting(j)'
    BY <1>2, <2>1 DEF ReviewInv, CallsFit
  <2> QED
    BY <1>2, <2>1 DEF CallsFit
<1>5. ReviewsAreCapped'
  BY <1>2 DEF ReviewInv, ReviewsAreCapped, OfThesis
<1> QED
  BY <1>3, <1>4, <1>5 DEF ReviewInv

\* Outside of pass and recovery nothing is relied on.
LEMMA AtRestFits ==
    ASSUME ReviewInv, NEW pc \in {"down", "idle"}, step' = Resting(pc), pc = "down" \/ session' >= 1
    PROVE  StepFits' /\ \A k : Waiting(k)' = 0
<1>1. NoTheses \in Snapshots
  BY DEF NoTheses, Snapshots
<1>2. /\ step' \in [pc : Places, theses : Snapshots, high : BOOLEAN, todo : SUBSET (Theses \cup Keys'),
                    key : Keys' \cup {{}}, recovering : BOOLEAN]
      /\ step'.pc = pc /\ step'.recovering = FALSE
  BY <1>1 DEF Resting, Places
<1>3. step' \in Steps'
  BY <1>2 DEF Steps
<1> QED
  BY <1>2, <1>3 DEF StepFits, Waiting

\* What stays when the step goes on without the theses and reviews.
LEMMA StepMoves ==
    ASSUME ReviewInv, UNCHANGED <<memory, since, high, session, trouble>>
    PROVE  ThesesFit' /\ RevisionsGrow
BY DEF ReviewInv, ThesesFit, RevisionsGrow, memory

\* The review in hand.
LEMMA InHand ==
    ASSUME ReviewInv, step.pc \in {"cycle", "answer"}
    PROVE  /\ step.key \in Keys /\ reviews[step.key] \in ReviewRows
           /\ reviews[step.key].event # "over" /\ reviews[step.key].attempts < MaxTries
           /\ reviews[step.key].calls \in Nat /\ reviews[step.key].lost \in Nat
           /\ reviews[step.key].attempts \in Nat /\ MaxTries \in Nat
           /\ reviews[step.key].calls <= reviews[step.key].attempts + reviews[step.key].lost
                                           + (IF step.pc = "answer" THEN 1 ELSE 0)
           /\ \A j \in Keys \ {step.key} : Waiting(j) = 0
           /\ step \in Steps /\ session >= 1
<1>1. step.key \in Keys /\ reviews \in [Keys -> ReviewRows] /\ step \in Steps
  BY DEF ReviewInv, ReviewsFit, StepFits
<1> QED
  BY <1>1, ReviewBounds DEF ReviewInv, StepFits, CallsFit, Waiting, ReviewRows

\* The cycle of a review ends, in the pass or in the recovery.
LEMMA CycleEnds ==
    ASSUME ReviewInv, step.pc \in {"cycle", "answer"},
           NEW event \in {"awaiting_market_quote", "reasoning_failed", "over"}, NEW n \in {0, 1},
           Ends(event, n), Back, session' = session, ThesesFit', RevisionsGrow,
           event = "over" \/ n = 1 \/ step.pc = "cycle"
    PROVE  ReviewInv'
<1> SUFFICES ASSUME NEW k, k = step.key PROVE ReviewInv'
  OBVIOUS
<1> DEFINE r == [reviews[k] EXCEPT !.event = event, !.attempts = @ + n,
                                  !.told = IF step.recovering THEN @ ELSE event]
<1>1. /\ k \in Keys /\ reviews[k] \in ReviewRows /\ reviews[k].attempts < MaxTries
      /\ reviews[k].calls \in Nat /\ reviews[k].lost \in Nat /\ reviews[k].attempts \in Nat
      /\ MaxTries \in Nat /\ step \in Steps
      /\ reviews[k].calls <= reviews[k].attempts + reviews[k].lost
                               + (IF step.pc = "answer" THEN 1 ELSE 0)
      /\ \A j \in Keys \ {k} : Waiting(j) = 0
  BY InHand
<1>2. reviews' = [reviews EXCEPT ![k] = r]
  BY <1>1 DEF Ends, ReviewInv, ReviewsFit
<1>3. /\ r \in ReviewRows /\ r.session = reviews[k].session /\ r.event = event
      /\ r.attempts = reviews[k].attempts + n /\ r.calls = reviews[k].calls
      /\ r.lost = reviews[k].lost
  <2>1. /\ reviews[k].session \in Nat /\ reviews[k].told \in {"started"} \cup Outcomes
        /\ reviews[k].event \in {"absent"} \cup Outcomes
        /\ DOMAIN reviews[k] = {"session", "told", "event", "attempts", "calls", "lost"}
    BY <1>1 DEF ReviewRows
  <2>2. event \in Outcomes /\ (IF step.recovering THEN reviews[k].told ELSE event)
                               \in {"started"} \cup Outcomes
    BY <2>1 DEF Outcomes
  <2>3. reviews[k].attempts + n \in Nat
    BY <1>1
  <2> QED
    BY <1>1, <2>1, <2>2, <2>3 DEF ReviewRows
<1> HIDE DEF r
<1>4. Keys' = Keys /\ \A j \in Keys \ {k} : reviews'[j] = reviews[j]
  BY <1>1, <1>2 DEF Keys
<1>5. /\ step' \in Steps /\ step'.todo = step.todo /\ step'.recovering = step.recovering
      /\ step'.theses = step.theses
      /\ step'.pc = IF step.recovering THEN "recover" ELSE "step"
  BY <1>1 DEF Back, Steps, Places
<1>6. step' \in Steps'
  BY <1>4, <1>5 DEF Steps
<1>7. StepFits'
  <2>1. /\ session' >= 1 /\ (step.recovering => k \notin step.todo)
        /\ step.recovering => \A j \in step.todo : j \in Keys /\ reviews[j].event # "over"
        /\ ~step.recovering =>
             /\ step.todo \subseteq Theses
             /\ \A t \in Theses : step.theses[t].revision \in 1 .. theses[t].revision
    BY DEF ReviewInv, StepFits
  <2>2. \A t \in Theses : theses[t].revision \in Nat /\ theses'[t].revision \in Nat
                          /\ theses[t].revision <= theses'[t].revision
    BY DEF ReviewInv, ThesesFit, RevisionsGrow
  <2>3. ~step.recovering => \A t \in Theses : step.theses[t].revision \in 1 .. theses'[t].revision
    BY <2>1, <2>2
  <2> QED
    BY <1>4, <1>5, <1>6, <2>1, <2>3 DEF StepFits
<1>8. \A j : Waiting(j)' = 0
  BY <1>5 DEF Waiting
<1>9. /\ r.calls <= MaxTries + r.lost
      /\ r.event # "over" => r.attempts <= MaxTries /\ r.calls <= r.attempts + r.lost + Waiting(k)'
  BY <1>1, <1>3, <1>8
<1> QED
  BY <1>1, <1>2, <1>3, <1>7, <1>8, <1>9, ReviewTurns

LEMMA InvAsks ==
    ASSUME ReviewInv, Asks
    PROVE  ReviewInv'
<1> SUFFICES ASSUME NEW k, k = step.key PROVE ReviewInv'
  OBVIOUS
<1> DEFINE r == [reviews[k] EXCEPT !.calls = @ + 1,
                                  !.event = IF @ = "absent" THEN "received" ELSE @]
<1>1. /\ step.pc = "cycle" /\ k \in Keys /\ reviews[k] \in ReviewRows
      /\ reviews[k].event # "over" /\ reviews[k].attempts < MaxTries
      /\ reviews[k].calls \in Nat /\ reviews[k].lost \in Nat /\ reviews[k].attempts \in Nat
      /\ MaxTries \in Nat /\ step \in Steps /\ session >= 1
      /\ reviews[k].calls <= reviews[k].attempts + reviews[k].lost
      /\ \A j \in Keys \ {k} : Waiting(j) = 0
  BY InHand DEF Asks
<1>2. reviews' = [reviews EXCEPT ![k] = r]
  BY <1>1 DEF Asks, ReviewInv, ReviewsFit
<1>3. /\ r \in ReviewRows /\ r.session = reviews[k].session /\ r.event # "over"
      /\ r.attempts = reviews[k].attempts /\ r.calls = reviews[k].calls + 1
      /\ r.lost = reviews[k].lost
  <2>1. /\ reviews[k].session \in Nat /\ reviews[k].told \in {"started"} \cup Outcomes
        /\ reviews[k].event \in {"absent"} \cup Outcomes
        /\ DOMAIN reviews[k] = {"session", "told", "event", "attempts", "calls", "lost"}
    BY <1>1 DEF ReviewRows
  <2>2. /\ (IF reviews[k].event = "absent" THEN "received" ELSE reviews[k].event)
             \in ({"absent"} \cup Outcomes) \ {"over"}
        /\ reviews[k].calls + 1 \in Nat
    BY <1>1, <2>1 DEF Outcomes
  <2> QED
    BY <1>1, <2>1, <2>2 DEF ReviewRows
<1> HIDE DEF r
<1>4. Keys' = Keys /\ reviews'[k] = r /\ \A j \in Keys \ {k} : reviews'[j] = reviews[j]
  BY <1>1, <1>2 DEF Keys, ReviewInv, ReviewsFit
<1>5. /\ step' \in Steps /\ step'.todo = step.todo /\ step'.recovering = step.recovering
      /\ step'.theses = step.theses /\ step'.pc = "answer" /\ step'.key = k
  BY <1>1 DEF Asks, Steps, Places
<1>6. step' \in Steps'
  BY <1>4, <1>5 DEF Steps
<1>7. UNCHANGED <<memory, since, high, session, refs, trouble>>
  BY DEF Asks
<1>8. StepFits'
  <2>1. /\ step.recovering => k \notin step.todo
        /\ step.recovering => \A j \in step.todo : j \in Keys /\ reviews[j].event # "over"
        /\ ~step.recovering =>
             /\ step.todo \subseteq Theses
             /\ \A t \in Theses : step.theses[t].revision \in 1 .. theses[t].revision
    BY <1>1 DEF ReviewInv, StepFits
  <2> QED
    BY <1>1, <1>3, <1>4, <1>5, <1>6, <1>7, <2>1 DEF StepFits, memory
<1>9. Waiting(k)' = 1 /\ \A j \in Keys \ {k} : Waiting(j)' = 0
  BY <1>5 DEF Waiting
<1>10. /\ r.calls <= MaxTries + r.lost
       /\ r.event # "over" => r.attempts <= MaxTries /\ r.calls <= r.attempts + r.lost + Waiting(k)'
  BY <1>1, <1>3, <1>9
<1> QED
  BY <1>1, <1>2, <1>3, <1>7, <1>8, <1>9, <1>10, StepMoves, ReviewTurns

LEMMA InvEnds ==
    ASSUME ReviewInv, Waits \/ Decides \/ CallFails
    PROVE  ReviewInv'
<1>1. CASE Waits
  <2>1. ThesesFit' /\ RevisionsGrow
    BY <1>1, ReviewBounds DEF Waits, memory, ReviewInv, ThesesFit, RevisionsGrow
  <2> QED
    BY <1>1, <2>1, CycleEnds DEF Waits
<1>2. CASE CallFails
  BY <1>2, StepMoves, CycleEnds DEF CallFails
<1>3. CASE Decides
  <2>1. PICK changed \in SUBSET {t \in Theses : theses[t].revision < MaxRevisions} :
        \E active \in SUBSET changed :
         /\ theses' = [t \in Theses |->
                          IF t \notin changed THEN theses[t]
                          ELSE [revision |-> theses[t].revision + 1, active |-> t \in active]]
         /\ age' = [t \in Theses |-> IF t \in changed THEN 0 ELSE age[t]]
    BY <1>3 DEF Decides
  <2>2. PICK active \in SUBSET changed :
         /\ theses' = [t \in Theses |->
                          IF t \notin changed THEN theses[t]
                          ELSE [revision |-> theses[t].revision + 1, active |-> t \in active]]
         /\ age' = [t \in Theses |-> IF t \in changed THEN 0 ELSE age[t]]
    BY <2>1
  <2>3. ASSUME NEW t \in Theses
        PROVE  /\ theses'[t] \in [revision : 1 .. MaxRevisions, active : BOOLEAN]
               /\ theses[t].revision <= theses'[t].revision /\ age'[t] \in 0 .. MaxAge
    <3>1. theses[t] \in [revision : 1 .. MaxRevisions, active : BOOLEAN] /\ age[t] \in 0 .. MaxAge
      BY DEF ReviewInv, ThesesFit
    <3>2. CASE t \in changed
      <4>1. /\ theses'[t] = [revision |-> theses[t].revision + 1, active |-> t \in active]
            /\ age'[t] = 0
        BY <2>2, <3>2
      <4>2. theses[t].revision \in 1 .. MaxRevisions /\ theses[t].revision < MaxRevisions
        BY <3>1, <3>2
      <4>3. (t \in active) \in BOOLEAN
        OBVIOUS
      <4> QED
        BY <4>1, <4>2, <4>3, ReviewBounds
    <3>3. CASE t \notin changed
      BY <2>2, <3>1, <3>3, ReviewBounds
    <3> QED
      BY <3>2, <3>3
  <2>4. ThesesFit' /\ RevisionsGrow
    <3>1. theses' \in [Theses -> [revision : 1 .. MaxRevisions, active : BOOLEAN]]
          /\ age' \in [Theses -> 0 .. MaxAge]
      BY <2>2, <2>3
    <3> QED
      BY <1>3, <2>3, <3>1 DEF Decides, ReviewInv, ThesesFit, RevisionsGrow
  <2> QED
    BY <1>3, <2>4, CycleEnds DEF Decides
<1> QED
  BY <1>1, <1>2, <1>3

\* The key a review is chosen under names its thesis in the snapshot's revision.
LEMMA ChosenKeys ==
    ASSUME NEW t \in Theses, NEW key \in Chosen(t)
    PROVE  key.thesis = t /\ key.revision = step.theses[t].revision
<1> DEFINE fresh == {n \in 1 .. 4 : Due(t)[n] \ Keys # {}}
<1>1. fresh # {} /\ key \in Due(t)[Min(fresh)]
  BY DEF Chosen
<1>2. Min(fresh) \in fresh
  <2>1. fresh \in SUBSET Nat
    OBVIOUS
  <2> HIDE DEF fresh
  <2> QED
    BY <1>1, <2>1, LeastIsOne
<1>3. \E n \in 1 .. 4 : key \in Due(t)[n]
  BY <1>1, <1>2
<1>4. \A n \in 1 .. 4 : \A x \in Due(t)[n] : \E kind, slot : x = KeyOf(t, kind, slot)
  BY DEF Due
<1> QED
  BY <1>3, <1>4 DEF KeyOf

\* A recorded review is one more of its thesis and one more in all.
LEMMA OneMore ==
    ASSUME ReviewInv, NEW t \in Theses, Within(t), NEW key, key.thesis = t,
           Keys' = Keys \cup {key}
    PROVE  ReviewsAreCapped' /\ IsFiniteSet(Keys')
<1>1. IsFiniteSet(Keys)
  BY DEF ReviewInv, ReviewsFit
<1>2. /\ IsFiniteSet(Keys') /\ Cardinality(Keys') <= Cardinality(Keys) + 1 /\ Cardinality(Keys) \in Nat
  BY <1>1, FS_AddElement, FS_CardinalityType
<1>3. Cardinality(Keys') <= MaxTotal
  <2>1. ~(Cardinality(Keys) >= MaxTotal) /\ Cardinality(Keys') \in Nat /\ MaxTotal \in Nat
    BY <1>2, FS_CardinalityType, ReviewBounds DEF Within, TotalSpent
  <2> QED
    BY <1>2, <2>1
<1>4. ASSUME NEW u \in Theses PROVE Cardinality(OfThesis(u)') <= MaxPerThesis
  <2>1. IsFiniteSet(OfThesis(u)) /\ Cardinality(OfThesis(u)) \in Nat
    BY <1>1, FS_Subset, FS_CardinalityType DEF OfThesis
  <2>2. CASE u = t
    <3>1. OfThesis(u)' = OfThesis(u) \cup {key}
      BY <2>2 DEF OfThesis
    <3>2. Cardinality(OfThesis(u)') <= Cardinality(OfThesis(u)) + 1
      BY <2>1, <3>1, FS_AddElement
    <3>3. Cardinality(OfThesis(u)') \in Nat
      BY <2>1, <3>1, FS_AddElement, FS_CardinalityType
    <3> QED
      BY <2>1, <2>2, <3>2, <3>3, ReviewBounds DEF Within, CountFor
  <2>3. CASE u # t
    <3>1. OfThesis(u)' = OfThesis(u)
      BY <2>3 DEF OfThesis
    <3> QED
      BY <3>1 DEF ReviewInv, ReviewsAreCapped
  <2> QED
    BY <2>2, <2>3
<1> QED
  BY <1>2, <1>3, <1>4 DEF ReviewsAreCapped

LEMMA InvReviews ==
    ASSUME ReviewInv, NEW t \in Theses, Reviews(t)
    PROVE  ReviewInv'
<1>1. PICK key \in Chosen(t) :
        /\ reviews' = Recorded(key)
        /\ step' = [step EXCEPT !.todo = @ \ {t}, !.pc = "cycle", !.key = key]
  BY DEF Reviews
<1>2. /\ step.pc = "step" /\ t \in step.todo /\ Within(t) /\ since' = [since EXCEPT ![t] = 0]
      /\ UNCHANGED <<memory, high, session, trouble>>
  BY DEF Reviews
<1>3. key.thesis = t /\ key.revision = step.theses[t].revision
  BY ChosenKeys
<1>4. /\ step \in Steps /\ session >= 1 /\ ~step.recovering /\ step.todo \subseteq Theses
      /\ \A u \in Theses : step.theses[u].revision \in 1 .. theses[u].revision
  BY <1>2 DEF ReviewInv, StepFits
<1> DEFINE r == [session |-> session, told |-> "started", event |-> "absent",
                 attempts |-> 0, calls |-> 0, lost |-> 0]
<1>5. r \in ReviewRows /\ r.session \in 1 .. session /\ r.calls = 0 /\ r.attempts = 0 /\ r.lost = 0
      /\ r.event = "absent"
  BY <1>4 DEF ReviewRows, Outcomes, ReviewInv, ThesesFit
<1>6. reviews' = [j \in {key} \cup Keys |-> IF j = key THEN r ELSE reviews[j]]
  BY <1>1 DEF Recorded, NewReview
<1> HIDE DEF r
<1>7. /\ Keys' = Keys \cup {key} /\ reviews' \in [Keys' -> ReviewRows] /\ reviews'[key] = r
      /\ \A j \in Keys \ {key} : reviews'[j] = reviews[j]
  <2>1. reviews' = [j \in {key} \cup Keys |-> IF j = key THEN r ELSE reviews[j]]
    BY <1>6 DEF Keys
  <2>2. reviews \in [Keys -> ReviewRows]
    BY DEF ReviewInv, ReviewsFit
  <2>3. Keys' = {key} \cup Keys
    BY <2>1 DEF Keys
  <2> QED
    BY <1>5, <2>1, <2>2, <2>3
<1>8. ReviewsAreCapped' /\ IsFiniteSet(Keys')
  BY <1>2, <1>3, <1>7, OneMore
<1>9. ThesesFit'
  BY <1>2, ReviewBounds DEF ReviewInv, ThesesFit, memory
<1>10. ReviewsFit'
  BY <1>2, <1>3, <1>4, <1>5, <1>7, <1>8 DEF ReviewInv, ReviewsFit, memory
<1>11. /\ step' \in Steps' /\ step'.todo = step.todo \ {t} /\ step'.recovering = FALSE
       /\ step'.theses = step.theses /\ step'.pc = "cycle" /\ step'.key = key
  BY <1>1, <1>4, <1>7 DEF Steps, Places
<1>12. StepFits'
  BY <1>2, <1>4, <1>5, <1>7, <1>11, ReviewBounds DEF StepFits, memory
<1>13. CallsFit'
  <2>1. ASSUME NEW j \in Keys, j # key
        PROVE  /\ reviews'[j].calls <= MaxTries + reviews'[j].lost
               /\ reviews'[j].event # "over" =>
                    /\ reviews'[j].attempts <= MaxTries
                    /\ reviews'[j].calls <= reviews'[j].attempts + reviews'[j].lost + Waiting(j)'
    BY <1>2, <1>7, <1>11, <2>1 DEF ReviewInv, CallsFit, Waiting
  <2>2. Waiting(key)' = 0
    BY <1>11 DEF Waiting
  <2> QED
    BY <1>5, <1>7, <2>1, <2>2, ReviewBounds DEF CallsFit
<1> QED
  BY <1>8, <1>9, <1>10, <1>12, <1>13 DEF ReviewInv
-----------------------------------------------------------------------------
\* The steps of pass, recovery and start that only move the step.
LEMMA InvStepOnly ==
    ASSUME ReviewInv, UNCHANGED <<memory, since, high, reviews, session, trouble>>,
           StepFits', step.pc # "answer", step'.pc # "answer"
    PROVE  ReviewInv'
<1>1. \A k \in Keys : Waiting(k)' = Waiting(k)
  BY DEF Waiting
<1> QED
  BY <1>1, StepMoves, ReviewsRest

LEMMA InvStepBegins ==
    ASSUME ReviewInv, StepBegins
    PROVE  ReviewInv'
<1>1. /\ step.pc = "idle" /\ UNCHANGED <<memory, since, high, reviews, session, trouble>>
      /\ step' = [Resting("step") EXCEPT !.theses = theses, !.high = high,
                                       !.todo = {t \in Theses : theses[t].active}]
      /\ session >= 1
  BY DEF StepBegins, ReviewInv, StepFits
<1>2. theses \in Snapshots /\ \A t \in Theses : theses[t].revision \in 1 .. theses[t].revision
  BY ReviewBounds DEF ReviewInv, ThesesFit, Snapshots
<1>3. high \in BOOLEAN
  BY DEF ReviewInv, ThesesFit
<1>4. /\ step'.pc = "step" /\ step'.recovering = FALSE /\ step'.theses = theses
      /\ step'.todo = {t \in Theses : theses[t].active} /\ step' \in Steps
  BY <1>1, <1>2, <1>3 DEF Resting, Steps, Places
<1>5. step' \in Steps'
  BY <1>1, <1>4 DEF Steps, Keys
<1>6. StepFits'
  BY <1>1, <1>2, <1>4, <1>5 DEF StepFits, memory
<1> QED
  BY <1>1, <1>4, <1>6, InvStepOnly

LEMMA InvStepEnds ==
    ASSUME ReviewInv, StepEnds \/ RecoveryEnds
    PROVE  ReviewInv'
<1>1. /\ step.pc \in {"step", "recover"} /\ step' = Resting("idle") /\ session >= 1
      /\ UNCHANGED <<memory, since, high, reviews, session, trouble>>
  BY DEF StepEnds, RecoveryEnds, ReviewInv, StepFits
<1>2. StepFits' /\ step'.pc # "answer"
  BY <1>1, AtRestFits DEF Resting
<1> QED
  BY <1>1, <1>2, InvStepOnly

LEMMA InvPasses ==
    ASSUME ReviewInv, NEW t \in Theses, Passes(t)
    PROVE  ReviewInv'
<1>1. /\ step.pc = "step" /\ step' = [step EXCEPT !.todo = @ \ {t}]
      /\ UNCHANGED <<memory, since, high, reviews, session, trouble>>
  BY DEF Passes
<1>2. /\ step \in Steps /\ session >= 1 /\ ~step.recovering /\ step.todo \subseteq Theses
      /\ \A u \in Theses : step.theses[u].revision \in 1 .. theses[u].revision
  BY <1>1 DEF ReviewInv, StepFits
<1>3. /\ step'.pc = "step" /\ step'.recovering = FALSE /\ step'.theses = step.theses
      /\ step'.todo = step.todo \ {t} /\ step' \in Steps
  BY <1>1, <1>2 DEF Steps
<1>4. step' \in Steps'
  BY <1>1, <1>3 DEF Steps, Keys
<1>5. StepFits'
  BY <1>1, <1>2, <1>3, <1>4 DEF StepFits, memory
<1> QED
  BY <1>1, <1>3, <1>5, InvStepOnly

LEMMA InvRecoveryRuns ==
    ASSUME ReviewInv, NEW k \in Keys, RecoveryRuns(k)
    PROVE  ReviewInv'
<1>1. /\ step.pc = "recover" /\ k \in step.todo /\ reviews[k].attempts < MaxTries
      /\ step' = [step EXCEPT !.todo = @ \ {k}, !.pc = "cycle", !.key = k]
      /\ UNCHANGED <<memory, since, high, reviews, session, trouble>>
  BY DEF RecoveryRuns, MayRetry
<1>2. /\ step \in Steps /\ session >= 1 /\ step.recovering
      /\ \A j \in step.todo : j \in Keys /\ reviews[j].event # "over"
  BY <1>1 DEF ReviewInv, StepFits
<1>3. /\ step'.pc = "cycle" /\ step'.recovering = step.recovering /\ step'.key = k
      /\ step'.todo = step.todo \ {k} /\ step' \in Steps
  BY <1>1, <1>2 DEF Steps, Places
<1>4. step' \in Steps' /\ Keys' = Keys
  BY <1>1, <1>3 DEF Steps, Keys
<1>5. StepFits'
  BY <1>1, <1>2, <1>3, <1>4 DEF StepFits, memory
<1> QED
  BY <1>1, <1>3, <1>5, InvStepOnly

LEMMA InvSessionBegins ==
    ASSUME ReviewInv, SessionBegins
    PROVE  ReviewInv'
<1>1. /\ step.pc = "down" /\ session < MaxSessions /\ session' = session + 1
      /\ step' = [Resting("recover") EXCEPT !.todo = Unfinished, !.recovering = TRUE]
      /\ UNCHANGED <<memory, since, high, reviews, trouble>>
  BY DEF SessionBegins
<1>2. Unfinished \subseteq Keys /\ \A k \in Unfinished : reviews[k].event # "over"
  BY DEF Unfinished
<1>3. NoTheses \in Snapshots
  BY DEF NoTheses, Snapshots
<1>4. /\ step'.pc = "recover" /\ step'.recovering = TRUE /\ step'.todo = Unfinished
      /\ step' \in Steps
  BY <1>1, <1>2, <1>3 DEF Resting, Steps, Places
<1>5. step' \in Steps' /\ Keys' = Keys
  BY <1>1, <1>4 DEF Steps, Keys
<1>6. ThesesFit' /\ RevisionsGrow
  BY <1>1, ReviewBounds DEF ReviewInv, ThesesFit, RevisionsGrow, memory
<1>7. StepFits'
  <2>1. session' >= 1
    BY <1>1 DEF ReviewInv, ThesesFit
  <2> QED
    BY <1>1, <1>2, <1>4, <1>5, <2>1 DEF StepFits
<1>8. \A k \in Keys : Waiting(k)' = Waiting(k)
  BY <1>1, <1>4 DEF Waiting
<1> QED
  BY <1>1, <1>6, <1>7, <1>8, ReviewsRest

LEMMA InvRecoveryAbandons ==
    ASSUME ReviewInv, NEW k \in Keys, RecoveryAbandons(k)
    PROVE  ReviewInv'
<1> DEFINE r == [reviews[k] EXCEPT !.event = "over"]
<1>1. /\ step.pc = "recover" /\ k \in step.todo /\ step' = [step EXCEPT !.todo = @ \ {k}]
      /\ UNCHANGED <<memory, since, high, session, trouble>>
  BY DEF RecoveryAbandons
<1>2. /\ step \in Steps /\ session >= 1 /\ step.recovering
      /\ \A j \in step.todo : j \in Keys /\ reviews[j].event # "over"
  BY <1>1 DEF ReviewInv, StepFits
<1>3. reviews \in [Keys -> ReviewRows] /\ reviews' = [reviews EXCEPT ![k] = r]
  BY DEF RecoveryAbandons, ReviewInv, ReviewsFit
<1>4. r \in ReviewRows /\ r.session = reviews[k].session /\ r.event = "over"
      /\ r.calls = reviews[k].calls /\ r.lost = reviews[k].lost
  BY <1>3 DEF ReviewRows, Outcomes
<1> HIDE DEF r
<1>5. Keys' = Keys /\ \A j \in Keys \ {k} : reviews'[j] = reviews[j]
  BY <1>3 DEF Keys
<1>6. /\ step'.pc = "recover" /\ step'.recovering = step.recovering
      /\ step'.todo = step.todo \ {k} /\ step' \in Steps
  BY <1>1, <1>2 DEF Steps
<1>7. step' \in Steps'
  BY <1>5, <1>6 DEF Steps
<1>8. StepFits'
  BY <1>1, <1>2, <1>5, <1>6, <1>7 DEF StepFits
<1>9. \A j \in Keys : Waiting(j)' = Waiting(j)
  BY <1>1, <1>6 DEF Waiting
<1>10. r.calls <= MaxTries + r.lost
  BY <1>4 DEF ReviewInv, CallsFit
<1> QED
  BY <1>1, <1>3, <1>4, <1>8, <1>9, <1>10, StepMoves, ReviewTurns

\* The pass or the process ends with its call lost.
LEMMA InvLost ==
    ASSUME ReviewInv, Raises \/ Dies
    PROVE  ReviewInv'
<1>1. /\ step' = Resting(IF Raises THEN "idle" ELSE "down") \/ step' = Resting("down")
      /\ step.pc # "down" /\ reviews' = Lost
      /\ UNCHANGED <<memory, since, high, session>> /\ trouble' \in 0 .. MaxTrouble
  BY ReviewBounds DEF Raises, Dies, ReviewInv, ThesesFit
<1>2. PICK pc \in {"down", "idle"} : step' = Resting(pc)
  BY <1>1
<1>3. session' >= 1
  BY <1>1 DEF ReviewInv, StepFits
<1>4. StepFits' /\ \A j : Waiting(j)' = 0
  BY <1>2, <1>3, AtRestFits
<1>5. ThesesFit' /\ RevisionsGrow
  BY <1>1 DEF ReviewInv, ThesesFit, RevisionsGrow, memory
<1>6. CASE step.pc # "answer"
  <2>1. reviews' = reviews
    BY <1>1, <1>6 DEF Lost
  <2>2. \A j \in Keys : Waiting(j)' = Waiting(j)
    BY <1>4, <1>6 DEF Waiting
  <2> QED
    BY <1>1, <1>4, <1>5, <2>1, <2>2, ReviewsRest
<1>7. CASE step.pc = "answer"
  <2> SUFFICES ASSUME NEW k, k = step.key PROVE ReviewInv'
    OBVIOUS
  <2> DEFINE r == [reviews[k] EXCEPT !.lost = @ + 1]
  <2>1. /\ k \in Keys /\ reviews[k] \in ReviewRows /\ reviews[k].attempts < MaxTries
        /\ reviews[k].calls \in Nat /\ reviews[k].lost \in Nat /\ reviews[k].attempts \in Nat
        /\ MaxTries \in Nat
        /\ reviews[k].calls <= reviews[k].attempts + reviews[k].lost + 1
        /\ \A j \in Keys \ {k} : Waiting(j) = 0
    BY <1>7, InHand
  <2>2. reviews' = [reviews EXCEPT ![k] = r]
    BY <1>1, <1>7 DEF Lost, ReviewInv, ReviewsFit
  <2>3. /\ r \in ReviewRows /\ r.session = reviews[k].session /\ r.event = reviews[k].event
        /\ r.attempts = reviews[k].attempts /\ r.calls = reviews[k].calls
        /\ r.lost = reviews[k].lost + 1
    BY <2>1 DEF ReviewRows
  <2> HIDE DEF r
  <2>4. /\ r.calls <= MaxTries + r.lost
        /\ r.event # "over" => r.attempts <= MaxTries /\ r.calls <= r.attempts + r.lost + Waiting(k)'
    BY <1>4, <2>1, <2>3
  <2>5. \A j \in Keys \ {k} : Waiting(j)' = Waiting(j)
    BY <1>4, <2>1
  <2>6. session' = session /\ StepFits' /\ ThesesFit' /\ RevisionsGrow
    BY <1>1, <1>4, <1>5
  <2> QED
    BY <2>1, <2>2, <2>3, <2>4, <2>5, <2>6, ReviewTurns
<1> QED
  BY <1>6, <1>7

\* Time, the price and the news.
LEMMA InvWorld ==
    ASSUME ReviewInv, Tick \/ PriceMoves \/ \E t \in Theses : NewsRevises(t)
    PROVE  ReviewInv'
<1>1. UNCHANGED <<reviews, session, step, trouble>>
  BY DEF Tick, PriceMoves, NewsRevises
<1>2. ThesesFit' /\ RevisionsGrow
  <2>1. CASE Tick
    <3>1. \A n, limit \in Nat : n <= limit => Older(n, limit) \in 0 .. limit
      BY DEF Older
    <3> QED
      BY <2>1, <3>1, ReviewBounds DEF Tick, ReviewInv, ThesesFit, RevisionsGrow
  <2>2. CASE PriceMoves
    BY <2>2, ReviewBounds DEF PriceMoves, ReviewInv, ThesesFit, RevisionsGrow, memory
  <2>3. ASSUME NEW t \in Theses, NewsRevises(t) PROVE ThesesFit' /\ RevisionsGrow
    <3>1. PICK active \in BOOLEAN :
            theses' = [theses EXCEPT ![t] = [revision |-> @.revision + 1, active |-> active]]
      BY <2>3 DEF NewsRevises
    <3>2. /\ theses \in [Theses -> [revision : 1 .. MaxRevisions, active : BOOLEAN]]
          /\ theses[t].revision \in 1 .. MaxRevisions /\ theses[t].revision < MaxRevisions
          /\ MaxRevisions \in Nat
      BY <2>3, ReviewBounds DEF NewsRevises, ReviewInv, ThesesFit
    <3>3. [revision |-> theses[t].revision + 1, active |-> active]
            \in [revision : 1 .. MaxRevisions, active : BOOLEAN]
      BY <3>2
    <3>4. /\ theses' \in [Theses -> [revision : 1 .. MaxRevisions, active : BOOLEAN]]
          /\ theses'[t].revision = theses[t].revision + 1
          /\ \A u \in Theses \ {t} : theses'[u] = theses[u]
      BY <3>1, <3>2, <3>3
    <3>5. RevisionsGrow
      BY <3>2, <3>4 DEF RevisionsGrow
    <3> QED
      BY <2>3, <3>4, <3>5, ReviewBounds DEF NewsRevises, ReviewInv, ThesesFit
  <2> QED
    BY <2>1, <2>2, <2>3
<1>3. StepFits'
  <2>1. step' \in Steps' /\ Keys' = Keys
    BY <1>1 DEF ReviewInv, StepFits, Steps, Keys
  <2>2. \A t \in Theses : theses[t].revision \in Nat /\ theses'[t].revision \in Nat
                          /\ theses[t].revision <= theses'[t].revision
    BY <1>2 DEF ReviewInv, ThesesFit, RevisionsGrow
  <2>3. ~step.recovering /\ step.pc \in {"step", "cycle", "answer"} =>
           /\ step.todo \subseteq Theses
           /\ \A t \in Theses : step.theses[t].revision \in 1 .. theses'[t].revision
    <3> SUFFICES ASSUME ~step.recovering, step.pc \in {"step", "cycle", "answer"}, NEW t \in Theses
                 PROVE  step.theses[t].revision \in 1 .. theses'[t].revision
      BY DEF ReviewInv, StepFits
    <3>1. step.theses[t].revision \in 1 .. theses[t].revision
      BY DEF ReviewInv, StepFits
    <3> QED
      BY <2>2, <3>1
  <2> QED
    BY <1>1, <2>1, <2>3 DEF ReviewInv, StepFits
<1>4. \A k \in Keys : Waiting(k)' = Waiting(k)
  BY <1>1 DEF Waiting
<1> QED
  BY <1>1, <1>2, <1>3, <1>4, ReviewsRest

LEMMA ReviewsBegin ==
    ASSUME ReviewsInit
    PROVE  ReviewInv
<1>1. ThesesFit
  BY ReviewBounds DEF ReviewsInit, ThesesFit
<1>2. Keys = {} /\ reviews \in [Keys -> ReviewRows] /\ IsFiniteSet({}) /\ Cardinality({}) = 0
  BY FS_EmptySet DEF ReviewsInit, Keys
<1>3. ReviewsFit /\ CallsFit
  BY <1>2 DEF ReviewsFit, CallsFit
<1>4. ReviewsAreCapped
  <2>1. ASSUME NEW t \in Theses PROVE Cardinality(OfThesis(t)) <= MaxPerThesis
    <3>1. OfThesis(t) = {}
      BY <1>2 DEF OfThesis
    <3>2. Cardinality(OfThesis(t)) = 0
      BY <1>2, <3>1
    <3> QED
      BY <3>2, ReviewBounds
  <2>2. Cardinality(Keys) = 0
    BY <1>2
  <2>3. Cardinality(Keys) <= MaxTotal
    BY <2>2, ReviewBounds
  <2> QED
    BY <2>1, <2>3 DEF ReviewsAreCapped
<1>5. StepFits
  <2>1. NoTheses \in Snapshots
    BY DEF NoTheses, Snapshots
  <2> QED
    BY <2>1 DEF ReviewsInit, StepFits, Resting, Steps, Places
<1> QED
  BY <1>1, <1>3, <1>4, <1>5 DEF ReviewInv

LEMMA ReviewsGoOn ==
    ASSUME ReviewInv, [ReviewsNext]_reviewVars
    PROVE  ReviewInv'
<1>1. CASE Works
  BY <1>1, InvStepBegins, InvStepEnds, InvPasses, InvReviews, InvAsks, InvEnds, InvLost,
     InvRecoveryAbandons, InvRecoveryRuns DEF Works, Pass, ReviewCycle, ReviewRecovery
<1>2. CASE SessionBegins
  BY <1>2, InvSessionBegins
<1>3. CASE Dies
  BY <1>3, InvLost
<1>4. CASE Tick \/ PriceMoves \/ \E t \in Theses : NewsRevises(t)
  BY <1>4, InvWorld
<1>5. CASE UNCHANGED reviewVars
  BY <1>5 DEF reviewVars, memory, ReviewInv, ThesesFit, ReviewsFit, StepFits, Steps, CallsFit,
     Waiting, ReviewsAreCapped, OfThesis, Keys
<1> QED
  BY <1>1, <1>2, <1>3, <1>4, <1>5 DEF ReviewsNext

\* The limits on reviews hold for a thesis and in all, whatever process recorded them, and
\* a review is asked about no more often than it has attempts, but for calls lost with
\* their process or to an exception (step_reviews, record_review_started, recover_incomplete).
THEOREM ReviewsStayBounded == ReviewsSpec => []ReviewsAreBounded
<1>1. ReviewsSpec => []ReviewInv
  BY ReviewsBegin, ReviewsGoOn, PTL DEF ReviewsSpec
<1>2. ReviewInv => ReviewsAreBounded
  <2> SUFFICES ASSUME ReviewInv PROVE ReviewsAreBounded
    OBVIOUS
  <2>1. ReviewsTypeOK
    <3>1. \A k \in Keys : /\ k.revision \in 1 .. theses[k.thesis].revision
                          /\ reviews[k].told \in {"started"} \cup Outcomes
                          /\ reviews[k].event \in {"absent"} \cup Outcomes
                          /\ reviews[k].session \in 1 .. session
      BY DEF ReviewInv, ReviewsFit, ReviewRows
    <3>2. /\ step.pc \in Places /\ (step.pc \in {"cycle", "answer"} => step.key \in Keys)
      BY DEF ReviewInv, StepFits, Steps
    <3> QED
      BY <3>1, <3>2 DEF ReviewInv, ThesesFit, ReviewsTypeOK, Places
  <2> QED
    BY <2>1 DEF ReviewInv, CallsFit, CallsPerReview, ReviewsAreBounded
<1> QED
  BY <1>1, <1>2, PTL
=============================================================================
