---------------------------- MODULE RunnerProofs ----------------------------
(***************************************************************************)
(* The Shadow runner: its control, and the two feeds of quotes it follows. *)
(*                                                                         *)
(* A stop is final, its row is its own, and what it leaves open is marked, *)
(* for every clock, calendar and set of settings, and for any number of    *)
(* runs and of failures on the way down.  Everything rests on what holds   *)
(* once a run has begun to shut down: its reason to stop is set, so the    *)
(* ledger refuses what adds risk whoever asks, and a thread that outlived  *)
(* its task can only ease the account.                                     *)
(*                                                                         *)
(* The files of the bridge are read forward only, for any number of runs,  *)
(* files and lines: lines are written as time goes on, what was read of a  *)
(* file is behind what is unread, and the session followed began after     *)
(* every row was written, if runs were taken up in order.                  *)
(*                                                                         *)
(* The sessions of the stream add up, for any number of connections and    *)
(* troubles: the stream knows the last quote of the session it writes,     *)
(* unless one was left unpublished, and that one has the next number.      *)
(***************************************************************************)
EXTENDS RunnerControl, QuoteFeed, QuoteStream, FiniteSetTheorems, WellFoundedInduction, TLAPS

-----------------------------------------------------------------------------
(***************************************************************************)
(* The control of the runner                                               *)
(***************************************************************************)
Ledgers == [position : BOOLEAN, pending : BOOLEAN, exitDue : BOOLEAN]
Runs == [startedAt : 0..MaxClock, duration : Durations \cup {Forever}, set : Settings]
Rows == [status : {"idle", "running", "stopping", "draining", "stopped"},
         asked : BOOLEAN, startedAt : 0..MaxClock, duration : Durations \cup {Forever}]
Quoters == [pc : {"idle", "exits", "fill", "off"}, told : BOOLEAN]
Counts == [runs : 0..MaxRuns, faults : 0..MaxFaults]

\* While a run waits, the row is its own.
OwnRow ==
    main = "waiting" =>
        row.status = "running" /\ row.startedAt = run.startedAt /\ row.duration = run.duration

\* A run that shuts down, or has cancelled orders for a stop, has its reason.
HasReason ==
    /\ Up /\ main # "waiting" => reason /\ stopEvent
    /\ Up /\ (swept \/ sweeping) => reason

\* Only an end in order shows the row as stopped, and threads do not outlive their process.
EndsInOrder ==
    /\ row.status = "stopped" => main \in {"closing", "down"}
    /\ main = "down" => late = {}

\* What OpenRiskIsMarked says, from the moment the run knows how it ended.
Reported ==
    /\ main = "mark" => summary # "flat"
    /\ main = "close" \/ row.status = "stopped" =>
         /\ ledger.position => ledger.exitDue \/ run.set.handoff
         /\ summary = "flat" => ~ledger.position

\* The inductive invariant.
Inv == TypeOK /\ OwnRow /\ HasReason /\ EndsInOrder /\ Reported

\* From account l to account x no risk is added, and a due exit is not forgotten.
Eases(l, x) ==
    /\ x.pending => l.pending
    /\ x.position => l.position
    /\ x.position /\ l.exitDue => x.exitDue

\* SweepIsFinal and StopIsNotUndone, of one step.
SweepHolds ==
    swept /\ Up => (ledger'.pending => ledger.pending) /\ (ledger'.position => ledger.position)
StopHolds == row'.status = "running" => row.status = "running" \/ main = "down"

\* What every step keeps.
Keeps == Inv' /\ SweepHolds /\ StopHolds
-----------------------------------------------------------------------------
(***************************************************************************)
(* The ledger's operations                                                 *)
(***************************************************************************)
LEMMA Bounds ==
    /\ MaxClock \in Nat /\ MaxRuns \in Nat /\ MaxFaults \in Nat
    /\ 0 \in 0..MaxClock
BY RunnerAssumption

\* An evaluation of protective exits adds no risk, and an exit that is due stays due.
LEMMA ExitedEases ==
    ASSUME NEW l \in Ledgers, NEW good \in BOOLEAN, NEW trigger \in BOOLEAN
    PROVE  Exited(l, good, trigger) \in Ledgers /\ Eases(l, Exited(l, good, trigger))
BY DEF Exited, Eases, Ledgers

\* Cancelling the orders takes the pending one away and nothing else.
LEMMA CancelledEases ==
    ASSUME ledger \in Ledgers
    PROVE  Cancelled \in Ledgers /\ Eases(ledger, Cancelled) /\ Cancelled.pending = FALSE
           /\ Cancelled.position = ledger.position /\ Cancelled.exitDue = ledger.exitDue
BY DEF Cancelled, Eases, Ledgers

\* To ask for an exit makes it due where there is a position.
LEMMA RequestedEases ==
    ASSUME NEW l \in Ledgers
    PROVE  ExitRequested(l) \in Ledgers /\ Eases(l, ExitRequested(l))
           /\ ExitRequested(l).position = l.position /\ ExitRequested(l).pending = l.pending
BY DEF ExitRequested, Eases, Ledgers

\* One relief after another is a relief.
LEMMA EasesFurther ==
    ASSUME NEW l \in Ledgers, NEW x \in Ledgers, NEW y \in Ledgers, Eases(l, x), Eases(x, y)
    PROVE  Eases(l, y)
BY DEF Eases, Ledgers

\* The run has its reason, or the row says it stopped: the ledger counts it as a stop.
Stopped == (Up /\ reason) \/ row.status = "stopped"

\* A run with a reason to stop is stopped for the ledger too.
LEMMA StoppedStops ==
    ASSUME Stopped, NEW short
    PROVE  LedgerStops(short)
BY DEF Stopped, LedgerStops, RunnerStops, RowStops

\* In a stopped run, recording an order can only ease the account.
LEMMA RecordedEases ==
    ASSUME ledger \in Ledgers, NEW short \in BOOLEAN, NEW denied \in BOOLEAN
    PROVE  /\ RecordedOrder(short, denied) \in Ledgers
           /\ Stopped => Eases(ledger, RecordedOrder(short, denied))
<1>1. CASE LedgerStops(short)
  BY <1>1, CancelledEases DEF RecordedOrder
<1>2. CASE ~LedgerStops(short)
  <2>1. RecordedOrder(short, denied) \in Ledgers
    BY <1>2 DEF RecordedOrder, Ledgers
  <2> QED
    BY <1>2, <2>1, StoppedStops
<1> QED
  BY <1>1, <1>2

\* In a stopped run, a fill can only ease the account.
LEMMA FilledEases ==
    ASSUME ledger \in Ledgers, NEW told \in BOOLEAN, NEW short \in BOOLEAN, NEW good \in BOOLEAN, NEW denied \in BOOLEAN
    PROVE  /\ Filled(told, short, good, denied) \in Ledgers
           /\ Stopped => Eases(ledger, Filled(told, short, good, denied))
<1> DEFINE x == Filled(told, short, good, denied)
<1>0. Eases(ledger, ledger)
  BY DEF Eases
<1>1. CASE ~ledger.pending
  <2>1. x = ledger
    BY <1>1 DEF Filled
  <2> QED
    BY <1>0, <2>1
<1>2. CASE ledger.pending /\ (told \/ LedgerStops(short))
  <2>1. x = Cancelled
    BY <1>2 DEF Filled
  <2> QED
    BY <2>1, CancelledEases
<1>3. CASE ledger.pending /\ ~(told \/ LedgerStops(short)) /\ ~good
  <2>1. x = ledger
    BY <1>3 DEF Filled
  <2> QED
    BY <1>0, <2>1
<1>4. CASE ledger.pending /\ ~(told \/ LedgerStops(short)) /\ good
  <2> DEFINE p == ledger.position \/ ~(denied \/ ledger.exitDue)
  <2>1. x = [Cancelled EXCEPT !.position = p]
    BY <1>4 DEF Filled
  <2>2. p \in BOOLEAN
    OBVIOUS
  <2> HIDE DEF p
  <2>3. x \in Ledgers
    BY <2>1, <2>2, CancelledEases DEF Ledgers
  <2> QED
    BY <1>4, <2>3, StoppedStops
<1> QED
  BY <1>1, <1>2, <1>3, <1>4

\* What a worker, or a thread that outlived it, does to the ledger.
LEMMA OperationsEase ==
    ASSUME ledger \in Ledgers, NEW told \in BOOLEAN, EvaluateExits \/ FillOrders(told) \/ RecordOrder
    PROVE  ledger' \in Ledgers /\ (Stopped => Eases(ledger, ledger'))
<1>1. CASE EvaluateExits
  <2>1. PICK l \in {ledger, Cancelled}, good \in BOOLEAN, trigger \in BOOLEAN : ledger' = Exited(l, good, trigger)
    BY <1>1 DEF EvaluateExits
  <2>2. l \in Ledgers /\ Eases(ledger, l)
    BY CancelledEases DEF Eases
  <2>3. Exited(l, good, trigger) \in Ledgers /\ Eases(l, Exited(l, good, trigger))
    BY <2>2, ExitedEases
  <2> QED
    BY <2>1, <2>2, <2>3, EasesFurther
<1>2. CASE FillOrders(told)
  BY <1>2, FilledEases DEF FillOrders
<1>3. CASE RecordOrder
  BY <1>3, RecordedEases DEF RecordOrder
<1> QED
  BY <1>1, <1>2, <1>3
-----------------------------------------------------------------------------
(***************************************************************************)
(* Steps                                                                   *)
(***************************************************************************)
LEMMA Known ==
    ASSUME Inv
    PROVE  /\ clock \in 0..MaxClock /\ run \in Runs /\ row \in Rows /\ ledger \in Ledgers /\ quoter \in Quoters
           /\ counts \in Counts /\ main \in Phases
BY DEF Inv, TypeOK, Runs, Rows, Ledgers, Quoters, Counts

\* The workers' types.
WorkersTyped ==
    /\ quoter \in Quoters /\ (quoter.told => quoter.pc \in {"exits", "fill"})
    /\ protector \in {"off", "idle", "exits", "beat"}
    /\ eventer \in {"off", "idle", "recording", "done"}

\* The workers, as the invariant knows them.
LEMMA KnownWorkers ==
    ASSUME Inv
    PROVE  WorkersTyped
BY DEF Inv, TypeOK, WorkersTyped, Quoters

\* The rest of the types.
RestTyped ==
    /\ clock \in 0..MaxClock /\ run \in Runs /\ row \in Rows /\ ledger \in Ledgers /\ counts \in Counts
    /\ main \in Phases /\ seen \in BOOLEAN /\ summary \in {"none", "flat", "handoff", "unclosed"}
    /\ stopEvent \in BOOLEAN /\ reason \in BOOLEAN /\ sweeping \in BOOLEAN /\ swept \in BOOLEAN
    /\ late \subseteq {"record", "exits", "fill", "fill untold"}

\* The type invariant in two parts: the workers, and the rest.
LEMMA TypeParts ==
    TypeOK => WorkersTyped /\ RestTyped
BY DEF TypeOK, WorkersTyped, RestTyped, Quoters, Runs, Rows, Ledgers, Counts

\* Its parts after a step make the whole.
LEMMA PartsTyped ==
    WorkersTyped' /\ RestTyped' => TypeOK'
BY DEF TypeOK, WorkersTyped, RestTyped, Quoters, Runs, Rows, Ledgers, Counts

\* The places a worker rests at.
LEMMA RestingTyped ==
    /\ Resting \in Quoters /\ Resting.told = FALSE
    /\ \A t \in BOOLEAN : [pc |-> "exits", told |-> t] \in Quoters
BY DEF Resting, Quoters

\* A step that touches the ledger, the workers and their threads alone.
LEMMA LedgerStep ==
    ASSUME Inv, UNCHANGED <<clock, main, seen, summary, run, stopEvent, reason, row, counts>>,
           ledger' \in Ledgers, Stopped => Eases(ledger, ledger'),
           WorkersTyped',
           late' \subseteq {"record", "exits", "fill", "fill untold"}, main = "down" => late' = {},
           sweeping' \in BOOLEAN, swept' \in BOOLEAN,
           Up /\ (swept' \/ sweeping') => reason
    PROVE  Keeps
<1>1. TypeOK'
  <2>1. RestTyped
    BY TypeParts DEF Inv
  <2>2. RestTyped'
    BY <2>1 DEF RestTyped
  <2> QED
    BY <2>2, PartsTyped
<1>2. OwnRow' /\ EndsInOrder'
  BY DEF Inv, OwnRow, EndsInOrder
<1>3. HasReason'
  BY DEF Inv, HasReason, Up
<1>4. Up /\ (main = "close" \/ swept) => reason
  BY DEF Inv, HasReason
<1>5. main = "close" \/ row.status = "stopped" => Stopped
  BY <1>4 DEF Stopped, Up
<1>6. Reported'
  BY <1>5 DEF Inv, Reported, Eases
<1>7. SweepHolds /\ StopHolds
  BY <1>4 DEF SweepHolds, StopHolds, Stopped, Eases
<1> QED
  BY <1>1, <1>2, <1>3, <1>6, <1>7 DEF Keeps, Inv

\* A step that touches neither the ledger nor what is said of the run.
LEMMA PlainStep ==
    ASSUME Inv, UNCHANGED <<main, seen, summary, run, ledger, sweeping, counts>>,
           clock' \in 0..MaxClock, row' \in Rows,
           row'.startedAt = row.startedAt, row'.duration = row.duration, row'.status = row.status,
           stopEvent' \in BOOLEAN, stopEvent => stopEvent', reason' = reason, swept' = swept,
           WorkersTyped',
           late' = late
    PROVE  Keeps
<1>1. TypeOK'
  <2>1. RestTyped
    BY TypeParts DEF Inv
  <2>2. RestTyped'
    BY <2>1 DEF RestTyped
  <2> QED
    BY <2>2, PartsTyped
<1>2. OwnRow' /\ EndsInOrder' /\ HasReason' /\ Reported'
  BY DEF Inv, OwnRow, EndsInOrder, HasReason, Reported, Up
<1> QED
  BY <1>1, <1>2 DEF Keeps, Inv, SweepHolds, StopHolds

\* A start makes the row its own.
LEMMA StartKeeps ==
    ASSUME Inv, NEW d \in Durations, NEW set \in Settings, Start(d, set)
    PROVE  Keeps
<1>1. /\ main = "down" /\ main' = "waiting" /\ late = {} /\ late' = {} /\ summary' = "none" /\ seen' = FALSE
      /\ run' = [startedAt |-> clock, duration |-> d, set |-> set]
      /\ row' = [status |-> "running", asked |-> FALSE, startedAt |-> clock, duration |-> d]
      /\ stopEvent' = FALSE /\ reason' = FALSE /\ sweeping' = FALSE /\ swept' = FALSE
      /\ quoter' = [pc |-> "idle", told |-> FALSE] /\ protector' = "idle" /\ eventer' = "idle"
      /\ counts' = [counts EXCEPT !.runs = counts.runs + 1] /\ counts.runs < MaxRuns
      /\ UNCHANGED <<clock, ledger>>
  BY DEF Start, StartedRow, Resting
<1>2. counts' \in Counts
  BY <1>1, Known, Bounds DEF Counts
<1>3. TypeOK'
  BY <1>1, <1>2, Known DEF TypeOK, Counts, Phases, Ledgers
<1>4. OwnRow' /\ HasReason' /\ EndsInOrder' /\ Reported'
  BY <1>1 DEF OwnRow, HasReason, EndsInOrder, Reported
<1> QED
  BY <1>1, <1>3, <1>4 DEF Keeps, Inv, SweepHolds, StopHolds, Up

\* The ways a stop arrives.
LEMMA SignalKeeps ==
    ASSUME Inv, RequestStop \/ Signal \/ SignalSweeps
    PROVE  Keeps
<1>1. CASE RequestStop
  <2>1. row' \in Rows /\ row'.startedAt = row.startedAt /\ row'.duration = row.duration /\ row'.status = row.status
    BY <1>1, Known DEF RequestStop, Rows
  <2> QED
    <3>1. /\ UNCHANGED <<clock, main, seen, summary, run, ledger, sweeping, counts, stopEvent, reason, swept, late>>
          /\ UNCHANGED <<quoter, protector, eventer>>
      BY <1>1 DEF RequestStop, signals, workers, history
    <3>2. WorkersTyped' /\ stopEvent' \in BOOLEAN
      BY <3>1, KnownWorkers DEF WorkersTyped, Inv, TypeOK
    <3> QED
      BY <2>1, <3>1, <3>2, Known, PlainStep
<1>2. CASE Signal
  <2>1. row' \in Rows /\ row'.startedAt = row.startedAt /\ row'.duration = row.duration /\ row'.status = row.status
    BY <1>2, Known DEF Signal, Rows
  <2>2. /\ UNCHANGED <<clock, main, seen, summary, run, quoter, protector, eventer, late, ledger, swept, counts>>
        /\ reason' = TRUE /\ stopEvent' = TRUE /\ sweeping' = TRUE /\ Up
    BY <1>2 DEF Signal, workers, history
  <2>3. TypeOK'
    <3>1. reason' \in BOOLEAN /\ stopEvent' \in BOOLEAN /\ sweeping' \in BOOLEAN
      BY <2>2
    <3>2. WorkersTyped /\ RestTyped
      BY TypeParts DEF Inv
    <3>3. WorkersTyped'
      BY <2>2, <3>2 DEF WorkersTyped
    <3>4. RestTyped'
      BY <2>1, <2>2, <3>1, <3>2 DEF RestTyped
    <3> QED
      BY <3>3, <3>4 DEF TypeOK, WorkersTyped, RestTyped, Quoters, Runs, Rows, Ledgers, Counts
  <2>4. OwnRow' /\ HasReason' /\ EndsInOrder' /\ Reported'
    BY <2>1, <2>2 DEF Inv, OwnRow, HasReason, EndsInOrder, Reported
  <2> QED
    BY <2>1, <2>2, <2>3, <2>4 DEF Keeps, Inv, SweepHolds, StopHolds
<1>3. CASE SignalSweeps
  <2>1. /\ UNCHANGED <<clock, main, seen, summary, run, stopEvent, reason, row, counts, quoter, protector, eventer, late>>
        /\ ledger' = IF run.set.closes THEN ExitRequested(Cancelled) ELSE Cancelled
        /\ sweeping /\ sweeping' = FALSE /\ swept' = TRUE
    BY <1>3 DEF SignalSweeps, workers
  <2>2. ledger' \in Ledgers /\ Eases(ledger, ledger')
    BY <2>1, Known, CancelledEases, RequestedEases, EasesFurther
  <2>3. Up => reason
    BY <2>1 DEF Inv, HasReason
  <2>4. WorkersTyped' /\ late' \subseteq {"record", "exits", "fill", "fill untold"} /\ (main = "down" => late' = {})
    BY <2>1, KnownWorkers DEF WorkersTyped, Inv, TypeOK, EndsInOrder
  <2> QED
    BY <2>1, <2>2, <2>3, <2>4, LedgerStep
<1> QED
  BY <1>1, <1>2, <1>3

\* The recover command, after a run.
LEMMA RecoverKeeps ==
    ASSUME Inv, Recover
    PROVE  Keeps
<1>1. PICK short \in BOOLEAN, denied \in BOOLEAN, close \in BOOLEAN, good \in BOOLEAN, trigger \in BOOLEAN :
        LET recorded == RecordedOrder(short, denied)
            asked == IF close THEN ExitRequested(recorded) ELSE recorded
        IN  ledger' = Exited(asked, good, trigger)
  BY DEF Recover
<1>2. PICK recorded \in Ledgers : recorded = RecordedOrder(short, denied) /\ (Stopped => Eases(ledger, recorded))
  BY Known, RecordedEases
<1>3. PICK asked \in Ledgers : /\ asked = IF close THEN ExitRequested(recorded) ELSE recorded
                               /\ Eases(recorded, asked)
  BY RequestedEases DEF Eases
<1>4. ledger' = Exited(asked, good, trigger)
  BY <1>1, <1>2, <1>3
<1>5. ledger' \in Ledgers /\ Eases(asked, ledger')
  BY <1>4, ExitedEases
<1>6. Stopped => Eases(ledger, ledger')
  BY <1>2, <1>3, <1>5, Known, EasesFurther
<1>7. UNCHANGED <<clock, main, seen, summary, run, stopEvent, reason, row, counts, quoter, protector, eventer, late,
                  sweeping, swept>>
  BY DEF Recover, signals, workers, history
<1>8. WorkersTyped' /\ late' \subseteq {"record", "exits", "fill", "fill untold"} /\ (main = "down" => late' = {})
  BY <1>7, KnownWorkers DEF WorkersTyped, Inv, TypeOK, EndsInOrder
<1>9. sweeping' \in BOOLEAN /\ swept' \in BOOLEAN /\ (Up /\ (swept' \/ sweeping') => reason)
  BY <1>7 DEF Inv, TypeOK, HasReason
<1> QED
  BY <1>5, <1>6, <1>7, <1>8, <1>9, LedgerStep

\* Operations of the workers, and of the threads that outlived them.
LEMMA OperationKeeps ==
    ASSUME Inv, QuoteExits \/ QuoteFills \/ ProtectExits \/ EventRecords \/ LateFinishes
    PROVE  Keeps
<1>1. /\ UNCHANGED <<clock, main, seen, summary, run, stopEvent, reason, row, counts, sweeping, swept>>
      /\ late' \subseteq late
  BY DEF QuoteExits, QuoteFills, ProtectExits, EventRecords, LateFinishes, signals, history
<1>2. \E told \in BOOLEAN : EvaluateExits \/ FillOrders(told) \/ RecordOrder
  <2>1. CASE QuoteExits \/ ProtectExits \/ EventRecords
    BY <2>1 DEF QuoteExits, ProtectExits, EventRecords
  <2>2. CASE QuoteFills
    BY <2>2, Known DEF QuoteFills, Quoters
  <2>3. CASE LateFinishes
    <3>1. PICK op \in late : CASE op = "record" -> RecordOrder
                               [] op = "exits" -> EvaluateExits
                               [] op = "fill" -> FillOrders(TRUE)
                               [] op = "fill untold" -> FillOrders(FALSE)
      BY <2>3 DEF LateFinishes
    <3>2. op \in {"record", "exits", "fill", "fill untold"}
      BY DEF Inv, TypeOK
    <3> QED
      BY <3>1, <3>2
  <2> QED
    BY <2>1, <2>2, <2>3
<1>3. ledger' \in Ledgers /\ (Stopped => Eases(ledger, ledger'))
  BY <1>2, Known, OperationsEase
<1>4. WorkersTyped'
  <2>1. CASE QuoteExits
    <3>1. [quoter EXCEPT !.pc = "fill"] \in Quoters /\ [quoter EXCEPT !.pc = "fill"].pc = "fill"
      BY Known DEF Quoters
    <3> QED
      BY <2>1, <3>1, KnownWorkers DEF QuoteExits, WorkersTyped
  <2>2. CASE QuoteFills
    BY <2>2, KnownWorkers, RestingTyped DEF QuoteFills, AfterFill, WorkersTyped
  <2>3. CASE ProtectExits \/ EventRecords \/ LateFinishes
    BY <2>3, KnownWorkers DEF ProtectExits, EventRecords, LateFinishes, workers, WorkersTyped
  <2> QED
    BY <2>1, <2>2, <2>3
<1>5. late' \subseteq {"record", "exits", "fill", "fill untold"} /\ (main = "down" => late' = {})
  BY <1>1 DEF Inv, TypeOK, EndsInOrder
<1>6. sweeping' \in BOOLEAN /\ swept' \in BOOLEAN /\ (Up /\ (swept' \/ sweeping') => reason)
  BY <1>1 DEF Inv, TypeOK, HasReason
<1> QED
  BY <1>1, <1>3, <1>4, <1>5, <1>6, LedgerStep

\* A worker comes round, and looks at the row; the clock goes on.
LEMMA RoundKeeps ==
    ASSUME Inv, QuoteBegins \/ ProtectBegins \/ PollNews \/ EventBegins \/ Tick
    PROVE  Keeps
<1>1. /\ UNCHANGED <<main, seen, summary, run, ledger, sweeping, counts, row, reason, swept, late>>
      /\ stopEvent' \in {stopEvent, HeardRow}
  BY DEF QuoteBegins, ProtectBegins, PollNews, EventBegins, Tick, signals, history
<1>2. stopEvent' \in BOOLEAN /\ (stopEvent => stopEvent')
  <2>1. stopEvent \in BOOLEAN /\ HeardRow \in BOOLEAN /\ (stopEvent => HeardRow)
    BY DEF HeardRow, Inv, TypeOK
  <2> QED
    BY <1>1, <2>1
<1>3. clock' \in 0..MaxClock
  <2>1. CASE Tick
    BY <2>1, Known, Bounds DEF Tick
  <2>2. CASE QuoteBegins \/ ProtectBegins \/ PollNews \/ EventBegins
    BY <2>2, Known DEF QuoteBegins, ProtectBegins, PollNews, EventBegins
  <2> QED
    BY <2>1, <2>2
<1>4. WorkersTyped'
  <2>1. CASE QuoteBegins
    <3>1. reason \in BOOLEAN
      BY DEF Inv, TypeOK
    <3>2. quoter' = [pc |-> "exits", told |-> reason] /\ UNCHANGED <<protector, eventer>>
      BY <2>1 DEF QuoteBegins
    <3> QED
      BY <3>1, <3>2, KnownWorkers, RestingTyped DEF WorkersTyped
  <2>2. CASE ProtectBegins \/ PollNews \/ EventBegins \/ Tick
    BY <2>2, KnownWorkers DEF ProtectBegins, PollNews, EventBegins, Tick, workers, WorkersTyped
  <2> QED
    BY <2>1, <2>2
<1> QED
  BY <1>1, <1>2, <1>3, <1>4, Known, PlainStep

\* A heartbeat shows a run as running that waits, and no other.
LEMMA HeartbeatKeeps ==
    ASSUME Inv, Heartbeat
    PROVE  Keeps
<1>1. /\ UNCHANGED <<clock, main, seen, summary, run, stopEvent, reason, sweeping, quoter, eventer, late, ledger, swept, counts>>
      /\ protector' = "idle" /\ Up
      /\ row' = IF MayBeat /\ ~(row.asked \/ row.status \in {"stopping", "stopped"})
                THEN [row EXCEPT !.status = "running"] ELSE row
  BY DEF Heartbeat, LoopTurns, signals, history
<1>2. MayBeat => row.status = "running"
  BY <1>1 DEF Inv, HasReason, OwnRow, MayBeat
<1>3. row' \in Rows /\ row'.startedAt = row.startedAt /\ row'.duration = row.duration /\ row'.status = row.status
  BY <1>1, <1>2, Known DEF Rows
<1>4. WorkersTyped' /\ stopEvent' \in BOOLEAN
  BY <1>1, KnownWorkers DEF WorkersTyped, Inv, TypeOK
<1> QED
  BY <1>1, <1>3, <1>4, Known, PlainStep
-----------------------------------------------------------------------------
(***************************************************************************)
(* The shutdown                                                            *)
(***************************************************************************)
\* A step of the shutdown once the reason is set: the run goes on to another phase,
\* the ledger is eased, and what is reported at the end is known before it is shown.
LEMMA ShutdownStep ==
    ASSUME Inv, LoopTurns, main # "waiting", NEW next \in Phases \ {"down", "waiting"}, main' = next,
           UNCHANGED <<clock, run, stopEvent, reason, sweeping>>,
           seen' \in BOOLEAN, summary' \in {"none", "flat", "handoff", "unclosed"}, row' \in Rows,
           row'.status # "running" \/ row'.status = row.status, row'.status = "stopped" => next = "closing",
           WorkersTyped', late' \subseteq {"record", "exits", "fill", "fill untold"},
           ledger' \in Ledgers, Eases(ledger, ledger'), swept' \in BOOLEAN, counts' \in Counts,
           Reported'
    PROVE  Keeps
<1>1. reason /\ stopEvent /\ Up
  BY DEF Inv, HasReason, LoopTurns
<1>2. TypeOK'
  BY DEF Inv, TypeOK, Rows, WorkersTyped, Quoters, Ledgers, Counts
<1>3. OwnRow' /\ HasReason' /\ EndsInOrder'
  BY <1>1 DEF OwnRow, HasReason, EndsInOrder
<1>4. SweepHolds /\ StopHolds
  BY <1>1 DEF SweepHolds, StopHolds, Eases
<1> QED
  BY <1>2, <1>3, <1>4 DEF Keeps, Inv

\* What a shutdown knows.
LEMMA DownKnown ==
    ASSUME Inv, LoopTurns, main # "waiting"
    PROVE  /\ WorkersTyped /\ late \subseteq {"record", "exits", "fill", "fill untold"}
           /\ ledger \in Ledgers /\ Eases(ledger, ledger) /\ row \in Rows /\ counts \in Counts
           /\ seen \in BOOLEAN /\ swept \in BOOLEAN /\ summary \in {"none", "flat", "handoff", "unclosed"}
           /\ row.status = "stopped" => main = "closing"
           /\ run.set.handoff \in BOOLEAN /\ reason /\ stopEvent
<1>1. run \in Runs
  BY Known
<1>2. run.set.handoff \in BOOLEAN
  BY <1>1, RunnerAssumption DEF Runs
<1> QED
  BY <1>2, Known, KnownWorkers DEF Inv, TypeOK, Eases, EndsInOrder, HasReason, LoopTurns, Up

\* A run that begins to shut down has its reason set.
LEMMA BeginShutdownKeeps ==
    ASSUME Inv, BeginShutdown
    PROVE  Keeps
<1>1. /\ LoopTurns /\ main = "waiting" /\ main' = "sweep" /\ reason' = TRUE /\ stopEvent' = TRUE
      /\ row' = [row EXCEPT !.status = "stopping"] /\ eventer' = "done"
      /\ late' = IF eventer = "recording" THEN late \cup {"record"} ELSE late
      /\ UNCHANGED <<clock, seen, summary, run, sweeping, quoter, protector, ledger, swept, counts>>
  BY DEF BeginShutdown, history
<1>2. row' \in Rows /\ row'.status = "stopping"
  BY <1>1, Known DEF Rows
<1>3. TypeOK'
  <2>1. reason' \in BOOLEAN /\ stopEvent' \in BOOLEAN /\ main' \in Phases
    BY <1>1 DEF Phases
  <2>2. WorkersTyped /\ RestTyped
    BY TypeParts DEF Inv
  <2>3. WorkersTyped'
    BY <1>1, <2>2 DEF WorkersTyped
  <2>4. RestTyped'
    BY <1>1, <1>2, <2>1, <2>2 DEF RestTyped
  <2> QED
    BY <2>3, <2>4 DEF TypeOK, WorkersTyped, RestTyped, Quoters, Runs, Rows, Ledgers, Counts
<1>4. OwnRow' /\ HasReason' /\ EndsInOrder' /\ Reported'
  BY <1>1, <1>2 DEF OwnRow, HasReason, EndsInOrder, Reported
<1>5. SweepHolds /\ StopHolds
  BY <1>1, <1>2 DEF SweepHolds, StopHolds
<1> QED
  BY <1>3, <1>4, <1>5 DEF Keeps, Inv

\* Orders are cancelled and exits evaluated.
LEMMA SweepKeeps ==
    ASSUME Inv, SweepOrders \/ PassOver
    PROVE  Keeps
<1>1. /\ LoopTurns /\ main \in {"sweep", "pass", "drain"} /\ main' \in {"pass", "drain", "decide"}
      /\ UNCHANGED <<clock, run, stopEvent, reason, sweeping, summary, row, quoter, protector, eventer, late, counts>>
      /\ swept' \in {swept, TRUE}
  BY DEF SweepOrders, PassOver, signals, workers, history
<1>2. ledger' \in Ledgers /\ Eases(ledger, ledger')
  <2>1. CASE SweepOrders
    BY <2>1, Known, CancelledEases, RequestedEases, EasesFurther DEF SweepOrders
  <2>2. CASE PassOver
    <3>1. PICK good \in BOOLEAN, trigger \in BOOLEAN : ledger' = Exited(Cancelled, good, trigger)
      BY <2>2 DEF PassOver
    <3> QED
      BY <3>1, Known, CancelledEases, ExitedEases, EasesFurther
  <2> QED
    BY <2>1, <2>2
<1>3. seen' \in BOOLEAN
  <2>1. ledger'.position \in BOOLEAN /\ seen \in BOOLEAN
    BY <1>2 DEF Ledgers, Inv, TypeOK
  <2> QED
    BY <2>1 DEF SweepOrders, PassOver
<1>4. Reported' /\ main' \in Phases \ {"down", "waiting"} /\ row.status # "stopped" /\ swept' \in BOOLEAN
  BY <1>1 DEF Inv, EndsInOrder, Reported, Phases, TypeOK
<1>5. WorkersTyped' /\ late' \subseteq {"record", "exits", "fill", "fill untold"} /\ row' \in Rows /\ counts' \in Counts
      /\ summary' \in {"none", "flat", "handoff", "unclosed"} /\ main # "waiting"
  BY <1>1, DownKnown DEF WorkersTyped
<1> QED
  BY <1>1, <1>2, <1>3, <1>4, <1>5, ShutdownStep

\* The drain is decided on and ends, and the workers with it.
LEMMA DrainKeeps ==
    ASSUME Inv, DecideDrain \/ DrainEnds \/ EndWorkers
    PROVE  Keeps
<1>1. /\ LoopTurns /\ main \in {"decide", "drain", "ending"} /\ main' \in {"drain", "ending", "account"}
      /\ UNCHANGED <<clock, run, stopEvent, reason, sweeping, summary, seen, eventer, counts, swept, ledger>>
      /\ row' \in {row, [row EXCEPT !.status = "draining"]} /\ main # "waiting"
  BY DEF DecideDrain, DrainEnds, EndWorkers, signals, workers, history
<1>2. /\ late' \subseteq {"record", "exits", "fill", "fill untold"} /\ WorkersTyped'
  <2>1. CASE EndWorkers
    <3>1. InFlight \subseteq {"record", "exits", "fill", "fill untold"}
      BY DEF InFlight
    <3>2. [Resting EXCEPT !.pc = "off"] \in Quoters /\ [Resting EXCEPT !.pc = "off"].told = FALSE
      BY DEF Resting, Quoters
    <3> QED
      BY <1>1, <2>1, <3>1, <3>2, DownKnown DEF EndWorkers, WorkersTyped
  <2>2. CASE DecideDrain \/ DrainEnds
    BY <1>1, <2>2, DownKnown DEF DecideDrain, DrainEnds, WorkersTyped, workers
  <2> QED
    BY <2>1, <2>2
<1>3. row' \in Rows /\ row'.status # "stopped" /\ (row'.status # "running" \/ row'.status = row.status)
  BY <1>1, DownKnown DEF Rows
<1>4. Reported' /\ main' \in Phases \ {"down", "waiting"}
  BY <1>1, <1>3 DEF Reported, Phases
<1> QED
  BY <1>1, <1>2, <1>3, <1>4, DownKnown, ShutdownStep

\* The run says how it ended, marks what is open, and ends.
LEMMA CloseKeeps ==
    ASSUME Inv, Account \/ MarkUnclosed \/ Close
    PROVE  Keeps
<1>1. /\ LoopTurns /\ main \in {"account", "mark", "close"} /\ main # "waiting"
      /\ UNCHANGED <<clock, run, stopEvent, reason, sweeping, quoter, protector, eventer, late, counts, swept>>
  BY DEF Account, MarkUnclosed, Close, signals, workers, history
<1>2. /\ WorkersTyped' /\ late' \subseteq {"record", "exits", "fill", "fill untold"} /\ counts' \in Counts
      /\ swept' \in BOOLEAN
  BY <1>1, DownKnown DEF WorkersTyped
<1>3. CASE Account
  <2>1. /\ seen' = ledger.position /\ UNCHANGED <<row, ledger>>
        /\ summary' = CASE ~Unclosed -> "flat" [] Unclosed /\ run.set.handoff -> "handoff"
                         [] OTHER -> "unclosed"
        /\ main' = IF Unclosed /\ ~run.set.handoff THEN "mark" ELSE "close"
    BY <1>3 DEF Account
  <2>2. Unclosed \in BOOLEAN /\ Unclosed = ledger.position /\ ledger.position \in BOOLEAN /\ row.status # "stopped"
    BY <1>1, <1>3, DownKnown DEF Unclosed, Ledgers, Account
  <2>3. \/ ~Unclosed /\ summary' = "flat" /\ main' = "close"
        \/ Unclosed /\ run.set.handoff /\ summary' = "handoff" /\ main' = "close"
        \/ Unclosed /\ ~run.set.handoff /\ summary' = "unclosed" /\ main' = "mark"
    BY <2>1
  <2>4. Reported'
    BY <1>1, <2>1, <2>2, <2>3 DEF Reported
  <2>5. main' \in Phases \ {"down", "waiting"} /\ summary' \in {"none", "flat", "handoff", "unclosed"}
        /\ seen' \in BOOLEAN
    BY <2>1, <2>2, <2>3 DEF Phases
  <2> QED
    BY <1>1, <1>2, <2>1, <2>2, <2>4, <2>5, DownKnown, ShutdownStep
<1>4. CASE MarkUnclosed
  <2>1. main = "mark" /\ main' = "close" /\ ledger' = Marked /\ UNCHANGED <<seen, summary, row>>
    BY <1>4 DEF MarkUnclosed
  <2>2. ledger' \in Ledgers /\ Eases(ledger, ledger') /\ (ledger'.position => ledger'.exitDue)
    BY <2>1, Known DEF Marked, Ledgers, Eases
  <2>3. summary # "flat" /\ row.status # "stopped"
    BY <1>1, <2>1, DownKnown DEF Inv, Reported
  <2>4. Reported' /\ main' \in Phases \ {"down", "waiting"}
    BY <2>1, <2>2, <2>3 DEF Reported, Phases
  <2> QED
    BY <1>1, <1>2, <2>1, <2>2, <2>3, <2>4, DownKnown, ShutdownStep
<1>5. CASE Close
  <2>1. main = "close" /\ main' = "closing" /\ row' = [row EXCEPT !.status = "stopped"]
        /\ UNCHANGED <<seen, summary, ledger>>
    BY <1>5 DEF Close
  <2>2. row' \in Rows /\ row'.status = "stopped"
    BY <2>1, Known DEF Rows
  <2>3. Reported' /\ main' \in Phases \ {"down", "waiting"}
    BY <1>1, <2>1 DEF Inv, Reported, Phases
  <2> QED
    BY <1>1, <1>2, <2>1, <2>2, <2>3, DownKnown, ShutdownStep
<1> QED
  BY <1>3, <1>4, <1>5

\* The run ends, in order, by an exception, or killed.
LEMMA EndKeeps ==
    ASSUME Inv, Leave \/ ShutdownFails \/ Crash
    PROVE  Keeps
<1>1. CASE Leave
  <2>1. /\ main = "closing" /\ main' = "down" /\ late = {} /\ LoopTurns
        /\ UNCHANGED <<clock, seen, summary, run, stopEvent, reason, sweeping, row, quoter, protector, eventer, late,
                       ledger, swept, counts>>
    BY <1>1 DEF Leave, signals, workers, history
  <2>2. TypeOK'
    BY <2>1 DEF Inv, TypeOK, Phases
  <2>3. OwnRow' /\ HasReason' /\ EndsInOrder' /\ Reported'
    BY <2>1 DEF Inv, OwnRow, HasReason, EndsInOrder, Reported, Up
  <2> QED
    BY <2>1, <2>2, <2>3 DEF Keeps, Inv, SweepHolds, StopHolds
<1>2. CASE ShutdownFails
  <2>1. /\ LoopTurns /\ main \in {"sweep", "pass", "drain", "account", "mark"} /\ main' = "closing" /\ main # "waiting"
        /\ counts.faults < MaxFaults /\ counts' = [counts EXCEPT !.faults = counts.faults + 1]
        /\ late' = late \cup InFlight /\ quoter' = Gone /\ protector' = "off"
        /\ UNCHANGED <<clock, seen, summary, run, stopEvent, reason, sweeping, row, eventer, ledger, swept>>
    BY <1>2 DEF ShutdownFails, signals
  <2>2. counts' \in Counts
    BY <2>1, Known, Bounds DEF Counts
  <2>3. /\ late' \subseteq {"record", "exits", "fill", "fill untold"} /\ WorkersTyped'
    <3>1. InFlight \subseteq {"record", "exits", "fill", "fill untold"}
      BY DEF InFlight
    <3>2. Gone \in Quoters /\ Gone.told = FALSE
      BY DEF Gone, Resting, Quoters
    <3> QED
      BY <2>1, <3>1, <3>2, DownKnown DEF WorkersTyped
  <2>4. row.status # "stopped" /\ Reported' /\ main' \in Phases \ {"down", "waiting"}
    BY <2>1, DownKnown DEF Reported, Phases
  <2> QED
    BY <2>1, <2>2, <2>3, <2>4, DownKnown, ShutdownStep
<1>3. CASE Crash
  <2>1. /\ Up /\ main' = "down" /\ late' = {} /\ quoter' = Gone /\ protector' = "off" /\ eventer' = "off"
        /\ sweeping' = FALSE
        /\ UNCHANGED <<clock, seen, summary, run, stopEvent, reason, row, ledger, swept, counts>>
    BY <1>3 DEF Crash, history
  <2>2. TypeOK'
    <3>1. Gone \in Quoters /\ Gone.told = FALSE
      BY DEF Gone, Resting, Quoters
    <3>2. main' \in Phases /\ sweeping' \in BOOLEAN
      BY <2>1 DEF Phases
    <3>3. WorkersTyped /\ RestTyped
      BY TypeParts DEF Inv
    <3>4. WorkersTyped'
      BY <2>1, <3>1 DEF WorkersTyped
    <3>5. RestTyped'
      BY <2>1, <3>2, <3>3 DEF RestTyped
    <3> QED
      BY <3>4, <3>5 DEF TypeOK, WorkersTyped, RestTyped, Quoters, Runs, Rows, Ledgers, Counts
  <2>3. OwnRow' /\ HasReason' /\ EndsInOrder' /\ Reported'
    BY <2>1 DEF Inv, OwnRow, HasReason, EndsInOrder, Reported, Up
  <2> QED
    BY <2>1, <2>2, <2>3 DEF Keeps, Inv, SweepHolds, StopHolds
<1> QED
  BY <1>1, <1>2, <1>3
-----------------------------------------------------------------------------
(***************************************************************************)
(* The runner                                                              *)
(***************************************************************************)
LEMMA InvInit ==
    Init => Inv
<1> SUFFICES ASSUME Init PROVE Inv
  OBVIOUS
<1>1. PICK set \in Settings : run = [startedAt |-> 0, duration |-> Forever, set |-> set]
  BY DEF Init
<1>2. /\ clock = 0 /\ main = "down" /\ seen = FALSE /\ summary = "none" /\ stopEvent = FALSE /\ reason = FALSE
      /\ sweeping = FALSE /\ row = [status |-> "idle", asked |-> FALSE, startedAt |-> 0, duration |-> Forever]
      /\ quoter = [pc |-> "idle", told |-> FALSE] /\ protector = "off" /\ eventer = "off" /\ late = {}
      /\ ledger = [position |-> FALSE, pending |-> FALSE, exitDue |-> FALSE]
      /\ swept = FALSE /\ counts = [runs |-> 0, faults |-> 0]
  BY DEF Init, Resting
<1>3. counts \in Counts /\ run \in Runs /\ row \in Rows
  BY <1>1, <1>2, Bounds DEF Counts, Runs, Rows
<1>4. TypeOK
  BY <1>2, <1>3, Bounds DEF TypeOK, Phases, Counts, Runs, Rows
<1>5. OwnRow /\ HasReason /\ EndsInOrder /\ Reported
  BY <1>2 DEF OwnRow, HasReason, EndsInOrder, Reported, Up
<1> QED
  BY <1>4, <1>5 DEF Inv

\* Every step keeps the invariant.
LEMMA InvNext ==
    Inv /\ [Next]_vars => Keeps
<1> SUFFICES ASSUME Inv, [Next]_vars PROVE Keeps
  OBVIOUS
<1>1. ASSUME NEW d \in Durations, NEW set \in Settings, Start(d, set) PROVE Keeps
  BY <1>1, StartKeeps
<1>2. CASE RequestStop \/ Signal \/ SignalSweeps
  BY <1>2, SignalKeeps
<1>3. CASE Recover
  BY <1>3, RecoverKeeps
<1>4. CASE QuoteExits \/ QuoteFills \/ ProtectExits \/ EventRecords \/ LateFinishes
  BY <1>4, OperationKeeps
<1>5. CASE QuoteBegins \/ ProtectBegins \/ PollNews \/ EventBegins \/ Tick
  BY <1>5, RoundKeeps
<1>6. CASE Heartbeat
  BY <1>6, HeartbeatKeeps
<1>7. CASE Shutdown \/ ShutdownFails \/ Crash
  BY <1>7, BeginShutdownKeeps, SweepKeeps, DrainKeeps, CloseKeeps, EndKeeps DEF Shutdown
<1>8. CASE UNCHANGED vars
  <2>1. /\ UNCHANGED <<clock, main, seen, summary, run, stopEvent, reason, row, counts, sweeping, swept, ledger,
                       quoter, protector, eventer, late>>
    BY <1>8 DEF vars, signals, workers, history
  <2>2. WorkersTyped' /\ row \in Rows /\ clock \in 0..MaxClock /\ stopEvent \in BOOLEAN
    BY <2>1, Known, KnownWorkers DEF WorkersTyped, Inv, TypeOK
  <2> QED
    BY <2>1, <2>2, PlainStep
<1> QED
  BY <1>1, <1>2, <1>3, <1>4, <1>5, <1>6, <1>7, <1>8 DEF Next, Quoting, Protecting, Events

\* The invariant holds always.
LEMMA InvAlways ==
    Spec => []Inv
<1>1. Inv /\ [Next]_vars => Inv'
  BY InvNext DEF Keeps
<1> QED
  BY InvInit, <1>1, PTL DEF Spec

\* RunsAreAccountedFor: the row is the run's own while it waits, so that neither an earlier
\* run's duration nor an old request stops the ledger; and a run that ended in order leaves
\* no position without a due exit, unless it was handed over, nor reports one as closed that
\* is open (run and its shutdown summary, _active_stop_reason_locked; runtime.py, execution.py).
THEOREM RunsStayAccountedFor ==
    Spec => []RunsAreAccountedFor
<1>1. Inv => RunsAreAccountedFor
  <2> SUFFICES ASSUME Inv PROVE RunsAreAccountedFor
    OBVIOUS
  <2>1. RowIsOfThisRun
    BY DEF Inv, OwnRow, RowIsOfThisRun, RowStops, Over
  <2>2. OpenRiskIsMarked
    BY DEF Inv, Reported, OpenRiskIsMarked
  <2> QED
    BY <2>1, <2>2 DEF Inv, RunsAreAccountedFor
<1> QED
  BY InvAlways, <1>1, PTL

\* StopIsFinal: once the orders have been cancelled for a stop, no worker, late thread or
\* draining row lets an order or a position come to be for the rest of the run; and only a
\* new run shows the row as running again.
THEOREM StopStaysFinal ==
    Spec => StopIsFinal
<1> DEFINE Swept == swept /\ Up =>
                       /\ ledger'.pending => ledger.pending
                       /\ ledger'.position => ledger.position
           RowKept == row'.status = "running" => row.status = "running" \/ main = "down"
<1>1. Inv /\ [Next]_vars => Swept /\ RowKept
  BY InvNext DEF Keeps, SweepHolds, StopHolds
<1> HIDE DEF Swept, RowKept
<1>2. Spec => [][Swept]_vars /\ [][RowKept]_vars
  BY InvAlways, <1>1, PTL DEF Spec
<1> QED
  BY <1>2 DEF StopIsFinal, SweepIsFinal, StopIsNotUndone, Swept, RowKept
-----------------------------------------------------------------------------
(***************************************************************************)
(* The files of the bridge                                                 *)
(***************************************************************************)
Lines == [kind : {"start", "quote", "stop", "garbled"}, at : Nat, n : Nat]
FeedRows == [session : Nat, seq : Nat, source : Nat, bridge : Nat, received : Nat, available : Nat]
FeedStores == [sessions : Seq([id : Nat, at : Nat, stop : Seq(Nat)]), rows : SUBSET FeedRows]
Positions == [offset : Nat, garbled : BOOLEAN]
SayN(line) == line.kind = "quote" => line.n \in 1 .. MaxQuotes

\* The files: a run with lines has begun, the one that goes on and the one whose last
\* line is half written began last.
FilesFit ==
    /\ now \in 1 .. MaxTime /\ starts \in 0 .. MaxStarts /\ failures \in 0 .. MaxFailures
    /\ file \in [BridgeRuns -> Seq(Lines)] /\ written \in Seq(BridgeRuns)
    /\ \A m, n \in DOMAIN written : written[m] = written[n] => m = n
    /\ \A r \in BridgeRuns : file[r] # <<>> => r \in Files
    /\ bridge \subseteq Files /\ \A r \in bridge : r = Last(written)
    /\ torn \subseteq [run : BridgeRuns, line : Lines]
    /\ \A t \in torn : t.run \in Files /\ t.run = Last(written) /\ torn = {t}

\* Lines are written as time goes on, within a file and from one run to the next.
LinesFit ==
    /\ \A r \in BridgeRuns : \A i \in DOMAIN file[r] : file[r][i].at <= now /\ SayN(file[r][i])
    /\ \A r \in BridgeRuns : \A i, j \in DOMAIN file[r] : i <= j => file[r][i].at <= file[r][j].at
    /\ \A q, r \in BridgeRuns : BeganAfter(r, q) =>
          \A i \in DOMAIN file[q], j \in DOMAIN file[r] : file[q][i].at <= file[r][j].at
    /\ \A t \in torn :
          /\ t.line.at <= now /\ SayN(t.line)
          /\ \A r \in BridgeRuns : \A i \in DOMAIN file[r] : file[r][i].at <= t.line.at

\* A row says what a line of its session's file says.
RowFits(q) ==
    /\ q \in FeedRows /\ q.session \in Ids(store) /\ q.seq \in 1 .. MaxQuotes
    /\ q.received <= now /\ q.available <= now
    /\ \E i \in DOMAIN file[q.session] : q.source = file[q.session][i].at

StoreShape ==
    /\ store \in FeedStores
    /\ Ids(store) \subseteq Files
    /\ \A q \in store.rows : RowFits(q)

TailFits ==
    /\ tail \in [up : BOOLEAN, since : Nat, ignored : SUBSET BridgeRuns, files : {tail.files},
                 session : SUBSET BridgeRuns, stopped : BOOLEAN, todo : SUBSET BridgeRuns,
                 chunk : [run : Nat, lines : Seq(Lines)], storing : SUBSET FeedRows]
    /\ tail.since <= now /\ tail.files \in [Followed -> Positions]
    /\ Followed \subseteq Files /\ IsFiniteSet(Followed) /\ Cardinality(Followed) <= MaxFiles
    /\ tail.ignored \subseteq Files /\ tail.todo \subseteq Files
    /\ tail.session \subseteq Followed \cap Ids(store)
    /\ \A r \in tail.session : tail.session = {r}
    /\ \A r \in Followed : tail.files[r].offset <= Complete(r)

\* The chunk holds lines of its file in their order, all of them before what is unread.
ChunkFits ==
    Pending =>
      LET lines == tail.chunk.lines
      IN  /\ Run \in Followed /\ Len(lines) <= Complete(Run)
          /\ \A k \in DOMAIN lines :
                /\ SayN(lines[k])
                /\ \E i \in 1 .. tail.files[Run].offset : lines[k].at = file[Run][i].at
          /\ \A k, l \in DOMAIN lines : k <= l => lines[k].at <= lines[l].at

\* What is still to come of the session that is followed was written since the runner
\* watches, but for the end of a line whose beginning was there already.
SinceFits ==
    \A r \in tail.session :
      LET f == tail.files[r]
      IN  /\ Pending /\ Run = r =>
                \A k \in DOMAIN tail.chunk.lines :
                    tail.chunk.lines[k].kind = "garbled" \/ tail.since <= tail.chunk.lines[k].at
          /\ \A i \in DOMAIN file[r] : i > f.offset =>
                (f.garbled /\ i = f.offset + 1) \/ tail.since <= file[r][i].at
          /\ \A t \in torn : t.run = r =>
                (f.garbled /\ f.offset = Complete(r)) \/ tail.since <= t.line.at

\* The row that is being recorded is the line at hand.
StoringFits ==
    \A q \in tail.storing :
      /\ tail.storing = {q} /\ Pending /\ q \in store.rows /\ Unpublished(q)
      /\ tail.since <= q.bridge

\* If runs were taken up in order, no row is newer than what is still
\* to come of the session.
OrderFits ==
    TakenUpInOrder =>
      \A q \in store.rows :
        /\ \A p \in tail.storing : q.source <= p.source
        /\ \A r \in tail.session :
              /\ Pending /\ Run = r =>
                    \A k \in DOMAIN tail.chunk.lines : q.source <= tail.chunk.lines[k].at
              /\ \A i \in DOMAIN file[r] : i > tail.files[r].offset => q.source <= file[r][i].at
              /\ \A t \in torn : t.run = r => q.source <= t.line.at

FeedInv ==
    /\ FilesFit /\ LinesFit /\ StoreShape /\ TailFits /\ ChunkFits /\ SinceFits
    /\ StoringFits /\ OrderFits
-----------------------------------------------------------------------------
\* The bounds, as numbers.
LEMMA FeedBounds ==
    /\ BridgeRuns \subseteq Nat /\ MaxFiles \in Nat \ {0} /\ MaxTime \in Nat \ {0}
    /\ StartAge \in Nat /\ QuoteAge \in Nat /\ MaxQuotes \in Nat
    /\ MaxStarts \in Nat /\ MaxFailures \in Nat
BY FeedAssumption

\* A set of numbers has a smallest one.
LEMMA MinIs ==
    ASSUME NEW S \in SUBSET Nat, S # {}
    PROVE  Min(S) \in S
<1>1. PICK x \in S : \A y \in S : ~(<<y, x>> \in OpToRel(<, Nat))
  BY NatLessThanWellFounded, WFMin
<1>2. ASSUME NEW y \in S PROVE x <= y
  <2>1. x \in Nat /\ y \in Nat
    OBVIOUS
  <2>2. ~(y < x)
    BY <1>1, <2>1 DEF OpToRel
  <2> QED
    BY <2>1, <2>2
<1>3. \E m \in S : \A y \in S : m <= y
  BY <1>2
<1> QED
  BY <1>3 DEF Min

\* The files, as sets and sequences.
LEMMA FilesAre ==
    ASSUME FilesFit
    PROVE  /\ now \in Nat \ {0} /\ Files \subseteq BridgeRuns
           /\ \A r \in BridgeRuns :
                 /\ file[r] \in Seq(Lines) /\ Len(file[r]) \in Nat
                 /\ DOMAIN file[r] = 1 .. Len(file[r])
                 /\ \A i \in DOMAIN file[r] : file[r][i] \in Lines
           /\ written # <<>> => Last(written) \in Files
           /\ Files = {written[n] : n \in DOMAIN written}
           /\ Len(written) \in Nat /\ DOMAIN written = 1 .. Len(written)
           /\ Last(written) = written[Len(written)]
           /\ \A q, r \in Files : q # r => BeganAfter(r, q) \/ BeganAfter(q, r)
           /\ \A q : ~BeganAfter(q, q)
           /\ \A q, r : BeganAfter(r, q) => q \in Files /\ r \in Files
           /\ \A q : q # Last(written) \/ \A r : ~BeganAfter(r, q)
<1>1. now \in Nat \ {0}
  BY FeedBounds DEF FilesFit
<1>2. written \in Seq(BridgeRuns)
  BY DEF FilesFit
<1>3. Files = {written[n] : n \in DOMAIN written}
  BY DEF Files, ToSet
<1>4. Len(written) \in Nat /\ DOMAIN written = 1 .. Len(written) /\ Last(written) = written[Len(written)]
  BY <1>2 DEF Last
<1>5. Files \subseteq BridgeRuns
  BY <1>2, <1>3
<1>6. written # <<>> => Last(written) \in Files
  BY <1>2, <1>3, <1>4
<1>7. \A r \in BridgeRuns :
        /\ file[r] \in Seq(Lines) /\ Len(file[r]) \in Nat
        /\ DOMAIN file[r] = 1 .. Len(file[r])
        /\ \A i \in DOMAIN file[r] : file[r][i] \in Lines
  BY DEF FilesFit
<1>8. \A m, n \in DOMAIN written : written[m] = written[n] => m = n
  BY DEF FilesFit
<1>9. ASSUME NEW q \in Files, NEW r \in Files, q # r PROVE BeganAfter(r, q) \/ BeganAfter(q, r)
  <2>1. PICK m \in DOMAIN written : written[m] = q
    BY <1>3
  <2>2. PICK n \in DOMAIN written : written[n] = r
    BY <1>3
  <2>3. m < n \/ n < m
    BY <2>1, <2>2, <1>4, <1>9
  <2> QED
    BY <2>1, <2>2, <2>3 DEF BeganAfter
<1>10. \A q : ~BeganAfter(q, q)
  BY <1>4, <1>8 DEF BeganAfter
<1>11. \A q, r : BeganAfter(r, q) => q \in Files /\ r \in Files
  BY <1>3 DEF BeganAfter
<1>12. ASSUME NEW q, q = Last(written), NEW r PROVE ~BeganAfter(r, q)
  <2>1. SUFFICES ASSUME NEW m \in DOMAIN written, NEW n \in DOMAIN written, m < n, written[m] = q
                 PROVE  FALSE
    BY DEF BeganAfter
  <2>2. written[Len(written)] = q /\ Len(written) \in DOMAIN written
    BY <1>4, <1>12, <2>1
  <2>3. m = Len(written)
    BY <1>8, <2>1, <2>2
  <2> QED
    BY <1>4, <2>1, <2>3
<1> QED
  BY <1>1, <1>3, <1>4, <1>5, <1>6, <1>7, <1>9, <1>10, <1>11, <1>12
-----------------------------------------------------------------------------
(***************************************************************************)
(* The bridge writes                                                       *)
(***************************************************************************)
\* What a step of the bridge does to the files: a line that was half written ends, or one
\* of this moment begins.
FilesGrow ==
    /\ now' = now /\ Files \subseteq Files'
    /\ \A r \in BridgeRuns :
          /\ Len(file[r]) <= Len(file'[r])
          /\ \A i \in DOMAIN file[r] : file'[r][i] = file[r][i]
          /\ \A i \in DOMAIN file'[r] : i > Len(file[r]) =>
                /\ i = Len(file[r]) + 1
                /\ \/ file'[r][i].at = now
                   \/ \E t \in torn : t.run = r /\ file'[r][i].at = t.line.at
    /\ \A t \in torn' : t.line.at = now
    /\ \A q, r : BeganAfter(r, q) => BeganAfter(r, q)'

\* A whole line at the end of the run written last, after every line there is.
LEMMA LineAdded ==
    ASSUME FilesFit, LinesFit, NEW r \in Files, r = Last(written), NEW line \in Lines,
           SayN(line), line.at <= now,
           \A q \in BridgeRuns : \A i \in DOMAIN file[q] : file[q][i].at <= line.at,
           line.at = now \/ \E t \in torn : t.run = r /\ line.at = t.line.at,
           file' = [file EXCEPT ![r] = Append(@, line)],
           bridge' \subseteq bridge, torn' = {}, UNCHANGED <<now, written, starts>>,
           failures' \in 0 .. MaxFailures
    PROVE  FilesFit' /\ LinesFit' /\ FilesGrow
<1>1. /\ now \in Nat /\ Files \subseteq BridgeRuns
      /\ \A q \in BridgeRuns : /\ file[q] \in Seq(Lines) /\ Len(file[q]) \in Nat
                              /\ DOMAIN file[q] = 1 .. Len(file[q])
                              /\ \A i \in DOMAIN file[q] : file[q][i] \in Lines
  BY FilesAre
<1>2. Files' = Files /\ \A p, q : BeganAfter(p, q)' <=> BeganAfter(p, q)
  BY DEF Files, BeganAfter
<1>3. /\ file' \in [BridgeRuns -> Seq(Lines)] /\ r \in BridgeRuns
      /\ \A q \in BridgeRuns : q # r => file'[q] = file[q]
      /\ file'[r] = Append(file[r], line)
  <2>1. file \in [BridgeRuns -> Seq(Lines)]
    BY DEF FilesFit
  <2> QED
    BY <1>1, <2>1
<1>4. /\ Len(file'[r]) = Len(file[r]) + 1 /\ DOMAIN file'[r] = 1 .. (Len(file[r]) + 1)
      /\ file'[r][Len(file[r]) + 1] = line
      /\ \A i \in DOMAIN file[r] : file'[r][i] = file[r][i]
  BY <1>1, <1>3
<1>5. \A i \in DOMAIN file'[r] : i \in DOMAIN file[r] \/ (i = Len(file[r]) + 1 /\ file'[r][i] = line)
  BY <1>1, <1>4
<1>6. FilesFit'
  BY <1>2, <1>3 DEF FilesFit
<1>7. FilesGrow
  BY <1>1, <1>2, <1>3, <1>4, <1>5 DEF FilesGrow
<1>8. \A q \in BridgeRuns : \A i \in DOMAIN file'[q] : file'[q][i].at <= now' /\ SayN(file'[q][i])
  BY <1>3, <1>4, <1>5 DEF LinesFit
<1>9. \A q \in BridgeRuns : \A i, j \in DOMAIN file'[q] : i <= j => file'[q][i].at <= file'[q][j].at
  <2>1. SUFFICES ASSUME NEW i \in DOMAIN file'[r], NEW j \in DOMAIN file'[r], i <= j
                 PROVE  file'[r][i].at <= file'[r][j].at
    BY <1>3 DEF LinesFit
  <2>2. CASE j \in DOMAIN file[r]
    <3>1. i \in DOMAIN file[r]
      BY <1>1, <1>4, <2>1, <2>2
    <3> QED
      BY <1>1, <1>4, <2>1, <2>2, <3>1 DEF LinesFit
  <2>3. CASE file'[r][j] = line
    <3>1. file'[r][i].at = line.at \/ file'[r][i].at <= line.at
      BY <1>3, <1>4, <1>5
    <3>2. line.at \in Nat
      BY DEF Lines
    <3> QED
      BY <2>3, <3>1, <3>2
  <2> QED
    BY <1>5, <2>2, <2>3
<1>10. ASSUME NEW p \in BridgeRuns, NEW q \in BridgeRuns, BeganAfter(q, p),
              NEW i \in DOMAIN file'[p], NEW j \in DOMAIN file'[q]
       PROVE  file'[p][i].at <= file'[q][j].at
  <2>1. p # r /\ file'[p] = file[p]
    BY <1>3, <1>10, FilesAre
  <2>2. CASE q # r \/ j \in DOMAIN file[q]
    <3>1. file'[q][j] = file[q][j] /\ j \in DOMAIN file[q]
      BY <1>3, <1>4, <2>2
    <3> QED
      BY <2>1, <3>1, <1>10 DEF LinesFit
  <2>3. CASE q = r /\ file'[r][j] = line
    BY <2>1, <2>3
  <2> QED
    BY <1>5, <2>2, <2>3
<1>11. LinesFit'
  BY <1>2, <1>8, <1>9, <1>10 DEF LinesFit
<1> QED
  BY <1>6, <1>7, <1>11

\* A run that begins.
LEMMA RunAdded ==
    ASSUME FilesFit, LinesFit, NEW r \in BridgeRuns,
           written' = IF r \in ToSet(written) THEN written ELSE Append(written, r),
           r \notin Files \/ r = Last(written)
    PROVE  /\ written' \in Seq(BridgeRuns) /\ written' # <<>>
           /\ \A m, n \in DOMAIN written' : written'[m] = written'[n] => m = n
           /\ Files' = Files \cup {r} /\ Last(written)' = r
           /\ \A p, q : BeganAfter(p, q) => BeganAfter(p, q)'
           /\ \A p, q : BeganAfter(p, q)' => BeganAfter(p, q) \/ (p = r /\ q # r /\ r \notin Files)
<1>1. /\ Files = {written[n] : n \in DOMAIN written} /\ Files = ToSet(written)
      /\ Len(written) \in Nat /\ DOMAIN written = 1 .. Len(written)
      /\ Last(written) = written[Len(written)]
  BY FilesAre DEF Files
<1>2. written \in Seq(BridgeRuns) /\ \A m, n \in DOMAIN written : written[m] = written[n] => m = n
  BY DEF FilesFit
<1>0. Files = ToSet(written)
  BY <1>1
<1>3. CASE r \in Files
  <2>0. r \in ToSet(written)
    BY <1>0, <1>3, Zenon
  <2>1. written' = written /\ r = Last(written) /\ r \in Files
    BY <2>0, <1>3
  <2>2. PICK n \in DOMAIN written : written[n] = r
    BY <1>1, <2>1, Zenon
  <2>3. written # <<>>
    BY <1>1, <2>2
  <2>4. Files' = Files /\ Last(written)' = r
    BY <2>1, Zenon DEF Files
  <2>5. \A p, q : BeganAfter(p, q) <=> BeganAfter(p, q)'
    BY <2>1, Zenon DEF BeganAfter
  <2>6. written' \in Seq(BridgeRuns) /\ \A m, k \in DOMAIN written' : written'[m] = written'[k] => m = k
    BY <1>2, <2>1, Zenon
  <2> QED
    BY <2>1, <2>3, <2>4, <2>5, <2>6, Zenon
<1>4. CASE r \notin Files
  <2>1. written' = Append(written, r) /\ r \notin Files
    BY <1>0, <1>4, Zenon
  <2>2. /\ written' \in Seq(BridgeRuns) /\ Len(written') = Len(written) + 1 /\ written' # <<>>
        /\ DOMAIN written' = 1 .. (Len(written) + 1) /\ written'[Len(written) + 1] = r
        /\ \A n \in DOMAIN written : n \in DOMAIN written' /\ written'[n] = written[n]
    BY <1>1, <1>2, <2>1
  <2>3. \A n \in DOMAIN written' : n \in DOMAIN written \/ n = Len(written) + 1
    BY <1>1, <2>2
  <2>4. \A m, n \in DOMAIN written' : written'[m] = written'[n] => m = n
    BY <1>1, <1>2, <2>1, <2>2, <2>3
  <2>5. Files' = {written'[n] : n \in DOMAIN written'}
    BY DEF Files, ToSet
  <2>6. Files' = Files \cup {r}
    BY <1>1, <2>2, <2>3, <2>5
  <2>7. Last(written)' = r
    BY <2>2 DEF Last
  <2>8. \A p, q : BeganAfter(p, q) => BeganAfter(p, q)'
    BY <1>1, <2>2 DEF BeganAfter
  <2>9. ASSUME NEW p, NEW q, BeganAfter(p, q)' PROVE BeganAfter(p, q) \/ (p = r /\ q # r)
    <3>1. PICK m, n \in DOMAIN written' : m < n /\ written'[m] = q /\ written'[n] = p
      BY <2>9 DEF BeganAfter
    <3>2. m \in DOMAIN written
      BY <1>1, <2>2, <3>1
    <3>3. q # r
      BY <1>1, <2>1, <2>2, <3>1, <3>2
    <3> QED
      BY <2>2, <2>3, <3>1, <3>2, <3>3 DEF BeganAfter
  <2> QED
    BY <1>4, <2>2, <2>4, <2>6, <2>7, <2>8, <2>9, Zenon
<1> QED
  BY <1>3, <1>4

\* A line written now, whole or in its beginning, is the last of all lines.
LEMMA WritingFits ==
    ASSUME FilesFit, LinesFit, NEW r \in BridgeRuns, NEW line \in Lines, SayN(line), line.at = now,
           r \notin Files \/ r = Last(written), Writes(r, line), bridge' \subseteq {r},
           UNCHANGED <<now, starts, failures>>
    PROVE  FilesFit' /\ LinesFit' /\ FilesGrow
<1>1. /\ now \in Nat /\ Files \subseteq BridgeRuns
      /\ \A q \in BridgeRuns : /\ file[q] \in Seq(Lines) /\ Len(file[q]) \in Nat
                              /\ DOMAIN file[q] = 1 .. Len(file[q])
                              /\ \A i \in DOMAIN file[q] : file[q][i] \in Lines
  BY FilesAre
<1>2. /\ written' \in Seq(BridgeRuns)
      /\ \A m, n \in DOMAIN written' : written'[m] = written'[n] => m = n
      /\ Files' = Files \cup {r} /\ Last(written)' = r
      /\ \A p, q : BeganAfter(p, q) => BeganAfter(p, q)'
      /\ \A p, q : BeganAfter(p, q)' => BeganAfter(p, q) \/ (p = r /\ q # r /\ r \notin Files)
  BY RunAdded DEF Writes
<1>3. r \notin Files => file[r] = <<>>
  BY DEF FilesFit
<1>4. torn = {} /\ \A q \in BridgeRuns : \A i \in DOMAIN file[q] : file[q][i].at <= line.at
  BY DEF Writes, LinesFit
<1>5. \A q \in BridgeRuns : file[q] # <<>> => q \in Files
  BY DEF FilesFit
<1>6. now' \in 1 .. MaxTime /\ starts' \in 0 .. MaxStarts /\ failures' \in 0 .. MaxFailures
  BY DEF FilesFit
<1>7. \A p, q : p \notin Files => ~BeganAfter(q, p) /\ ~BeganAfter(p, q)
  BY FilesAre
<1>8. \A q : BeganAfter(q, r)' => FALSE
  <2>1. SUFFICES ASSUME NEW q, BeganAfter(q, r) PROVE FALSE
    BY <1>2
  <2> QED
    BY <2>1, <1>7, FilesAre
<1>9. CASE torn' = {[run |-> r, line |-> line]} /\ file' = file
  <2>1. FilesFit'
    BY <1>1, <1>2, <1>5, <1>6, <1>9 DEF FilesFit
  <2>2. FilesGrow
    BY <1>1, <1>2, <1>9 DEF FilesGrow
  <2>3. ASSUME NEW p \in BridgeRuns, NEW q \in BridgeRuns, BeganAfter(q, p)',
               NEW i \in DOMAIN file[p], NEW j \in DOMAIN file[q]
        PROVE  file[p][i].at <= file[q][j].at
    <3>1. CASE BeganAfter(q, p)
      BY <2>3, <3>1 DEF LinesFit
    <3>2. CASE q = r /\ r \notin Files
      BY <1>1, <1>3, <2>3, <3>2
    <3> QED
      BY <1>2, <2>3, <3>1, <3>2
  <2>4. LinesFit'
    BY <1>1, <1>4, <1>9, <2>3 DEF LinesFit, SayN
  <2> QED
    BY <2>1, <2>2, <2>4
<1>10. CASE torn' = {} /\ file' = [file EXCEPT ![r] = Append(@, line)]
  <2>1. /\ file' \in [BridgeRuns -> Seq(Lines)]
        /\ \A q \in BridgeRuns : q # r => file'[q] = file[q]
        /\ file'[r] = Append(file[r], line)
    <3>1. file \in [BridgeRuns -> Seq(Lines)]
      BY DEF FilesFit
    <3> QED
      BY <1>1, <1>10, <3>1
  <2>2. /\ Len(file'[r]) = Len(file[r]) + 1 /\ DOMAIN file'[r] = 1 .. (Len(file[r]) + 1)
        /\ file'[r][Len(file[r]) + 1] = line
        /\ \A i \in DOMAIN file[r] : file'[r][i] = file[r][i]
    BY <1>1, <2>1
  <2>3. \A i \in DOMAIN file'[r] :
          i \in DOMAIN file[r] \/ (i = Len(file[r]) + 1 /\ file'[r][i] = line)
    BY <1>1, <2>2
  <2>4. FilesFit'
    BY <1>2, <1>5, <1>6, <1>10, <2>1 DEF FilesFit
  <2>5. FilesGrow
    BY <1>1, <1>2, <1>10, <2>1, <2>2, <2>3 DEF FilesGrow
  <2>6. \A q \in BridgeRuns : \A i \in DOMAIN file'[q] :
          file'[q][i].at <= now' /\ SayN(file'[q][i])
    <3>1. line.at <= now' /\ now' = now
      BY <1>1
    <3> QED
      BY <3>1, <2>1, <2>2, <2>3 DEF LinesFit
  <2>7. \A q \in BridgeRuns : \A i, j \in DOMAIN file'[q] :
          i <= j => file'[q][i].at <= file'[q][j].at
    <3>1. SUFFICES ASSUME NEW i \in DOMAIN file'[r], NEW j \in DOMAIN file'[r], i <= j
                   PROVE  file'[r][i].at <= file'[r][j].at
      BY <2>1 DEF LinesFit
    <3>2. CASE j \in DOMAIN file[r]
      <4>1. i \in DOMAIN file[r]
        BY <1>1, <2>2, <3>1, <3>2
      <4> QED
        BY <1>1, <2>2, <3>1, <3>2, <4>1 DEF LinesFit
    <3>3. CASE file'[r][j] = line
      <4>1. file'[r][i].at <= now' /\ now' = now
        BY <1>1, <2>6
      <4> QED
        BY <1>1, <3>3, <4>1
    <3> QED
      BY <2>3, <3>2, <3>3
  <2>8. ASSUME NEW p \in BridgeRuns, NEW q \in BridgeRuns, BeganAfter(q, p)',
               NEW i \in DOMAIN file'[p], NEW j \in DOMAIN file'[q]
        PROVE  file'[p][i].at <= file'[q][j].at
    <3>1. p # r /\ file'[p] = file[p]
      BY <1>8, <2>1, <2>8
    <3>2. CASE q = r /\ file'[r][j] = line
      BY <1>4, <3>1, <3>2, <2>8
    <3>3. CASE (q # r \/ j \in DOMAIN file[q]) /\ BeganAfter(q, p)
      <4>1. file'[q][j] = file[q][j] /\ j \in DOMAIN file[q]
        BY <2>1, <2>2, <3>3, <2>8
      <4> QED
        BY <3>1, <3>3, <4>1, <2>8 DEF LinesFit
    <3>4. CASE q = r /\ r \notin Files
      <4>1. j = Len(file[r]) + 1
        BY <1>1, <1>3, <2>2, <2>3, <2>8, <3>4
      <4> QED
        BY <1>4, <2>2, <3>1, <3>4, <4>1, <2>8
    <3> QED
      BY <1>2, <2>3, <2>8, <3>2, <3>3, <3>4
  <2>9. LinesFit'
    BY <1>10, <2>6, <2>7, <2>8 DEF LinesFit
  <2> QED
    BY <2>4, <2>5, <2>9
<1> QED
  BY <1>4, <1>9, <1>10 DEF Writes

\* How many quotes a run has written is a number.
LEMMA QuotesAre ==
    ASSUME FilesFit, NEW r \in BridgeRuns
    PROVE  Quotes(r) \in Nat
<1>1. IsFiniteSet(DOMAIN file[r])
  <2>1. DOMAIN file[r] = 1 .. Len(file[r]) /\ Len(file[r]) \in Int
    BY FilesAre
  <2> QED
    BY <2>1, FS_Interval
<1>2. IsFiniteSet({i \in DOMAIN file[r] : file[r][i].kind = "quote"})
  BY <1>1, FS_Subset
<1> QED
  BY <1>2, FS_CardinalityType DEF Quotes

\* What the bridge writes is a line.
LEMMA LineIs ==
    ASSUME FilesFit, NEW kind \in {"start", "quote", "stop"}, NEW n \in Nat,
           kind = "quote" => n \in 1 .. MaxQuotes
    PROVE  /\ Line(kind, n) \in Lines /\ Line(kind, n).at = now /\ SayN(Line(kind, n))
BY FilesAre DEF Line, Lines, SayN

\* The steps of the bridge keep what holds of the files.
LEMMA BridgeSteps ==
    ASSUME FilesFit, LinesFit,
           \/ LineEnds \/ BridgeDies
           \/ \E r \in BridgeRuns : BridgeStarts(r) \/ BridgeQuotes(r) \/ BridgeStops(r)
    PROVE  FilesFit' /\ LinesFit' /\ FilesGrow
<1>1. CASE LineEnds
  <2>1. PICK t \in torn : file' = [file EXCEPT ![t.run] = Append(@, t.line)]
    BY <1>1 DEF LineEnds
  <2>2. torn' = {} /\ UNCHANGED <<now, bridge, written, starts, failures>>
    BY <1>1 DEF LineEnds
  <2>3. t.run \in Files /\ t.run = Last(written) /\ t.line \in Lines /\ failures' \in 0 .. MaxFailures
    BY <2>2 DEF FilesFit
  <2>4. /\ t.line.at <= now /\ SayN(t.line)
        /\ \A r \in BridgeRuns : \A i \in DOMAIN file[r] : file[r][i].at <= t.line.at
    BY DEF LinesFit
  <2> DEFINE r == t.run
             line == t.line
  <2>5. \E u \in torn : u.run = r /\ line.at = u.line.at
    OBVIOUS
  <2> HIDE DEF r, line
  <2>6. /\ r \in Files /\ r = Last(written) /\ line \in Lines /\ SayN(line) /\ line.at <= now
        /\ \A q \in BridgeRuns : \A i \in DOMAIN file[q] : file[q][i].at <= line.at
        /\ file' = [file EXCEPT ![r] = Append(@, line)]
    BY <2>1, <2>3, <2>4 DEF r, line
  <2> QED
    BY <2>2, <2>3, <2>5, <2>6, LineAdded
<1>2. CASE BridgeDies
  <2>1. /\ bridge' = {} /\ torn' = {} /\ UNCHANGED <<now, file, written, starts>>
        /\ failures' \in 0 .. MaxFailures
    BY <1>2, FeedBounds DEF BridgeDies, FilesFit
  <2>2. Files' = Files /\ \A p, q : BeganAfter(p, q)' <=> BeganAfter(p, q)
    BY <2>1 DEF Files, BeganAfter
  <2>3. FilesFit'
    BY <2>1, <2>2 DEF FilesFit
  <2>4. LinesFit'
    BY <2>1, <2>2 DEF LinesFit
  <2>5. FilesGrow
    BY <2>1, <2>2, FilesAre DEF FilesGrow
  <2> QED
    BY <2>3, <2>4, <2>5
<1>3. ASSUME NEW r \in BridgeRuns, BridgeStarts(r) PROVE FilesFit' /\ LinesFit' /\ FilesGrow
  <2>1. /\ Writes(r, Line("start", 0)) /\ bridge' \subseteq {r} /\ UNCHANGED <<now, starts, failures>>
        /\ r \notin Files
    BY <1>3 DEF BridgeStarts, Files
  <2>2. /\ Line("start", 0) \in Lines /\ Line("start", 0).at = now /\ SayN(Line("start", 0))
    BY LineIs
  <2> QED
    BY <2>1, <2>2, WritingFits
<1>4. ASSUME NEW r \in BridgeRuns, BridgeQuotes(r) PROVE FilesFit' /\ LinesFit' /\ FilesGrow
  <2> DEFINE line == Line("quote", Quotes(r) + 1)
  <2>1. /\ Writes(r, line) /\ UNCHANGED <<now, bridge, starts, failures>>
        /\ r \in bridge /\ Quotes(r) < MaxQuotes
    BY <1>4 DEF BridgeQuotes
  <2>2. Quotes(r) + 1 \in Nat /\ Quotes(r) + 1 \in 1 .. MaxQuotes
    BY <2>1, QuotesAre, FeedBounds
  <2>3. line \in Lines /\ line.at = now /\ SayN(line)
    BY <2>2, LineIs
  <2>4. r = Last(written) /\ bridge' \subseteq {r}
    BY <2>1 DEF FilesFit
  <2> HIDE DEF line
  <2> QED
    BY <2>1, <2>3, <2>4, WritingFits
<1>5. ASSUME NEW r \in BridgeRuns, BridgeStops(r) PROVE FilesFit' /\ LinesFit' /\ FilesGrow
  <2> DEFINE line == Line("stop", Quotes(r))
  <2>1. /\ Writes(r, line) /\ bridge' \subseteq {r} /\ UNCHANGED <<now, starts, failures>>
        /\ r \in bridge
    BY <1>5 DEF BridgeStops
  <2>2. line \in Lines /\ line.at = now /\ SayN(line)
    BY QuotesAre, LineIs
  <2>3. r = Last(written)
    BY <2>1 DEF FilesFit
  <2> HIDE DEF line
  <2> QED
    BY <2>1, <2>2, <2>3, WritingFits
<1> QED
  BY <1>1, <1>2, <1>3, <1>4, <1>5

\* What is stored and followed still fits files that have grown, or were left alone while
\* time went on.
LEMMA FilesGrown ==
    ASSUME FeedInv, FilesFit', LinesFit', now <= now', UNCHANGED <<store, tail>>,
           FilesGrow \/ UNCHANGED bridges
    PROVE  FeedInv'
<1> USE DEF FeedInv
<1>1. /\ now \in Nat /\ now' \in Nat /\ Files \subseteq BridgeRuns /\ Files \subseteq Files'
      /\ \A r \in BridgeRuns : /\ Len(file[r]) \in Nat /\ DOMAIN file[r] = 1 .. Len(file[r])
                              /\ \A i \in DOMAIN file[r] : file[r][i] \in Lines
      /\ \A r \in BridgeRuns : /\ Len(file'[r]) \in Nat /\ DOMAIN file'[r] = 1 .. Len(file'[r])
                              /\ \A i \in DOMAIN file'[r] : file'[r][i] \in Lines
  <2>1. Files \subseteq Files'
    BY DEF FilesGrow, bridges, Files
  <2>2. FilesFit => now' = now \/ now' \in Nat
    BY FeedBounds DEF FilesFit
  <2>3. file' \in [BridgeRuns -> Seq(Lines)] /\ now' \in 1 .. MaxTime
    BY DEF FilesFit
  <2>4. \A r \in BridgeRuns : /\ Len(file'[r]) \in Nat /\ DOMAIN file'[r] = 1 .. Len(file'[r])
                            /\ \A i \in DOMAIN file'[r] : file'[r][i] \in Lines
    BY <2>3
  <2>5. now' \in Nat
    BY <2>3, FeedBounds
  <2> QED
    BY <2>1, <2>4, <2>5, FilesAre
<1>2. /\ \A r \in BridgeRuns :
            /\ Len(file[r]) <= Len(file'[r])
            /\ \A i \in DOMAIN file[r] : file'[r][i] = file[r][i] /\ i \in DOMAIN file'[r]
            /\ \A i \in DOMAIN file'[r] : i \notin DOMAIN file[r] =>
                  /\ i = Len(file[r]) + 1
                  /\ file'[r][i].at = now \/ \E t \in torn : t.run = r /\ file'[r][i].at = t.line.at
      /\ \A q, r : BeganAfter(r, q) => BeganAfter(r, q)'
  <2>1. CASE FilesGrow
    BY <1>1, <2>1 DEF FilesGrow
  <2>2. CASE UNCHANGED bridges
    BY <1>1, <2>2 DEF bridges, BeganAfter
  <2> QED
    BY <2>1, <2>2
<1>3. \A t \in torn' : t.line.at = now \/ (t \in torn /\ file' = file)
  BY DEF FilesGrow, bridges
<1>4. /\ Ids(store)' = Ids(store) /\ Ids(store) \subseteq BridgeRuns /\ Followed' = Followed
      /\ Followed \subseteq BridgeRuns
  BY <1>1 DEF StoreShape, TailFits, Followed
<1>5. ASSUME NEW q, RowFits(q) PROVE RowFits(q)'
  <2>1. /\ q \in FeedRows /\ q.session \in Ids(store)' /\ q.session \in BridgeRuns
        /\ q.seq \in 1 .. MaxQuotes /\ q.received <= now' /\ q.available <= now'
    BY <1>1, <1>4, <1>5 DEF RowFits, FeedRows
  <2>2. \E i \in DOMAIN file'[q.session] : q.source = file'[q.session][i].at
    BY <1>2, <1>5, <2>1 DEF RowFits
  <2> QED
    BY <2>1, <2>2 DEF RowFits
<1>6. StoreShape'
  BY <1>1, <1>4, <1>5 DEF StoreShape
<1>7. TailFits'
  <2>1. tail' = tail /\ tail.since <= now'
    BY <1>1 DEF TailFits
  <2>2. \A r \in Followed : tail.files[r].offset <= Len(file'[r])
    BY <1>1, <1>2, <1>4 DEF TailFits, Complete, Positions
  <2> QED
    BY <2>1, <2>2, <1>1, <1>4 DEF TailFits, Followed, Complete
<1>8. ChunkFits'
  <2>1. SUFFICES ASSUME Pending PROVE ChunkFits'
    BY DEF ChunkFits, Pending
  <2>2. Run \in Followed /\ Run \in BridgeRuns /\ Run' = Run /\ tail.files[Run].offset \in Nat
    BY <1>4, <2>1 DEF ChunkFits, Run, TailFits, Positions
  <2>3. Len(tail.chunk.lines) <= Len(file'[Run])
    <3>1. Len(tail.chunk.lines) \in Nat
      BY DEF TailFits
    <3> QED
      BY <3>1, <1>1, <1>2, <2>1, <2>2 DEF ChunkFits, Complete
  <2>4. ASSUME NEW i \in 1 .. tail.files[Run].offset PROVE file'[Run][i] = file[Run][i]
    <3>1. tail.files[Run].offset <= Len(file[Run])
      BY <2>2 DEF TailFits, Complete
    <3> QED
      BY <3>1, <1>1, <1>2, <2>2
  <2> QED
    BY <2>1, <2>2, <2>3, <2>4, <1>4, SMTT(20) DEF ChunkFits, Complete, Run
<1>9. SinceFits'
  <2>1. SUFFICES ASSUME NEW r \in tail.session
                 PROVE  /\ \A i \in DOMAIN file'[r] : i > tail.files[r].offset =>
                              \/ tail.files[r].garbled /\ i = tail.files[r].offset + 1
                              \/ tail.since <= file'[r][i].at
                        /\ \A t \in torn' : t.run = r =>
                              \/ tail.files[r].garbled /\ tail.files[r].offset = Len(file'[r])
                              \/ tail.since <= t.line.at
    BY DEF SinceFits, Pending, Run, Complete
  <2>2. r \in Followed /\ r \in BridgeRuns /\ tail.since <= now
    BY <1>4 DEF TailFits
  <2>3. /\ \A i \in DOMAIN file[r] : i > tail.files[r].offset =>
              \/ tail.files[r].garbled /\ i = tail.files[r].offset + 1
              \/ tail.since <= file[r][i].at
        /\ \A t \in torn : t.run = r =>
              \/ tail.files[r].garbled /\ tail.files[r].offset = Len(file[r])
              \/ tail.since <= t.line.at
    BY DEF SinceFits, Complete
  <2>4. ASSUME NEW i \in DOMAIN file'[r], i > tail.files[r].offset
        PROVE  \/ tail.files[r].garbled /\ i = tail.files[r].offset + 1
               \/ tail.since <= file'[r][i].at
    <3>1. CASE i \in DOMAIN file[r]
      BY <3>1, <1>2, <2>2, <2>3, <2>4
    <3>2. CASE i \notin DOMAIN file[r]
      BY <3>2, <1>2, <2>2, <2>3, <2>4
    <3> QED
      BY <3>1, <3>2
  <2> QED
    BY <2>2, <2>3, <2>4, <1>3
<1>10. StoringFits'
  BY <1>5 DEF StoringFits, Pending
<1>11. OrderFits'
  <2>1. SUFFICES ASSUME TakenUpInOrder', NEW q \in store.rows, NEW r \in tail.session
                 PROVE  /\ \A i \in DOMAIN file'[r] : i > tail.files[r].offset =>
                              q.source <= file'[r][i].at
                        /\ \A t \in torn' : t.run = r => q.source <= t.line.at
                        /\ TakenUpInOrder
    BY <1>2 DEF OrderFits, Pending, Run, TakenUpInOrder
  <2>2. TakenUpInOrder
    BY <1>2, <2>1 DEF TakenUpInOrder
  <2>3. r \in Followed /\ r \in BridgeRuns
    BY <1>4 DEF TailFits
  <2>4. q.source <= now
    <3>1. PICK i \in DOMAIN file[q.session] : q.source = file[q.session][i].at
      BY DEF StoreShape, RowFits
    <3>2. q.session \in BridgeRuns
      BY <1>4 DEF StoreShape, RowFits
    <3> QED
      BY <3>1, <3>2 DEF LinesFit
  <2>5. /\ \A i \in DOMAIN file[r] : i > tail.files[r].offset => q.source <= file[r][i].at
        /\ \A t \in torn : t.run = r => q.source <= t.line.at
    BY <2>2 DEF OrderFits
  <2>6. ASSUME NEW i \in DOMAIN file'[r], i > tail.files[r].offset
        PROVE  q.source <= file'[r][i].at
    <3>1. CASE i \in DOMAIN file[r]
      BY <3>1, <1>2, <2>3, <2>5, <2>6
    <3>2. CASE i \notin DOMAIN file[r]
      BY <3>2, <1>2, <2>3, <2>4, <2>5
    <3> QED
      BY <3>1, <3>2
  <2> QED
    BY <2>2, <2>4, <2>5, <2>6, <1>3
<1> QED
  BY <1>6, <1>7, <1>8, <1>9, <1>10, <1>11
-----------------------------------------------------------------------------
(***************************************************************************)
(* The runner reads                                                        *)
(***************************************************************************)
LEMMA FilesStay ==
    ASSUME FeedInv, UNCHANGED <<now, bridges>>, starts' \in 0 .. MaxStarts, failures' \in 0 .. MaxFailures
    PROVE  /\ FilesFit' /\ LinesFit' /\ Files' = Files
           /\ \A q, r : BeganAfter(r, q)' <=> BeganAfter(r, q)
           /\ \A r : Complete(r)' = Complete(r)
           /\ \A q : RowFits(q) /\ Ids(store) \subseteq Ids(store') => RowFits(q)'
<1>1. now' = now /\ file' = file /\ torn' = torn /\ bridge' = bridge /\ written' = written
  BY DEF bridges
<1>2. Files' = Files /\ \A q, r : BeganAfter(r, q)' <=> BeganAfter(r, q)
  BY <1>1 DEF Files, BeganAfter
<1>3. FilesFit'
  BY <1>1, <1>2 DEF FilesFit, FeedInv
<1>4. LinesFit'
  BY <1>1, <1>2 DEF LinesFit, FeedInv
<1>5. \A r : Complete(r)' = Complete(r)
  BY <1>1 DEF Complete
<1>6. \A q : RowFits(q) /\ Ids(store) \subseteq Ids(store') => RowFits(q)'
  BY <1>1 DEF RowFits
<1> QED
  BY <1>2, <1>3, <1>4, <1>5, <1>6

\* Opening a session adds it at the end.
LEMMA StartedIs ==
    ASSUME StoreShape, NEW id \in Nat, NEW at \in Nat, NEW s2, s2 = Started(store, id, at)
    PROVE  /\ s2 \in FeedStores
           /\ s2.rows = store.rows /\ Ids(s2) = Ids(store) \cup {id}
           /\ \A n \in DOMAIN store.sessions :
                 n \in DOMAIN s2.sessions /\ s2.sessions[n] = store.sessions[n]
                 /\ n < Len(store.sessions) + 1
           /\ Len(store.sessions) + 1 \in DOMAIN s2.sessions
           /\ s2.sessions[Len(store.sessions) + 1].id = id
<1> DEFINE S == [id : Nat, at : Nat, stop : Seq(Nat)]
           one == [id |-> id, at |-> at, stop |-> <<>>]
<1>1. store \in [sessions : Seq(S), rows : SUBSET FeedRows]
  BY DEF StoreShape, FeedStores
<1>2. store.sessions \in Seq(S) /\ store.rows \in SUBSET FeedRows
  BY <1>1
<1>3. s2.sessions = Append(store.sessions, one) /\ s2.rows = store.rows
      /\ s2 = [sessions |-> s2.sessions, rows |-> s2.rows]
  BY <1>1 DEF Started
<1>4. one \in S /\ one.id = id
  OBVIOUS
<1> HIDE DEF one, S
<1>5. /\ s2.sessions \in Seq(S) /\ Len(store.sessions) \in Nat
      /\ DOMAIN store.sessions = 1 .. Len(store.sessions)
      /\ DOMAIN s2.sessions = 1 .. (Len(store.sessions) + 1)
      /\ s2.sessions[Len(store.sessions) + 1] = one
      /\ \A n \in DOMAIN store.sessions : s2.sessions[n] = store.sessions[n]
  BY <1>2, <1>3, <1>4
<1>6. \A n \in DOMAIN s2.sessions : n \in DOMAIN store.sessions \/ n = Len(store.sessions) + 1
  BY <1>5
<1>7. /\ ToSet(s2.sessions) = {s2.sessions[n] : n \in DOMAIN s2.sessions}
      /\ ToSet(store.sessions) = {store.sessions[n] : n \in DOMAIN store.sessions}
  BY DEF ToSet
<1>8. /\ ToSet(s2.sessions) = ToSet(store.sessions) \cup {one}
  BY <1>5, <1>6, <1>7, SMTT(20)
<1>9. Ids(s2) = Ids(store) \cup {id}
  BY <1>4, <1>8 DEF Ids
<1>10. s2 \in [sessions : Seq(S), rows : SUBSET FeedRows]
  BY <1>2, <1>3, <1>5
<1> QED
  <2>1. \A n \in DOMAIN store.sessions :
          n \in DOMAIN s2.sessions /\ s2.sessions[n] = store.sessions[n]
          /\ n < Len(store.sessions) + 1
    BY <1>5
  <2>2. Len(store.sessions) + 1 \in DOMAIN s2.sessions
        /\ s2.sessions[Len(store.sessions) + 1].id = id
    BY <1>4, <1>5
  <2>3. s2 \in FeedStores
    BY <1>10 DEF S, FeedStores
  <2> QED
    BY <1>3, <1>9, <2>1, <2>2, <2>3

\* A run that is taken up in order wrote nothing that is older than a entry.
LEMMA TakenUp ==
    ASSUME FeedInv, UNCHANGED <<now, bridges>>, NEW r \in Files, r \notin Ids(store), NEW at \in Nat,
           store' = Started(store, r, at)
    PROVE  /\ TakenUpInOrder' =>
                 \A q \in store.rows :
                    /\ \A i \in DOMAIN file[r] : q.source <= file[r][i].at
                    /\ \A t \in torn : q.source <= t.line.at
           /\ StoreShape'
           /\ Ids(store') = Ids(store) \cup {r} /\ store'.rows = store.rows
<1>1. r \in BridgeRuns /\ r \in Nat
  BY FilesAre, FeedBounds DEF FeedInv
<1>2. /\ store' \in FeedStores
      /\ store'.rows = store.rows /\ Ids(store') = Ids(store) \cup {r}
      /\ \A n \in DOMAIN store.sessions :
            n \in DOMAIN store'.sessions /\ store'.sessions[n] = store.sessions[n]
            /\ n < Len(store.sessions) + 1
      /\ Len(store.sessions) + 1 \in DOMAIN store'.sessions
      /\ store'.sessions[Len(store.sessions) + 1].id = r
  <2>1. StoreShape
    BY DEF FeedInv
  <2> DEFINE s2 == Started(store, r, at)
  <2>2. store' = s2
    OBVIOUS
  <2> HIDE DEF s2
  <2>3. s2 = Started(store, r, at)
    BY DEF s2
  <2>4. /\ s2 \in FeedStores
        /\ s2.rows = store.rows /\ Ids(s2) = Ids(store) \cup {r}
        /\ \A n \in DOMAIN store.sessions :
              n \in DOMAIN s2.sessions /\ s2.sessions[n] = store.sessions[n]
              /\ n < Len(store.sessions) + 1
        /\ Len(store.sessions) + 1 \in DOMAIN s2.sessions
        /\ s2.sessions[Len(store.sessions) + 1].id = r
    BY <1>1, <2>1, <2>3, StartedIs
  <2> QED
    BY <2>2, <2>4
<1>3. now' = now /\ file' = file /\ torn' = torn /\ written' = written
      /\ Files' = Files /\ \A p, q : BeganAfter(q, p)' <=> BeganAfter(q, p)
  BY DEF bridges, Files, BeganAfter
<1>4. StoreShape'
  BY <1>2, <1>3 DEF FeedInv, StoreShape, RowFits
<1>5. ASSUME TakenUpInOrder', NEW q \in store.rows
      PROVE  /\ \A i \in DOMAIN file[r] : q.source <= file[r][i].at
             /\ \A t \in torn : q.source <= t.line.at
  <2>1. /\ q.session \in Ids(store) /\ q.session # r /\ q.session \in Files
        /\ q.session \in BridgeRuns
    BY FilesAre DEF FeedInv, StoreShape, RowFits
  <2>2. PICK n \in DOMAIN store.sessions : store.sessions[n].id = q.session
    BY <2>1 DEF Ids, ToSet
  <2>3. ~BeganAfter(q.session, r)
    BY <1>2, <1>3, <1>5, <2>2 DEF TakenUpInOrder
  <2>4. BeganAfter(r, q.session)
    BY <2>1, <2>3, FilesAre DEF FeedInv
  <2>5. PICK i \in DOMAIN file[q.session] : q.source = file[q.session][i].at
    BY DEF FeedInv, StoreShape, RowFits
  <2> QED
    BY <1>1, <2>1, <2>4, <2>5 DEF FeedInv, LinesFit
<1> QED
  BY <1>2, <1>4, <1>5

\* A runner that starts takes up the file written last, behind its last whole line.
LEMMA RunnerStartFits ==
    ASSUME FeedInv, RunnerStarts
    PROVE  FeedInv'
<1> DEFINE active == {r \in Files : Attachable(r)}
           new == {r \in active : MayStart(store, r, BeganAt(r), now)}
           last == Last(written)
<1>1. /\ UNCHANGED <<now, bridges>> /\ starts' \in 0 .. MaxStarts /\ failures' \in 0 .. MaxFailures
      /\ tail' = [Down EXCEPT !.up = TRUE, !.since = now, !.ignored = Files \ active,
                              !.files = [r \in active |-> Follows(r)], !.session = new]
      /\ store' = IF new = {} THEN store ELSE Started(store, last, BeganAt(last))
  BY FeedBounds DEF RunnerStarts, FeedInv, FilesFit
<1>2. /\ FilesFit' /\ LinesFit' /\ Files' = Files
      /\ \A r : Complete(r)' = Complete(r)
      /\ file' = file /\ torn' = torn /\ now' = now /\ now \in Nat
  BY <1>1, FilesStay, FilesAre DEF bridges, FeedInv
<1>3. \A r \in active : r = last /\ r \in Files /\ file[r] # <<>> /\ r \in BridgeRuns
  BY FilesAre DEF Attachable, FeedInv
<1>4. new = {} \/ (new = {last} /\ last \in active /\ last \notin Ids(store))
  BY <1>3 DEF MayStart
<1>5. active \subseteq {last}
  BY <1>3
<1> HIDE DEF active
<1>6. IsFiniteSet(active) /\ Cardinality(active) <= MaxFiles
  <2>1. CASE active = {}
    BY <2>1, FS_EmptySet, FeedBounds
  <2>2. CASE active = {last}
    <3>1. IsFiniteSet({last}) /\ Cardinality({last}) = 1
      BY FS_Singleton
    <3> QED
      BY <2>2, <3>1, FeedBounds
  <2> QED
    BY <1>5, <2>1, <2>2
<1>7. /\ tail'.up = TRUE /\ tail'.since = now /\ tail'.ignored = Files \ active
      /\ tail'.files = [r \in active |-> Follows(r)] /\ tail'.session = new
      /\ tail'.stopped = FALSE /\ tail'.todo = {} /\ tail'.chunk = NoChunk /\ tail'.storing = {}
      /\ tail' = [up |-> tail'.up, since |-> tail'.since, ignored |-> tail'.ignored,
                  files |-> tail'.files, session |-> tail'.session, stopped |-> tail'.stopped,
                  todo |-> tail'.todo, chunk |-> tail'.chunk, storing |-> tail'.storing]
  BY <1>1 DEF Down
<1>8. \A r \in active :
        /\ tail'.files[r].offset = Len(file[r]) /\ tail'.files[r].garbled = IsTorn(r)
        /\ tail'.files[r] \in Positions /\ DOMAIN file[r] = 1 .. Len(file[r]) /\ Len(file[r]) \in Nat
  <2>1. SUFFICES ASSUME NEW r \in active
                 PROVE  /\ Follows(r).offset = Len(file[r]) /\ Follows(r).garbled = IsTorn(r)
                        /\ Follows(r) \in Positions
                        /\ DOMAIN file[r] = 1 .. Len(file[r]) /\ Len(file[r]) \in Nat
    BY <1>7
  <2>2. DOMAIN file[r] = 1 .. Len(file[r]) /\ Len(file[r]) \in Nat
    BY <1>3, FilesAre DEF FeedInv
  <2>3. IsTorn(r) \in BOOLEAN
    BY DEF IsTorn
  <2> HIDE DEF IsTorn
  <2> QED
    BY <2>2, <2>3 DEF Follows, Consumed, Complete, Positions
<1>9. new \subseteq active
  BY <1>3
<1>10. /\ StoreShape' /\ new \subseteq Ids(store') /\ store'.rows = store.rows
       /\ new # {} /\ TakenUpInOrder' =>
             \A q \in store.rows : \A t \in torn : q.source <= t.line.at
  <2>1. CASE new = {}
    <3>1. store' = store
      BY <1>1, <2>1
    <3> QED
      BY <1>1, <1>2, <2>1, <3>1, FilesStay DEF StoreShape, FeedInv
  <2>2. CASE new # {}
    <3>1. store' = Started(store, last, BeganAt(last)) /\ last \in Files /\ last \notin Ids(store)
      BY <1>1, <1>3, <1>4, <2>2
    <3>2. BeganAt(last) \in Nat
      <4>1. file[last] \in Seq(Lines) /\ file[last] # <<>>
        BY <1>3, <1>4, <2>2 DEF FeedInv, FilesFit
      <4>2. file[last][1] \in Lines
        BY <4>1
      <4> QED
        BY <4>2 DEF BeganAt, Lines
    <3> HIDE DEF last, new
    <3>3. /\ StoreShape' /\ Ids(store') = Ids(store) \cup {last} /\ store'.rows = store.rows
          /\ TakenUpInOrder' => \A q \in store.rows : \A t \in torn : q.source <= t.line.at
      BY <1>1, <3>1, <3>2, TakenUp
    <3> QED
      BY <1>4, <3>3
  <2> QED
    BY <2>1, <2>2
<1> HIDE DEF new, last
<1>11. TailFits'
  <2>1. Followed' = active
    BY <1>7 DEF Followed
  <2>2. active \subseteq Files /\ Files \subseteq BridgeRuns /\ new \subseteq active
    BY <1>3, <1>9, FilesAre DEF FeedInv
  <2>3. tail'.files \in [active -> Positions]
    BY <1>7, <1>8
  <2>4. NoChunk \in [run : Nat, lines : Seq(Lines)]
    BY DEF NoChunk
  <2>5. tail' \in [up : BOOLEAN, since : Nat, ignored : SUBSET BridgeRuns, files : {tail'.files},
                  session : SUBSET BridgeRuns, stopped : BOOLEAN, todo : SUBSET BridgeRuns,
                  chunk : [run : Nat, lines : Seq(Lines)], storing : SUBSET FeedRows]
    BY <1>2, <1>7, <2>2, <2>4
  <2>6. \A r \in active : tail'.files[r].offset <= Len(file[r])
    BY <1>8
  <2> QED
    BY <1>2, <1>4, <1>6, <1>7, <1>10, <2>1, <2>2, <2>3, <2>5, <2>6 DEF TailFits, Complete
<1>12. ~Pending'
  BY <1>7 DEF Pending, NoChunk
<1>13. ChunkFits' /\ StoringFits'
  BY <1>7, <1>12 DEF ChunkFits, StoringFits
<1>14. \A r \in new : \A i \in DOMAIN file[r] : ~(i > tail'.files[r].offset)
  BY <1>8, <1>9
<1>15. SinceFits'
  BY <1>2, <1>7, <1>8, <1>9, <1>12, <1>14, ZenonT(30) DEF SinceFits, Complete, IsTorn
<1>16. OrderFits'
  BY <1>2, <1>7, <1>10, <1>12, <1>14 DEF OrderFits
<1> QED
  BY <1>2, <1>10, <1>11, <1>13, <1>15, <1>16 DEF FeedInv

\* A runner that ends leaves rows only.
LEMMA RunnerDeathFits ==
    ASSUME FeedInv, RunnerDies
    PROVE  FeedInv'
<1>1. /\ UNCHANGED <<now, bridges, store, starts, failures>> /\ tail' = Down
  BY DEF RunnerDies
<1>2. starts' \in 0 .. MaxStarts /\ failures' \in 0 .. MaxFailures /\ store' = store
  BY <1>1 DEF FeedInv, FilesFit
<1>3. /\ FilesFit' /\ LinesFit' /\ Files' = Files /\ now' = now /\ now \in Nat
      /\ \A q : RowFits(q) => RowFits(q)'
  BY <1>1, <1>2, FilesStay, FilesAre DEF FeedInv
<1>4. StoreShape'
  BY <1>2, <1>3 DEF StoreShape, FeedInv
<1>5. /\ tail'.since = 0 /\ tail'.ignored = {} /\ tail'.files = <<>> /\ tail'.session = {}
      /\ tail'.todo = {} /\ tail'.chunk = NoChunk /\ tail'.storing = {}
  BY <1>1 DEF Down
<1>6. Followed' = {} /\ tail'.files \in [{} -> Positions]
  BY <1>5 DEF Followed
<1>7. TailFits'
  <2>1. NoChunk \in [run : Nat, lines : Seq(Lines)]
    BY DEF NoChunk
  <2>2. tail' \in [up : BOOLEAN, since : Nat, ignored : SUBSET BridgeRuns, files : {tail'.files},
                  session : SUBSET BridgeRuns, stopped : BOOLEAN, todo : SUBSET BridgeRuns,
                  chunk : [run : Nat, lines : Seq(Lines)], storing : SUBSET FeedRows]
    BY <1>1, <2>1 DEF Down
  <2>3. IsFiniteSet({}) /\ Cardinality({}) <= MaxFiles
    BY FS_EmptySet, FeedBounds
  <2> QED
    BY <1>3, <1>5, <1>6, <2>2, <2>3 DEF TailFits
<1>8. ~Pending'
  BY <1>5 DEF Pending, NoChunk
<1> QED
  BY <1>3, <1>4, <1>5, <1>7, <1>8 DEF FeedInv, ChunkFits, SinceFits, StoringFits, OrderFits

\* The tail as a record of its fields.
LEMMA TailIs ==
    ASSUME TailFits
    PROVE  tail = [up |-> tail.up, since |-> tail.since, ignored |-> tail.ignored,
                   files |-> tail.files, session |-> tail.session, stopped |-> tail.stopped,
                   todo |-> tail.todo, chunk |-> tail.chunk, storing |-> tail.storing]
BY DEF TailFits

\* Which files a poll has left to read changes nothing else.
LEMMA TodoFits ==
    ASSUME FeedInv, UNCHANGED <<now, bridges, store, starts, failures>>, NEW S \in SUBSET Files,
           tail' = [tail EXCEPT !.todo = S]
    PROVE  FeedInv'
<1>1. starts' \in 0 .. MaxStarts /\ failures' \in 0 .. MaxFailures /\ store' = store
  BY DEF FeedInv, FilesFit
<1>2. /\ FilesFit' /\ LinesFit' /\ Files' = Files /\ Files \subseteq BridgeRuns
      /\ \A q : RowFits(q) => RowFits(q)'
      /\ now' = now /\ file' = file /\ torn' = torn /\ \A r : Complete(r)' = Complete(r)
      /\ \A q, r : BeganAfter(r, q)' <=> BeganAfter(r, q)
  BY <1>1, FilesStay, FilesAre DEF FeedInv, bridges
<1>3. /\ tail'.since = tail.since /\ tail'.ignored = tail.ignored /\ tail'.files = tail.files
      /\ tail'.session = tail.session /\ tail'.todo = S /\ tail'.chunk = tail.chunk
      /\ tail'.storing = tail.storing
      /\ TailFits => tail' \in [up : BOOLEAN, since : Nat, ignored : SUBSET BridgeRuns,
                               files : {tail'.files}, session : SUBSET BridgeRuns,
                               stopped : BOOLEAN, todo : SUBSET BridgeRuns,
                               chunk : [run : Nat, lines : Seq(Lines)], storing : SUBSET FeedRows]
  <2>1. TailFits
    BY DEF FeedInv
  <2>2. /\ tail'.since = tail.since /\ tail'.ignored = tail.ignored /\ tail'.files = tail.files
        /\ tail'.session = tail.session /\ tail'.todo = S /\ tail'.chunk = tail.chunk
        /\ tail'.storing = tail.storing
    BY <2>1, TailIs
  <2>3. S \subseteq BridgeRuns
    BY <1>2
  <2> QED
    BY <2>1, <2>2, <2>3 DEF TailFits
<1>4. Followed' = Followed /\ Pending' = Pending /\ Run' = Run
  BY <1>3 DEF Followed, Pending, Run
<1>5. StoreShape'
  BY <1>1, <1>2 DEF FeedInv, StoreShape
<1>6. TailFits'
  BY <1>1, <1>2, <1>3, <1>4 DEF FeedInv, TailFits
<1>7. ChunkFits'
  BY <1>2, <1>3, <1>4 DEF FeedInv, ChunkFits
<1>8. SinceFits'
  BY <1>2, <1>3, <1>4 DEF FeedInv, SinceFits
<1>9. StoringFits'
  BY <1>1, <1>2, <1>3, <1>4 DEF FeedInv, StoringFits
<1>10. OrderFits'
  BY <1>1, <1>2, <1>3, <1>4 DEF FeedInv, OrderFits, TakenUpInOrder
<1> QED
  BY <1>2, <1>5, <1>6, <1>7, <1>8, <1>9, <1>10 DEF FeedInv

\* What is read of a file is what was unread.
LEMMA ReadsAre ==
    ASSUME FilesFit, LinesFit, NEW r \in BridgeRuns, NEW from \in Positions,
           from.offset <= Len(file[r]), NEW lines, lines = Reads(r, from)
    PROVE  /\ lines \in Seq(Lines) /\ Len(lines) = Len(file[r]) - from.offset
           /\ DOMAIN lines = 1 .. (Len(file[r]) - from.offset)
           /\ \A k \in DOMAIN lines :
                 /\ from.offset + k \in DOMAIN file[r] /\ from.offset + k > from.offset
                 /\ lines[k].at = file[r][from.offset + k].at /\ SayN(lines[k])
                 /\ from.garbled /\ k = 1 => lines[k].kind = "garbled"
<1> DEFINE m == Len(file[r]) - from.offset
<1>1. /\ from.offset \in Nat /\ from.garbled \in BOOLEAN /\ Len(file[r]) \in Nat
      /\ DOMAIN file[r] = 1 .. Len(file[r]) /\ \A i \in DOMAIN file[r] : file[r][i] \in Lines
  BY FilesAre DEF Positions
<1>2. m \in Nat
  BY <1>1
<1>3. lines = [n \in 1 .. m |->
                 IF n = 1 /\ from.garbled THEN [file[r][from.offset + 1] EXCEPT !.kind = "garbled"]
                 ELSE file[r][from.offset + n]]
  BY DEF Reads, Complete
<1>4. ASSUME NEW k \in 1 .. m
      PROVE  /\ from.offset + k \in DOMAIN file[r] /\ from.offset + k > from.offset
             /\ lines[k].at = file[r][from.offset + k].at /\ SayN(lines[k])
             /\ from.garbled /\ k = 1 => lines[k].kind = "garbled"
             /\ lines[k] \in Lines
  <2>1. from.offset + k \in DOMAIN file[r] /\ from.offset + k > from.offset
    BY <1>1, <1>2
  <2>2. file[r][from.offset + k] \in Lines /\ SayN(file[r][from.offset + k])
    BY <1>1, <2>1 DEF LinesFit
  <2>3. CASE k = 1 /\ from.garbled
    <3>1. lines[k] = [file[r][from.offset + k] EXCEPT !.kind = "garbled"]
      BY <1>3, <2>3
    <3>2. lines[k].kind = "garbled" /\ lines[k] \in Lines /\ lines[k].at = file[r][from.offset + k].at
      BY <2>2, <3>1 DEF Lines
    <3> QED
      BY <2>1, <3>2 DEF SayN
  <2>4. CASE ~(k = 1 /\ from.garbled)
    <3>1. lines[k] = file[r][from.offset + k]
      BY <1>3, <2>4
    <3> QED
      BY <2>1, <2>2, <2>4, <3>1
  <2> QED
    BY <2>3, <2>4
<1> HIDE DEF m
<1>5. DOMAIN lines = 1 .. m
  BY <1>3
<1>6. lines \in Seq(Lines) /\ Len(lines) = m
  <2>1. lines \in [1 .. m -> Lines]
    BY <1>3, <1>4, <1>5
  <2> QED
    BY <1>2, <2>1
<1> QED
  BY <1>4, <1>5, <1>6 DEF m

\* PollReads, of file r.
From(r) == IF r \in Followed THEN tail.files[r] ELSE [offset |-> 0, garbled |-> FALSE]
Read(r) == [offset |-> Complete(r), garbled |-> From(r).garbled /\ ~(Complete(r) > From(r).offset)]
ReadsOn(r) ==
    tail' = [tail EXCEPT
              !.todo = @ \ {r},
              !.files = [x \in Followed \cup {r} |-> IF x = r THEN Read(r) ELSE tail.files[x]],
              !.chunk = [run |-> r, lines |-> Reads(r, From(r))]]

\* What is read of a file are its unread lines in their order.
LEMMA ReadFits ==
    ASSUME FeedInv, UNCHANGED <<now, bridges, store, starts, failures>>, ~Pending, tail.storing = {},
           NEW r \in Files, MayFollow(r), ReadsOn(r)
    PROVE  FeedInv'
<1> DEFINE from == From(r)
           next == Read(r)
           lines == Reads(r, from)
<1>1. starts' \in 0 .. MaxStarts /\ failures' \in 0 .. MaxFailures /\ store' = store
  BY DEF FeedInv, FilesFit
<1>2. /\ FilesFit' /\ LinesFit' /\ Files' = Files /\ Files \subseteq BridgeRuns
      /\ \A q : RowFits(q) => RowFits(q)'
      /\ now' = now /\ file' = file /\ torn' = torn /\ \A x : Complete(x)' = Complete(x)
      /\ \A q, x : BeganAfter(x, q)' <=> BeganAfter(x, q)
  BY <1>1, FilesStay, FilesAre DEF FeedInv, bridges
<1>3. r \in BridgeRuns /\ r \in Nat
  BY <1>2, FeedBounds
<1>4. /\ Len(file[r]) \in Nat /\ DOMAIN file[r] = 1 .. Len(file[r]) /\ Complete(r) = Len(file[r])
  BY <1>3, FilesAre DEF FeedInv, Complete
<1>5. /\ from.offset \in Nat /\ from.garbled \in BOOLEAN /\ from.offset <= Len(file[r])
      /\ from \in Positions
  <2>2. CASE r \in Followed
    <3>1. from = tail.files[r]
      BY <2>2 DEF From
    <3>2. tail.files[r].offset <= Len(file[r]) /\ tail.files[r] \in Positions
      BY <2>2 DEF FeedInv, TailFits, Complete
    <3> QED
      BY <3>1, <3>2 DEF Positions
  <2>3. CASE r \notin Followed
    <3>1. from.offset = 0 /\ from.garbled = FALSE
      BY <2>3 DEF From
    <3>2. from = [offset |-> 0, garbled |-> FALSE]
      BY <2>3 DEF From
    <3> QED
      BY <1>4, <3>1, <3>2 DEF Positions
  <2> QED
    BY <2>2, <2>3
<1>6. /\ lines \in Seq(Lines) /\ Len(lines) = Len(file[r]) - from.offset
      /\ DOMAIN lines = 1 .. (Len(file[r]) - from.offset)
      /\ \A k \in DOMAIN lines :
            /\ from.offset + k \in DOMAIN file[r] /\ from.offset + k > from.offset
            /\ lines[k].at = file[r][from.offset + k].at /\ SayN(lines[k])
            /\ from.garbled /\ k = 1 => lines[k].kind = "garbled"
  <2>1. FilesFit /\ LinesFit /\ lines = Reads(r, from)
    BY DEF FeedInv
  <2> HIDE DEF lines, from
  <2> QED
    BY <2>1, <1>3, <1>5, ReadsAre
<1> HIDE DEF lines, from, next
<1>7. /\ tail'.since = tail.since /\ tail'.ignored = tail.ignored
      /\ tail'.files = [x \in Followed \cup {r} |-> IF x = r THEN next ELSE tail.files[x]]
      /\ tail'.session = tail.session /\ tail'.todo = tail.todo \ {r}
      /\ tail'.chunk = [run |-> r, lines |-> lines] /\ tail'.storing = {}
      /\ tail' = [up |-> tail.up, since |-> tail.since, ignored |-> tail.ignored,
                  files |-> tail'.files, session |-> tail.session, stopped |-> tail.stopped,
                  todo |-> tail.todo \ {r}, chunk |-> tail'.chunk, storing |-> tail.storing]
  BY TailIs DEF FeedInv, lines, from, next, ReadsOn
<1>8. /\ next \in Positions /\ next.offset = Len(file[r])
      /\ from.garbled /\ from.offset = Len(file[r]) => next.garbled
  <2>1. next.offset = Len(file[r]) /\ next \in Positions
    BY <1>4, <1>5 DEF Positions, next, Read, from
  <2>2. ASSUME from.garbled, from.offset = Len(file[r]) PROVE next.garbled
    <3>1. ~(Complete(r) > from.offset)
      BY <1>4, <2>2
    <3> QED
      BY <2>2, <3>1 DEF next, Read, from
  <2> QED
    BY <2>1, <2>2
<1>9. /\ Followed' = Followed \cup {r} /\ Followed \subseteq Files
      /\ tail'.files[r] = next /\ \A x \in Followed : x # r => tail'.files[x] = tail.files[x]
      /\ tail.files \in [Followed -> Positions]
  BY <1>7 DEF FeedInv, TailFits, Followed
<1> HIDE DEF Followed
<1>10. Run' = r /\ (Pending' <=> lines # <<>>)
  BY <1>7 DEF Run, Pending
<1>11. StoreShape'
  BY <1>1, <1>2 DEF FeedInv, StoreShape
<1>12. TailFits'
  <2>1. IsFiniteSet(Followed') /\ Cardinality(Followed') <= MaxFiles
    <3>1. IsFiniteSet(Followed) /\ Cardinality(Followed) <= MaxFiles
      BY DEF FeedInv, TailFits
    <3>2. CASE r \in Followed
      <4>1. Followed' = Followed
        BY <1>9, <3>2
      <4> QED
        BY <3>1, <4>1
    <3>3. CASE r \notin Followed
      <4>1. Cardinality(Followed) < MaxFiles /\ Cardinality(Followed) \in Nat
        BY <3>1, <3>3, FS_CardinalityType DEF MayFollow
      <4>2. IsFiniteSet(Followed \cup {r}) /\ Cardinality(Followed \cup {r}) = Cardinality(Followed) + 1
        BY <3>1, <3>3, FS_AddElement
      <4> QED
        BY <1>9, <4>1, <4>2, FeedBounds
    <3> QED
      BY <3>2, <3>3
  <2>2. tail'.files \in [Followed' -> Positions]
    BY <1>7, <1>8, <1>9
  <2>3. \A x \in Followed' : tail'.files[x].offset <= Len(file[x])
    BY <1>4, <1>8, <1>9 DEF FeedInv, TailFits, Complete
  <2>4. /\ tail.up \in BOOLEAN /\ tail.since \in Nat /\ tail.ignored \in SUBSET BridgeRuns
        /\ tail.session \in SUBSET BridgeRuns /\ tail.stopped \in BOOLEAN
        /\ tail.todo \ {r} \in SUBSET BridgeRuns /\ tail.storing \in SUBSET FeedRows
        /\ tail'.chunk \in [run : Nat, lines : Seq(Lines)]
    BY <1>3, <1>6, <1>7 DEF FeedInv, TailFits
  <2>5. tail' \in [up : BOOLEAN, since : Nat, ignored : SUBSET BridgeRuns,
                  files : {tail'.files}, session : SUBSET BridgeRuns,
                  stopped : BOOLEAN, todo : SUBSET BridgeRuns,
                  chunk : [run : Nat, lines : Seq(Lines)], storing : SUBSET FeedRows]
    <3> DEFINE f == tail'.files
               c == tail'.chunk
    <3>1. /\ tail' = [up |-> tail.up, since |-> tail.since, ignored |-> tail.ignored,
                      files |-> f, session |-> tail.session, stopped |-> tail.stopped,
                      todo |-> tail.todo \ {r}, chunk |-> c, storing |-> tail.storing]
          /\ c \in [run : Nat, lines : Seq(Lines)]
      BY <1>7, <2>4
    <3> HIDE DEF f, c
    <3>2. tail' \in [up : BOOLEAN, since : Nat, ignored : SUBSET BridgeRuns,
                    files : {f}, session : SUBSET BridgeRuns,
                    stopped : BOOLEAN, todo : SUBSET BridgeRuns,
                    chunk : [run : Nat, lines : Seq(Lines)], storing : SUBSET FeedRows]
      BY <2>4, <3>1, Zenon
    <3> QED
      BY <3>2 DEF f
  <2>6. /\ tail.since <= now /\ tail.ignored \subseteq Files /\ tail.todo \ {r} \subseteq Files
        /\ tail.session \subseteq Followed' \cap Ids(store)
        /\ \A x \in tail.session : tail.session = {x}
    BY <1>9 DEF FeedInv, TailFits
  <2> QED
    BY <1>1, <1>2, <1>7, <1>9, <2>1, <2>2, <2>3, <2>5, <2>6 DEF TailFits, Complete
<1>13. ChunkFits'
  <2>1. ASSUME NEW k \in DOMAIN lines
        PROVE  /\ SayN(lines[k])
               /\ \E i \in 1 .. tail'.files[r].offset : lines[k].at = file[r][i].at
    <3>1. from.offset + k \in 1 .. tail'.files[r].offset
      BY <1>4, <1>6, <1>8, <1>9
    <3> QED
      BY <1>6, <3>1
  <2>2. ASSUME NEW k \in DOMAIN lines, NEW l \in DOMAIN lines, k <= l
        PROVE  lines[k].at <= lines[l].at
    <3>1. from.offset + k <= from.offset + l
      BY <1>4, <1>5, <1>6, <2>2
    <3> QED
      BY <1>3, <1>6, <3>1 DEF FeedInv, LinesFit
  <2>3. Len(lines) <= Len(file[r])
    BY <1>4, <1>5, <1>6
  <2> QED
    BY <1>2, <1>7, <1>9, <1>10, <2>1, <2>2, <2>3 DEF ChunkFits, Complete
<1>14. \A x \in tail.session : x \in Followed
  BY DEF FeedInv, TailFits
<1>15. ASSUME r \in Followed PROVE from = tail.files[r]
  BY <1>15 DEF from, From
<1>16. ASSUME NEW i \in DOMAIN file[r] PROVE ~(i > next.offset)
  BY <1>4, <1>8
<1>17. SinceFits'
  <2>1. ASSUME NEW x \in tail.session, x # r
        PROVE  /\ \A i \in DOMAIN file[x] : i > tail'.files[x].offset =>
                    \/ tail'.files[x].garbled /\ i = tail'.files[x].offset + 1
                    \/ tail.since <= file[x][i].at
               /\ \A t \in torn : t.run = x =>
                    \/ tail'.files[x].garbled /\ tail'.files[x].offset = Complete(x)
                    \/ tail.since <= t.line.at
    BY <1>9, <1>14, <2>1 DEF FeedInv, SinceFits
  <2>2. ASSUME r \in tail.session
        PROVE  /\ \A k \in DOMAIN lines : lines[k].kind = "garbled" \/ tail.since <= lines[k].at
               /\ \A t \in torn : t.run = r =>
                    \/ next.garbled /\ next.offset = Complete(r)
                    \/ tail.since <= t.line.at
    <3>1. /\ \A i \in DOMAIN file[r] : i > from.offset =>
                (from.garbled /\ i = from.offset + 1) \/ tail.since <= file[r][i].at
          /\ \A t \in torn : t.run = r =>
                (from.garbled /\ from.offset = Complete(r)) \/ tail.since <= t.line.at
      BY <1>14, <1>15, <2>2 DEF FeedInv, SinceFits
    <3>2. ASSUME NEW k \in DOMAIN lines PROVE lines[k].kind = "garbled" \/ tail.since <= lines[k].at
      <4>1. from.offset + k = from.offset + 1 => k = 1
        BY <1>4, <1>5, <1>6
      <4> QED
        BY <1>6, <3>1, <4>1
    <3>3. \A t \in torn : t.run = r =>
            (next.garbled /\ next.offset = Complete(r)) \/ tail.since <= t.line.at
      BY <1>4, <1>8, <3>1
    <3> QED
      BY <3>2, <3>3
  <2>3. SUFFICES ASSUME NEW x \in tail.session
                 PROVE  /\ r = x => \A k \in DOMAIN lines :
                              lines[k].kind = "garbled" \/ tail.since <= lines[k].at
                        /\ \A i \in DOMAIN file[x] : i > tail'.files[x].offset =>
                              \/ tail'.files[x].garbled /\ i = tail'.files[x].offset + 1
                              \/ tail.since <= file[x][i].at
                        /\ \A t \in torn : t.run = x =>
                              \/ tail'.files[x].garbled /\ tail'.files[x].offset = Complete(x)
                              \/ tail.since <= t.line.at
    <3>1. /\ tail'.session = tail.session /\ tail'.chunk.lines = lines /\ tail'.since = tail.since
          /\ file' = file /\ torn' = torn /\ \A x : Complete(x)' = Complete(x)
      BY <1>2, <1>7
    <3> HIDE DEF lines
    <3> QED
      BY <1>10, <3>1 DEF SinceFits
  <2>4. CASE x = r
    BY <1>9, <1>16, <2>2, <2>4
  <2> QED
    BY <2>1, <2>4
<1>18. StoringFits'
  BY <1>7 DEF StoringFits
<1>19. OrderFits'
  <2>1. SUFFICES ASSUME TakenUpInOrder, NEW q \in store.rows, NEW x \in tail.session
                 PROVE  /\ r = x => \A k \in DOMAIN lines : q.source <= lines[k].at
                        /\ \A i \in DOMAIN file[x] : i > tail'.files[x].offset =>
                              q.source <= file[x][i].at
                        /\ \A t \in torn : t.run = x => q.source <= t.line.at
    <3>1. tail'.storing = {} /\ tail'.session = tail.session /\ tail'.chunk.lines = lines
      BY <1>7
    <3>2. TakenUpInOrder' => TakenUpInOrder
      BY <1>1, <1>2 DEF TakenUpInOrder
    <3> QED
      BY <1>1, <1>2, <1>10, <3>1, <3>2 DEF OrderFits
  <2>2. /\ \A i \in DOMAIN file[x] : i > tail.files[x].offset => q.source <= file[x][i].at
        /\ \A t \in torn : t.run = x => q.source <= t.line.at
    BY <2>1 DEF FeedInv, OrderFits
  <2>3. CASE x = r
    BY <1>6, <1>9, <1>14, <1>15, <1>16, <2>2, <2>3
  <2>4. CASE x # r
    BY <1>9, <1>14, <2>2, <2>4
  <2> QED
    BY <2>3, <2>4
<1> QED
  BY <1>2, <1>11, <1>12, <1>13, <1>17, <1>18, <1>19 DEF FeedInv

\* The steps of a poll keep the invariant.
LEMMA PollSteps ==
    ASSUME FeedInv, Poll
    PROVE  FeedInv'
<1>1. CASE PollBegins
  <2>1. /\ UNCHANGED <<now, bridges, store, starts, failures>>
        /\ tail' = [tail EXCEPT !.todo = Files \ tail.ignored]
    BY <1>1 DEF PollBegins
  <2> QED
    BY <2>1, TodoFits
<1>2. CASE PollReads
  <2> DEFINE r == Min(tail.todo)
  <2>1. /\ UNCHANGED <<now, bridges, store, starts, failures>> /\ ~Pending /\ tail.storing = {}
        /\ IF ~MayFollow(r) THEN tail' = [tail EXCEPT !.todo = {}] ELSE ReadsOn(r)
    BY <1>2 DEF PollReads, ReadsOn, From, Read
  <2>2. r \in Files
    <3>1. tail.todo # {} /\ tail.todo \subseteq Files /\ tail.todo \subseteq Nat
      BY <1>2, FilesAre, FeedBounds DEF PollReads, FeedInv, TailFits
    <3>2. Min(tail.todo) \in tail.todo
      BY <3>1, MinIs
    <3> QED
      BY <3>1, <3>2
  <2> HIDE DEF r
  <2>3. CASE MayFollow(r)
    BY <2>1, <2>2, <2>3, ReadFits
  <2>4. CASE ~MayFollow(r)
    <3>1. tail' = [tail EXCEPT !.todo = {}] /\ {} \in SUBSET Files
      BY <2>1, <2>4
    <3> QED
      BY <2>1, <3>1, TodoFits
  <2> QED
    BY <2>3, <2>4
<1>3. CASE PollRaises
  <2>1. /\ UNCHANGED <<now, bridges, store, starts>> /\ starts' \in 0 .. MaxStarts
        /\ failures' \in 0 .. MaxFailures
        /\ tail' = [tail EXCEPT !.todo = {}, !.chunk = NoChunk, !.storing = {}]
    BY <1>3, FeedBounds DEF PollRaises, FeedInv, FilesFit
  <2>2. /\ FilesFit' /\ LinesFit' /\ Files' = Files
        /\ \A q : RowFits(q) => RowFits(q)'
        /\ now' = now /\ file' = file /\ torn' = torn /\ \A r : Complete(r)' = Complete(r)
        /\ \A q, r : BeganAfter(r, q)' <=> BeganAfter(r, q)
    BY <2>1, FilesStay DEF bridges
  <2>3. /\ tail'.since = tail.since /\ tail'.ignored = tail.ignored /\ tail'.files = tail.files
        /\ tail'.session = tail.session /\ tail'.todo = {} /\ tail'.chunk = NoChunk
        /\ tail'.storing = {}
        /\ tail' = [up |-> tail.up, since |-> tail.since, ignored |-> tail.ignored,
                    files |-> tail.files, session |-> tail.session, stopped |-> tail.stopped,
                    todo |-> {}, chunk |-> NoChunk, storing |-> {}]
    BY <2>1, TailIs DEF FeedInv
  <2>4. Followed' = Followed /\ ~Pending'
    BY <2>3 DEF Followed, Pending, NoChunk
  <2>5. StoreShape'
    BY <2>1, <2>2 DEF FeedInv, StoreShape
  <2>6. TailFits'
    <3>1. NoChunk \in [run : Nat, lines : Seq(Lines)]
      BY DEF NoChunk
    <3>2. tail' \in [up : BOOLEAN, since : Nat, ignored : SUBSET BridgeRuns, files : {tail'.files},
                    session : SUBSET BridgeRuns, stopped : BOOLEAN, todo : SUBSET BridgeRuns,
                    chunk : [run : Nat, lines : Seq(Lines)], storing : SUBSET FeedRows]
      BY <2>3, <3>1 DEF FeedInv, TailFits
    <3> QED
      BY <2>1, <2>2, <2>3, <2>4, <3>2 DEF FeedInv, TailFits
  <2>7. ChunkFits' /\ StoringFits'
    BY <2>3, <2>4 DEF ChunkFits, StoringFits
  <2>8. SinceFits'
    BY <2>2, <2>3, <2>4 DEF FeedInv, SinceFits
  <2>9. OrderFits'
    BY <2>1, <2>2, <2>3, <2>4 DEF FeedInv, OrderFits, TakenUpInOrder
  <2> QED
    BY <2>2, <2>5, <2>6, <2>7, <2>8, <2>9 DEF FeedInv
<1> QED
  BY <1>1, <1>2, <1>3 DEF Poll
-----------------------------------------------------------------------------
(***************************************************************************)
(* The collector accepts                                                   *)
(***************************************************************************)
\* The line at hand and what comes after it.
LEMMA RestIs ==
    ASSUME FeedInv, Pending, NEW lines, lines = tail.chunk.lines, NEW rest, rest = Tail(lines)
    PROVE  /\ Run \in Followed /\ Run \in Files /\ Run \in BridgeRuns /\ Run \in Nat
           /\ lines \in Seq(Lines) /\ 1 \in DOMAIN lines /\ Head1 = lines[1] /\ Head1 \in Lines
           /\ rest \in Seq(Lines) /\ Len(rest) <= Len(lines)
           /\ \A k \in DOMAIN rest : k + 1 \in DOMAIN lines /\ rest[k] = lines[k + 1]
           /\ \A k, l \in DOMAIN rest : k <= l => k + 1 <= l + 1
           /\ \A k \in DOMAIN lines : Head1.at <= lines[k].at
           /\ \E i \in DOMAIN file[Run] : Head1.at = file[Run][i].at
           /\ \A i \in DOMAIN file[Run] : i > tail.files[Run].offset => Head1.at <= file[Run][i].at
           /\ \A t \in torn : Head1.at <= t.line.at
           /\ Head1.at <= now
<1>1. /\ Run \in Followed /\ Run \in Files /\ Run \in BridgeRuns /\ Run \in Nat
      /\ tail.files[Run].offset \in Nat /\ tail.files[Run].offset <= Len(file[Run])
  BY FilesAre, FeedBounds DEF FeedInv, ChunkFits, TailFits, Positions, Complete
<1>2. lines \in Seq(Lines) /\ lines # <<>>
  BY DEF FeedInv, TailFits, Pending
<1>3. Len(lines) \in Nat \ {0} /\ DOMAIN lines = 1 .. Len(lines)
  BY <1>2
<1>4. /\ 1 \in DOMAIN lines /\ Head1 = lines[1] /\ Head1 \in Lines
  BY <1>2, <1>3 DEF Head1
<1>5. /\ rest \in Seq(Lines) /\ Len(rest) = Len(lines) - 1 /\ DOMAIN rest = 1 .. (Len(lines) - 1)
      /\ \A k \in 1 .. (Len(lines) - 1) : rest[k] = lines[k + 1]
  BY <1>2, <1>3, SMTT(25)
<1>6. /\ Len(rest) <= Len(lines)
      /\ \A k \in DOMAIN rest : k + 1 \in DOMAIN lines /\ rest[k] = lines[k + 1]
      /\ \A k, l \in DOMAIN rest : k <= l => k + 1 <= l + 1
  BY <1>3, <1>5, SMTT(25)
<1>7. \A k \in DOMAIN lines : Head1.at <= lines[k].at
  BY <1>3, <1>4 DEF FeedInv, ChunkFits
<1>8. PICK j \in 1 .. tail.files[Run].offset : Head1.at = file[Run][j].at
  BY <1>4 DEF FeedInv, ChunkFits
<1>9. DOMAIN file[Run] = 1 .. Len(file[Run]) /\ Len(file[Run]) \in Nat
  BY <1>1, FilesAre DEF FeedInv
<1>10. j \in DOMAIN file[Run]
  BY <1>1, <1>8, <1>9
<1>11. \A i \in DOMAIN file[Run] : i > tail.files[Run].offset => Head1.at <= file[Run][i].at
  BY <1>1, <1>8, <1>9, <1>10 DEF FeedInv, LinesFit
<1>12. /\ \A t \in torn : Head1.at <= t.line.at
       /\ Head1.at <= now
  BY <1>1, <1>8, <1>10 DEF FeedInv, LinesFit
<1> QED
  BY <1>1, <1>2, <1>4, <1>5, <1>6, <1>7, <1>8, <1>10, <1>11, <1>12

\* What a chunk is made of.
LEMMA ChunksAre ==
    /\ \A r \in Nat : \A l \in Seq(Lines) : [run |-> r, lines |-> l] \in [run : Nat, lines : Seq(Lines)]
    /\ \A c \in [run : Nat, lines : Seq(Lines)] : \A l :
          [c EXCEPT !.lines = l] = [run |-> c.run, lines |-> l]
OBVIOUS

\* What a step that drops the line at hand leaves of the chunk.
LEMMA DropIs ==
    ASSUME TailFits
    PROVE  Drop = [up |-> tail.up, since |-> tail.since, ignored |-> tail.ignored,
                   files |-> tail.files, session |-> tail.session, stopped |-> tail.stopped,
                   todo |-> tail.todo, chunk |-> [run |-> Run, lines |-> Tail(tail.chunk.lines)],
                   storing |-> tail.storing]
<1> DEFINE chunk == [run |-> Run, lines |-> Tail(tail.chunk.lines)]
<1>1. [tail.chunk EXCEPT !.lines = Tail(@)] = chunk
  <2>1. tail.chunk \in [run : Nat, lines : Seq(Lines)]
    BY DEF TailFits
  <2> QED
    BY <2>1, ChunksAre DEF Run
<1>2. Drop = [tail EXCEPT !.chunk = [tail.chunk EXCEPT !.lines = Tail(@)]]
  BY DEF Drop
<1>3. Drop = [tail EXCEPT !.chunk = chunk]
  BY <1>1, <1>2
<1> HIDE DEF chunk
<1>4. Drop = [up |-> tail.up, since |-> tail.since, ignored |-> tail.ignored,
              files |-> tail.files, session |-> tail.session, stopped |-> tail.stopped,
              todo |-> tail.todo, chunk |-> chunk, storing |-> tail.storing]
  BY <1>3, TailIs
<1> QED
  BY <1>4 DEF chunk

\* Without its first line a chunk still fits its file.
LEMMA DroppedChunk ==
    ASSUME FeedInv, Pending, UNCHANGED <<now, bridges>>, tail'.files = tail.files,
           tail'.chunk = [run |-> Run, lines |-> Tail(tail.chunk.lines)]
    PROVE  /\ Followed' = Followed /\ Run' = Run /\ ChunkFits'
           /\ tail'.chunk \in [run : Nat, lines : Seq(Lines)]
<1> DEFINE lines == tail.chunk.lines
           rest == Tail(lines)
<1>1. /\ Run \in Followed /\ Run \in Nat
      /\ lines \in Seq(Lines) /\ rest \in Seq(Lines) /\ Len(rest) <= Len(lines)
      /\ \A k \in DOMAIN rest : k + 1 \in DOMAIN lines /\ rest[k] = lines[k + 1]
      /\ \A k, l \in DOMAIN rest : k <= l => k + 1 <= l + 1
  <2>1. lines = tail.chunk.lines /\ rest = Tail(lines)
    OBVIOUS
  <2> HIDE DEF lines, rest
  <2> QED
    BY <2>1, RestIs, SMTT(40)
<1> HIDE DEF rest
<1>2. tail'.chunk = [run |-> Run, lines |-> rest] /\ tail'.files = tail.files
      /\ file' = file
  BY DEF rest, bridges
<1>3. Followed' = Followed /\ Run' = Run /\ tail'.chunk.lines = rest
      /\ \A r : Complete(r)' = Complete(r)
  BY <1>2 DEF Followed, Run, Complete
<1>4. /\ Len(lines) <= Complete(Run) /\ Len(lines) \in Nat /\ Len(rest) \in Nat
      /\ Complete(Run) \in Nat
      /\ \A k \in DOMAIN lines :
            /\ SayN(lines[k])
            /\ \E i \in 1 .. tail.files[Run].offset : lines[k].at = file[Run][i].at
      /\ \A k, l \in DOMAIN lines : k <= l => lines[k].at <= lines[l].at
  <2>1. Complete(Run) \in Nat
    BY RestIs, FilesAre DEF Complete, FeedInv
  <2> QED
    BY <1>1, <2>1 DEF FeedInv, ChunkFits
<1> HIDE DEF lines
<1>5. \A k \in DOMAIN rest :
        /\ SayN(rest[k])
        /\ \E i \in 1 .. tail.files[Run].offset : rest[k].at = file[Run][i].at
  BY <1>1, <1>4
<1>6. \A k, l \in DOMAIN rest : k <= l => rest[k].at <= rest[l].at
  BY <1>1, <1>4
<1>7. Len(rest) <= Complete(Run)
  BY <1>1, <1>4
<1>8. ChunkFits'
  BY <1>1, <1>2, <1>3, <1>5, <1>6, <1>7 DEF ChunkFits
<1>9. tail'.chunk \in [run : Nat, lines : Seq(Lines)]
  <2>1. Run \in Nat /\ rest \in Seq(Lines) /\ tail'.chunk = [run |-> Run, lines |-> rest]
    BY <1>1, <1>2
  <2> HIDE DEF Run
  <2> QED
    BY <2>1, ChunksAre, Zenon
<1> QED
  BY <1>3, <1>8, <1>9

\* The first line of a chunk and those after it.
LEMMA HeadIs ==
    ASSUME FeedInv, Pending, NEW lines, lines = tail.chunk.lines, NEW rest, rest = Tail(lines)
    PROVE  /\ Run \in Followed /\ Run \in BridgeRuns /\ 1 \in DOMAIN lines /\ Head1 = lines[1]
           /\ \A k \in DOMAIN rest : k + 1 \in DOMAIN lines /\ rest[k] = lines[k + 1]
           /\ \A k \in DOMAIN lines : Head1.at <= lines[k].at /\ lines[k].at \in Nat
           /\ \A i \in DOMAIN file[Run] : i > tail.files[Run].offset => Head1.at <= file[Run][i].at
           /\ \A t \in torn : Head1.at <= t.line.at
           /\ Head1.at \in Nat
<1>1. /\ Run \in Followed /\ Run \in BridgeRuns /\ 1 \in DOMAIN lines /\ Head1 = lines[1]
      /\ \A k \in DOMAIN rest : k + 1 \in DOMAIN lines /\ rest[k] = lines[k + 1]
      /\ \A k \in DOMAIN lines : Head1.at <= lines[k].at
      /\ \A i \in DOMAIN file[Run] : i > tail.files[Run].offset => Head1.at <= file[Run][i].at
      /\ \A t \in torn : Head1.at <= t.line.at
      /\ Head1 \in Lines /\ lines \in Seq(Lines)
  BY RestIs, SMTT(25)
<1>2. \A k \in DOMAIN lines : lines[k] \in Lines
  BY <1>1
<1>3. \A l \in Lines : l.at \in Nat
  BY DEF Lines
<1> QED
  BY <1>1, <1>2, <1>3

\* A step that drops the line at hand and changes nothing but the session: what is to come
\* of the session fits as it did.
LEMMA DroppedFits ==
    ASSUME FeedInv, Pending, UNCHANGED <<now, bridges>>, StoreShape',
           tail'.files = tail.files, tail'.since = tail.since, tail'.todo = tail.todo,
           tail'.ignored = tail.ignored, tail'.storing = {},
           tail'.chunk = [run |-> Run, lines |-> Tail(tail.chunk.lines)],
           tail' = [up |-> tail.up, since |-> tail.since, ignored |-> tail.ignored,
                    files |-> tail.files, session |-> tail'.session, stopped |-> tail'.stopped,
                    todo |-> tail.todo, chunk |-> tail'.chunk, storing |-> {}],
           tail'.stopped \in BOOLEAN, tail'.session \subseteq Followed \cap Ids(store'),
           \A r \in tail'.session : tail'.session = {r},
           starts' \in 0 .. MaxStarts, failures' \in 0 .. MaxFailures,
           tail'.session = tail.session \/ (tail'.session = {Run} /\ tail.since <= Head1.at),
           TakenUpInOrder' =>
             \A q \in store'.rows :
                \/ /\ TakenUpInOrder /\ tail'.session = tail.session
                   /\ \E p \in store.rows : p.source = q.source
                \/ tail'.session = {Run} /\ q.source <= Head1.at
    PROVE  FeedInv'
<1> DEFINE lines == tail.chunk.lines
           rest == Tail(lines)
<1>1. /\ Run \in Followed /\ Run \in BridgeRuns /\ 1 \in DOMAIN lines /\ Head1 = lines[1]
      /\ \A k \in DOMAIN rest : k + 1 \in DOMAIN lines /\ rest[k] = lines[k + 1]
      /\ \A k \in DOMAIN lines : Head1.at <= lines[k].at /\ lines[k].at \in Nat
      /\ \A i \in DOMAIN file[Run] : i > tail.files[Run].offset => Head1.at <= file[Run][i].at
      /\ \A t \in torn : Head1.at <= t.line.at
      /\ Head1.at \in Nat
  <2>1. lines = tail.chunk.lines /\ rest = Tail(lines)
    OBVIOUS
  <2> HIDE DEF lines, rest, Run, Head1, Followed, Pending
  <2> QED
    BY <2>1, HeadIs
<1>2. /\ FilesFit' /\ LinesFit' /\ Files' = Files /\ Files \subseteq BridgeRuns
      /\ now' = now /\ file' = file /\ torn' = torn /\ \A x : Complete(x)' = Complete(x)
      /\ \A q, x : BeganAfter(x, q)' <=> BeganAfter(x, q)
  BY FilesStay, FilesAre DEF FeedInv, bridges
<1>3. /\ Followed' = Followed /\ Run' = Run /\ ChunkFits'
      /\ tail'.chunk \in [run : Nat, lines : Seq(Lines)]
  BY DroppedChunk
<1> HIDE DEF rest
<1>4. tail'.chunk.lines = rest
  BY DEF rest
<1> HIDE DEF lines
<1>5. TailFits'
  <2>1. /\ tail.up \in BOOLEAN /\ tail.since \in Nat /\ tail.ignored \in SUBSET BridgeRuns
        /\ tail.todo \in SUBSET BridgeRuns /\ tail'.session \in SUBSET BridgeRuns
        /\ tail'.files = tail.files
    <3>1. Followed \subseteq BridgeRuns
      BY <1>2 DEF FeedInv, TailFits
    <3> QED
      BY <3>1 DEF FeedInv, TailFits
  <2>2. tail' \in [up : BOOLEAN, since : Nat, ignored : SUBSET BridgeRuns,
                  files : {tail.files}, session : SUBSET BridgeRuns,
                  stopped : BOOLEAN, todo : SUBSET BridgeRuns,
                  chunk : [run : Nat, lines : Seq(Lines)], storing : SUBSET FeedRows]
    <3> DEFINE c == tail'.chunk
               s == tail'.session
               e == tail'.stopped
    <3>1. /\ tail' = [up |-> tail.up, since |-> tail.since, ignored |-> tail.ignored,
                      files |-> tail.files, session |-> s, stopped |-> e,
                      todo |-> tail.todo, chunk |-> c, storing |-> {}]
          /\ c \in [run : Nat, lines : Seq(Lines)] /\ s \in SUBSET BridgeRuns /\ e \in BOOLEAN
      BY <1>3, <2>1
    <3> HIDE DEF c, s, e
    <3> QED
      BY <2>1, <3>1, Zenon
  <2> QED
    BY <1>2, <1>3, <2>1, <2>2 DEF FeedInv, TailFits
<1>6. Pending' => Pending
  OBVIOUS
<1>7. SinceFits'
  <2>1. SUFFICES ASSUME NEW r \in tail'.session
                 PROVE  /\ Run = r => \A k \in DOMAIN rest :
                              rest[k].kind = "garbled" \/ tail.since <= rest[k].at
                        /\ \A i \in DOMAIN file[r] : i > tail.files[r].offset =>
                              \/ tail.files[r].garbled /\ i = tail.files[r].offset + 1
                              \/ tail.since <= file[r][i].at
                        /\ \A t \in torn : t.run = r =>
                              \/ tail.files[r].garbled /\ tail.files[r].offset = Complete(r)
                              \/ tail.since <= t.line.at
    BY <1>2, <1>3, <1>4 DEF SinceFits
  <2>2. CASE tail'.session = tail.session
    BY <1>1, <2>2 DEF FeedInv, SinceFits, lines
  <2>3. CASE tail'.session = {Run} /\ tail.since <= Head1.at
    <3>1. r = Run /\ tail.since \in Nat
      BY <2>3 DEF FeedInv, TailFits
    <3>2. \A k \in DOMAIN rest : tail.since <= rest[k].at
      BY <1>1, <2>3, <3>1
    <3>3. \A i \in DOMAIN file[r] : file[r][i].at \in Nat
      BY <1>1, <3>1, FilesAre DEF FeedInv, Lines
    <3>4. \A t \in torn : t.line.at \in Nat
      BY DEF FeedInv, FilesFit, Lines
    <3> QED
      BY <1>1, <2>3, <3>1, <3>2, <3>3, <3>4
  <2> QED
    BY <2>2, <2>3
<1>8. StoringFits'
  BY DEF StoringFits
<1>9. OrderFits'
  <2>1. SUFFICES ASSUME TakenUpInOrder', NEW q \in store'.rows, NEW r \in tail'.session
                 PROVE  /\ Run = r => \A k \in DOMAIN rest : q.source <= rest[k].at
                        /\ \A i \in DOMAIN file[r] : i > tail.files[r].offset =>
                              q.source <= file[r][i].at
                        /\ \A t \in torn : t.run = r => q.source <= t.line.at
    BY <1>2, <1>3, <1>4 DEF OrderFits
  <2>2. CASE /\ TakenUpInOrder /\ tail'.session = tail.session
             /\ \E p \in store.rows : p.source = q.source
    BY <1>1, <2>2 DEF FeedInv, OrderFits, lines
  <2>3. CASE tail'.session = {Run} /\ q.source <= Head1.at
    <3>1. r = Run /\ q.source \in Nat
      BY <2>3 DEF StoreShape, RowFits, FeedRows
    <3>2. \A k \in DOMAIN rest : q.source <= rest[k].at
      BY <1>1, <2>3, <3>1
    <3>3. \A i \in DOMAIN file[r] : file[r][i].at \in Nat
      BY <1>1, <3>1, FilesAre DEF FeedInv, Lines
    <3>4. \A t \in torn : t.line.at \in Nat
      BY DEF FeedInv, FilesFit, Lines
    <3> QED
      BY <1>1, <2>3, <3>1, <3>2, <3>3, <3>4
  <2> QED
    BY <2>1, <2>2, <2>3
<1> QED
  BY <1>2, <1>3, <1>5, <1>7, <1>8, <1>9 DEF FeedInv

\* A start that is accepted opens a session that began after all rows, if runs are taken
\* up in order.
LEMMA AcceptStartFits ==
    ASSUME FeedInv, AcceptStart
    PROVE  FeedInv'
<1>1. /\ Pending /\ tail.storing = {} /\ Hears(Head1) /\ store' = Started(store, Run, Head1.at)
      /\ tail' = [Drop EXCEPT !.session = {Run}, !.stopped = FALSE]
      /\ UNCHANGED <<now, bridges>> /\ starts' \in 0 .. MaxStarts /\ failures' \in 0 .. MaxFailures
  BY DEF AcceptStart, FeedInv, FilesFit
<1>2. Run \in Followed /\ Run \in Files /\ Head1 \in Lines
      /\ \E i \in DOMAIN file[Run] : Head1.at = file[Run][i].at
  BY <1>1, RestIs
<1>3. Head1.at \in Nat /\ tail.since <= Head1.at /\ Run \notin Ids(store)
  BY <1>1, <1>2 DEF Hears, MayStart, Lines
<1>4. /\ StoreShape' /\ Ids(store') = Ids(store) \cup {Run} /\ store'.rows = store.rows
      /\ TakenUpInOrder' => \A q \in store.rows : q.source <= Head1.at
  <2>1. /\ TakenUpInOrder' => \A q \in store.rows : \A i \in DOMAIN file[Run] : q.source <= file[Run][i].at
        /\ StoreShape' /\ Ids(store') = Ids(store) \cup {Run} /\ store'.rows = store.rows
    <3>1. store' = Started(store, Run, Head1.at)
      BY <1>1
    <3> HIDE DEF Run, Head1
    <3> QED
      BY <1>1, <1>2, <1>3, <3>1, TakenUp
  <2> QED
    BY <1>2, <2>1
<1>5. /\ tail'.files = tail.files /\ tail'.since = tail.since /\ tail'.todo = tail.todo
      /\ tail'.ignored = tail.ignored /\ tail'.storing = {} /\ tail'.session = {Run}
      /\ tail'.stopped = FALSE
      /\ tail'.chunk = [run |-> Run, lines |-> Tail(tail.chunk.lines)]
      /\ tail' = [up |-> tail.up, since |-> tail.since, ignored |-> tail.ignored,
                  files |-> tail.files, session |-> tail'.session, stopped |-> tail'.stopped,
                  todo |-> tail.todo, chunk |-> tail'.chunk, storing |-> {}]
  <2> DEFINE c == [run |-> Run, lines |-> Tail(tail.chunk.lines)]
             s == {Run}
  <2>1. TailFits
    BY DEF FeedInv
  <2>2. Drop = [up |-> tail.up, since |-> tail.since, ignored |-> tail.ignored,
                files |-> tail.files, session |-> tail.session, stopped |-> tail.stopped,
                todo |-> tail.todo, chunk |-> c, storing |-> tail.storing]
    BY <2>1, DropIs
  <2>3. tail' = [Drop EXCEPT !.session = s, !.stopped = FALSE] /\ tail.storing = {}
    BY <1>1
  <2> HIDE DEF c, s, Drop
  <2>4. /\ tail'.files = tail.files /\ tail'.since = tail.since /\ tail'.todo = tail.todo
        /\ tail'.ignored = tail.ignored /\ tail'.storing = {} /\ tail'.session = s
        /\ tail'.stopped = FALSE /\ tail'.chunk = c
        /\ tail' = [up |-> tail.up, since |-> tail.since, ignored |-> tail.ignored,
                    files |-> tail.files, session |-> s, stopped |-> FALSE,
                    todo |-> tail.todo, chunk |-> c, storing |-> {}]
    BY <2>2, <2>3
  <2> QED
    BY <2>4 DEF c, s
<1> HIDE DEF Run, Head1, Followed, Pending
<1> QED
  BY <1>1, <1>2, <1>3, <1>4, <1>5, DroppedFits

\* Ids and order of the sessions do not depend on what else the store holds.
LEMMA SameSessions ==
    ASSUME NEW s, NEW s2, DOMAIN s2.sessions = DOMAIN s.sessions,
           \A n \in DOMAIN s.sessions : s2.sessions[n].id = s.sessions[n].id
    PROVE  Ids(s2) = Ids(s)
BY DEF Ids, ToSet

\* A quote that is accepted is the row to be published, and none is newer if runs were
\* taken up in order.
LEMMA AcceptQuoteFits ==
    ASSUME FeedInv, AcceptQuote
    PROVE  FeedInv'
<1> DEFINE lines == tail.chunk.lines
<1>0. PICK entry : entry = Row(Head1)
  OBVIOUS
<1>1. /\ Pending /\ tail.storing = {} /\ Stores(Head1) /\ store' = Inserted(store, entry)
      /\ tail' = [tail EXCEPT !.storing = {entry}]
      /\ UNCHANGED <<now, bridges>> /\ starts' \in 0 .. MaxStarts /\ failures' \in 0 .. MaxFailures
  BY <1>0 DEF AcceptQuote, FeedInv, FilesFit
<1>2. /\ Run \in Followed /\ Run \in Nat /\ Run \in BridgeRuns
      /\ Head1 \in Lines /\ 1 \in DOMAIN lines /\ Head1 = lines[1] /\ Head1.at <= now
      /\ \E i \in DOMAIN file[Run] : Head1.at = file[Run][i].at
      /\ \A k \in DOMAIN lines : Head1.at <= lines[k].at
      /\ \A i \in DOMAIN file[Run] : i > tail.files[Run].offset => Head1.at <= file[Run][i].at
      /\ \A t \in torn : Head1.at <= t.line.at
  BY <1>1, RestIs
<1>3. /\ entry = [session |-> Run, seq |-> Head1.n, source |-> Head1.at, bridge |-> Head1.at,
               received |-> now, available |-> 0]
      /\ entry \in FeedRows
  BY <1>0, <1>2, FilesAre DEF Row, Never, Lines, FeedRows, FeedInv
<1>4. /\ Run \in tail.session /\ tail.session = {Run} /\ Run \in Ids(store)
      /\ Head1.kind = "quote" /\ Head1.n \in 1 .. MaxQuotes
      /\ tail.since <= Head1.at
  <2>1. Run \in tail.session /\ Head1.kind = "quote"
    BY <1>1 DEF Stores, InSession
  <2>2. tail.session = {Run} /\ Run \in Ids(store)
    BY <2>1 DEF FeedInv, TailFits
  <2>3. SayN(Head1) /\ (Head1.kind = "garbled" \/ tail.since <= Head1.at)
    BY <1>1, <1>2, <2>1 DEF FeedInv, ChunkFits, SinceFits
  <2> QED
    BY <2>1, <2>2, <2>3 DEF SayN
<1>5. /\ tail'.files = tail.files /\ tail'.since = tail.since /\ tail'.todo = tail.todo
      /\ tail'.ignored = tail.ignored /\ tail'.storing = {entry} /\ tail'.session = tail.session
      /\ tail'.chunk = tail.chunk
      /\ tail' = [up |-> tail.up, since |-> tail.since, ignored |-> tail.ignored,
                  files |-> tail.files, session |-> tail.session, stopped |-> tail.stopped,
                  todo |-> tail.todo, chunk |-> tail.chunk, storing |-> {entry}]
  BY <1>1, TailIs DEF FeedInv
<1>6. /\ store'.rows = store.rows \cup {entry} /\ store'.sessions = store.sessions
      /\ Ids(store') = Ids(store) /\ store' \in FeedStores
  <2>1. store \in FeedStores
    BY DEF FeedInv, StoreShape
  <2>2. /\ store'.rows = store.rows \cup {entry} /\ store'.sessions = store.sessions
        /\ store' \in FeedStores
    BY <1>1, <1>3, <2>1 DEF Inserted, FeedStores
  <2> QED
    BY <2>2 DEF Ids
<1>7. /\ FilesFit' /\ LinesFit' /\ Files' = Files
      /\ now' = now /\ file' = file /\ torn' = torn /\ \A x : Complete(x)' = Complete(x)
      /\ \A q, x : BeganAfter(x, q)' <=> BeganAfter(x, q)
      /\ \A q : RowFits(q) => RowFits(q)'
  BY <1>1, <1>6, FilesStay DEF bridges
<1>8. Followed' = Followed /\ Pending' = Pending /\ Run' = Run
  BY <1>5 DEF Followed, Pending, Run
<1>9. StoreShape'
  <2>1. RowFits(entry)'
    <3>1. /\ entry.session = Run /\ entry.seq = Head1.n /\ entry.source = Head1.at
          /\ entry.received = now /\ entry.available = 0
      BY <1>3
    <3>2. now \in Nat
      BY FilesAre DEF FeedInv
    <3> HIDE DEF Run, Head1
    <3>3. \E i \in DOMAIN file'[entry.session] : entry.source = file'[entry.session][i].at
      BY <1>2, <1>7, <3>1
    <3>4. entry.session \in Ids(store') /\ entry.seq \in 1 .. MaxQuotes
      BY <1>4, <1>6, <3>1
    <3> QED
      BY <1>3, <1>7, <3>1, <3>2, <3>3, <3>4 DEF RowFits
  <2>2. Ids(store) \subseteq Files /\ \A q \in store.rows : RowFits(q)'
    BY <1>7 DEF FeedInv, StoreShape
  <2>3. \A q \in store'.rows : RowFits(q)'
    BY <1>6, <2>1, <2>2
  <2> QED
    BY <1>6, <1>7, <2>2, <2>3 DEF StoreShape
<1>10. TailFits'
  <2>1. /\ tail.up \in BOOLEAN /\ tail.since \in Nat /\ tail.ignored \in SUBSET BridgeRuns
        /\ tail.todo \in SUBSET BridgeRuns /\ tail.session \in SUBSET BridgeRuns
        /\ tail.stopped \in BOOLEAN /\ tail.chunk \in [run : Nat, lines : Seq(Lines)]
    BY DEF FeedInv, TailFits
  <2>2. tail' \in [up : BOOLEAN, since : Nat, ignored : SUBSET BridgeRuns,
                  files : {tail'.files}, session : SUBSET BridgeRuns,
                  stopped : BOOLEAN, todo : SUBSET BridgeRuns,
                  chunk : [run : Nat, lines : Seq(Lines)], storing : SUBSET FeedRows]
    <3>1. {entry} \in SUBSET FeedRows /\ tail.files \in {tail'.files}
      BY <1>3, <1>5
    <3> QED
      BY <1>5, <2>1, <3>1, Zenon
  <2> QED
    BY <1>5, <1>6, <1>7, <1>8, <2>2 DEF FeedInv, TailFits
<1>11. ChunkFits'
  BY <1>5, <1>7, <1>8 DEF FeedInv, ChunkFits
<1>12. SinceFits'
  BY <1>5, <1>7, <1>8 DEF FeedInv, SinceFits
<1>13. StoringFits'
  <2>1. Unpublished(entry) /\ entry.bridge = Head1.at
    BY <1>3 DEF Unpublished, Never
  <2> HIDE DEF Head1
  <2> QED
    BY <1>1, <1>4, <1>5, <1>6, <1>8, <2>1 DEF StoringFits
<1>14. OrderFits'
  <2>1. SUFFICES ASSUME TakenUpInOrder, NEW q \in store.rows \cup {entry}
                 PROVE  /\ q.source <= entry.source
                        /\ \A k \in DOMAIN lines : q.source <= lines[k].at
                        /\ \A i \in DOMAIN file[Run] : i > tail.files[Run].offset =>
                              q.source <= file[Run][i].at
                        /\ \A t \in torn : t.run = Run => q.source <= t.line.at
    <3>1. TakenUpInOrder' => TakenUpInOrder
      BY <1>6, <1>7 DEF TakenUpInOrder
    <3> QED
      BY <1>4, <1>5, <1>6, <1>7, <1>8, <3>1 DEF OrderFits
  <2>2. entry.source = Head1.at /\ Head1.at \in Nat
    BY <1>2, <1>3 DEF Lines
  <2>3. CASE q = entry
    BY <1>2, <2>2, <2>3
  <2>4. CASE q \in store.rows
    <3>1. /\ \A k \in DOMAIN lines : q.source <= lines[k].at
          /\ \A i \in DOMAIN file[Run] : i > tail.files[Run].offset => q.source <= file[Run][i].at
          /\ \A t \in torn : t.run = Run => q.source <= t.line.at
      BY <1>1, <1>4, <2>1, <2>4 DEF FeedInv, OrderFits
    <3> QED
      BY <1>2, <2>2, <3>1
  <2> QED
    BY <2>3, <2>4
<1> QED
  BY <1>7, <1>9, <1>10, <1>11, <1>12, <1>13, <1>14 DEF FeedInv

\* What dropping the line at hand, and nothing else but perhaps what is being recorded and
\* whether the session has stopped, does to the collector.
LEMMA DroppedIs ==
    ASSUME TailFits, NEW e \in BOOLEAN,
           tail' = [tail EXCEPT !.chunk = Drop.chunk, !.stopped = e, !.storing = {}]
    PROVE  /\ tail'.files = tail.files /\ tail'.since = tail.since /\ tail'.todo = tail.todo
           /\ tail'.ignored = tail.ignored /\ tail'.storing = {} /\ tail'.session = tail.session
           /\ tail'.stopped = e /\ tail'.chunk = [run |-> Run, lines |-> Tail(tail.chunk.lines)]
           /\ tail' = [up |-> tail.up, since |-> tail.since, ignored |-> tail.ignored,
                       files |-> tail.files, session |-> tail'.session, stopped |-> tail'.stopped,
                       todo |-> tail.todo, chunk |-> tail'.chunk, storing |-> {}]
<1> DEFINE c == [run |-> Run, lines |-> Tail(tail.chunk.lines)]
<1>1. Drop.chunk = c
  BY DropIs
<1>2. tail' = [tail EXCEPT !.chunk = c, !.stopped = e, !.storing = {}]
  BY <1>1
<1> HIDE DEF c
<1>3. /\ tail'.files = tail.files /\ tail'.since = tail.since /\ tail'.todo = tail.todo
      /\ tail'.ignored = tail.ignored /\ tail'.storing = {} /\ tail'.session = tail.session
      /\ tail'.stopped = e /\ tail'.chunk = c
      /\ tail' = [up |-> tail.up, since |-> tail.since, ignored |-> tail.ignored,
                  files |-> tail.files, session |-> tail.session, stopped |-> e,
                  todo |-> tail.todo, chunk |-> c, storing |-> {}]
  BY <1>2, TailIs
<1> QED
  BY <1>3 DEF c

\* The store may have changed, but neither its sessions nor what its rows say.
LEMMA DropFits ==
    ASSUME FeedInv, Pending, UNCHANGED <<now, bridges, starts, failures>>, StoreShape',
           NEW e \in BOOLEAN,
           tail' = [tail EXCEPT !.chunk = Drop.chunk, !.stopped = e, !.storing = {}],
           DOMAIN store'.sessions = DOMAIN store.sessions,
           \A n \in DOMAIN store.sessions : store'.sessions[n].id = store.sessions[n].id,
           \A q \in store'.rows : \E p \in store.rows : p.source = q.source
    PROVE  FeedInv'
<1>1. starts' \in 0 .. MaxStarts /\ failures' \in 0 .. MaxFailures
  BY DEF FeedInv, FilesFit
<1>2. TailFits
  BY DEF FeedInv
<1>3. /\ tail'.files = tail.files /\ tail'.since = tail.since /\ tail'.todo = tail.todo
      /\ tail'.ignored = tail.ignored /\ tail'.storing = {} /\ tail'.session = tail.session
      /\ tail'.stopped \in BOOLEAN /\ tail'.chunk = [run |-> Run, lines |-> Tail(tail.chunk.lines)]
      /\ tail' = [up |-> tail.up, since |-> tail.since, ignored |-> tail.ignored,
                  files |-> tail.files, session |-> tail'.session, stopped |-> tail'.stopped,
                  todo |-> tail.todo, chunk |-> tail'.chunk, storing |-> {}]
  BY <1>2, DroppedIs
<1>4. Ids(store') = Ids(store)
  BY SameSessions
<1>5. tail'.session \subseteq Followed \cap Ids(store') /\ \A r \in tail'.session : tail'.session = {r}
  BY <1>2, <1>3, <1>4 DEF TailFits
<1>6. TakenUpInOrder' => TakenUpInOrder
  BY DEF TakenUpInOrder, bridges, BeganAfter
<1>7. TakenUpInOrder' =>
        \A q \in store'.rows :
           /\ TakenUpInOrder /\ tail'.session = tail.session
           /\ \E p \in store.rows : p.source = q.source
  BY <1>3, <1>6
<1> HIDE DEF Run, Head1, Followed, Pending
<1> QED
  BY <1>1, <1>3, <1>5, <1>7, DroppedFits

\* The second transaction makes a row visible and changes nothing else of it.
LEMMA PublishFits ==
    ASSUME FeedInv, Publish
    PROVE  FeedInv'
<1>1. PICK q \in tail.storing : store' = Published(store, q, now)
  BY DEF Publish
<1>2. /\ UNCHANGED <<now, bridges, starts, failures>> /\ tail' = [Drop EXCEPT !.storing = {}]
      /\ starts' \in 0 .. MaxStarts /\ failures' \in 0 .. MaxFailures
  BY DEF Publish, FeedInv, FilesFit
<1>3. /\ Pending /\ q \in store.rows /\ q \in FeedRows /\ RowFits(q)
  BY DEF FeedInv, StoringFits, StoreShape, RowFits
<1>4. PICK p : p = [q EXCEPT !.available = now]
  OBVIOUS
<1>5. now \in Nat /\ now' = now /\ file' = file
  BY <1>2, FilesAre DEF FeedInv, bridges
<1>6. /\ p \in FeedRows /\ p.session = q.session /\ p.seq = q.seq /\ p.source = q.source
      /\ p.received = q.received /\ p.available = now
  BY <1>3, <1>4, <1>5 DEF FeedRows
<1>7. RowFits(p)
  BY <1>3, <1>5, <1>6 DEF RowFits
<1>8. /\ store' \in FeedStores /\ store'.sessions = store.sessions
      /\ store'.rows = (store.rows \ {q}) \cup {p}
  <2>1. store \in FeedStores
    BY DEF FeedInv, StoreShape
  <2> QED
    BY <1>1, <1>4, <1>6, <2>1 DEF Published, FeedStores
<1>9. StoreShape'
  <2>1. Ids(store') = Ids(store) /\ Files' = Files
    BY <1>2, <1>8 DEF Ids, Files, bridges
  <2>2. \A x : RowFits(x) => RowFits(x)'
    BY <1>5, <2>1 DEF RowFits
  <2> QED
    BY <1>7, <1>8, <2>1, <2>2 DEF FeedInv, StoreShape
<1>10. tail' = [tail EXCEPT !.chunk = Drop.chunk, !.stopped = tail.stopped, !.storing = {}]
  <2>1. Drop = [tail EXCEPT !.chunk = Drop.chunk]
    BY TailIs, DropIs DEF FeedInv
  <2> HIDE DEF Drop
  <2>2. tail = [tail EXCEPT !.stopped = tail.stopped]
    BY TailIs DEF FeedInv
  <2> QED
    BY <1>2, <2>1, <2>2, TailIs DEF FeedInv
<1>11. tail.stopped \in BOOLEAN
  BY DEF FeedInv, TailFits
<1>12. \A x \in store'.rows : \E y \in store.rows : y.source = x.source
  BY <1>3, <1>6, <1>8
<1> HIDE DEF Drop
<1> QED
  BY <1>2, <1>3, <1>8, <1>9, <1>10, <1>11, <1>12, DropFits

\* A stop is written into its session.
LEMMA WithStopIs ==
    ASSUME NEW st \in FeedStores, NEW id, NEW n \in Nat, NEW s2, s2 = WithStop(st, id, n)
    PROVE  /\ s2 \in FeedStores /\ s2.rows = st.rows
           /\ DOMAIN s2.sessions = DOMAIN st.sessions
           /\ \A m \in DOMAIN st.sessions : s2.sessions[m].id = st.sessions[m].id
<1> DEFINE S == [id : Nat, at : Nat, stop : Seq(Nat)]
           new == [m \in DOMAIN st.sessions |->
                     IF st.sessions[m].id = id THEN [st.sessions[m] EXCEPT !.stop = <<n>>]
                     ELSE st.sessions[m]]
<1>1. st.sessions \in Seq(S) /\ st.rows \in SUBSET FeedRows
  BY DEF FeedStores
<1>2. s2 = [st EXCEPT !.sessions = new]
  BY DEF WithStop
<1>3. <<n>> \in Seq(Nat)
  OBVIOUS
<1>4. \A x \in S : [x EXCEPT !.stop = <<n>>] \in S /\ [x EXCEPT !.stop = <<n>>].id = x.id
  BY <1>3
<1> HIDE DEF S
<1>5. /\ DOMAIN new = DOMAIN st.sessions
      /\ \A m \in DOMAIN st.sessions : new[m] \in S /\ new[m].id = st.sessions[m].id
  BY <1>1, <1>4
<1>6. DOMAIN st.sessions = 1 .. Len(st.sessions) /\ Len(st.sessions) \in Nat
  BY <1>1
<1>7. new \in Seq(S)
  <2>1. new \in [1 .. Len(st.sessions) -> S]
    BY <1>5, <1>6
  <2> HIDE DEF new
  <2> QED
    BY <1>6, <2>1
<1> HIDE DEF new
<1>8. s2 = [sessions |-> new, rows |-> st.rows]
  BY <1>2 DEF FeedStores
<1>9. s2 \in [sessions : Seq(S), rows : SUBSET FeedRows]
  BY <1>1, <1>7, <1>8
<1> QED
  BY <1>5, <1>8, <1>9 DEF FeedStores, S

\* A stop that is accepted ends the session.
LEMMA AcceptStopFits ==
    ASSUME FeedInv, AcceptStop
    PROVE  FeedInv'
<1>1. /\ Pending /\ store' = WithStop(store, Run, Head1.n) /\ tail.storing = {}
      /\ tail' = [Drop EXCEPT !.stopped = TRUE] /\ UNCHANGED <<now, bridges, starts, failures>>
  BY DEF AcceptStop
<1>2. Head1.n \in Nat
  BY <1>1, RestIs DEF Lines
<1>3. /\ store' \in FeedStores /\ store'.rows = store.rows
      /\ DOMAIN store'.sessions = DOMAIN store.sessions
      /\ \A m \in DOMAIN store.sessions : store'.sessions[m].id = store.sessions[m].id
  <2>1. store \in FeedStores
    BY DEF FeedInv, StoreShape
  <2> HIDE DEF Run, Head1
  <2> QED
    BY <1>1, <1>2, <2>1, WithStopIs
<1>4. Ids(store') = Ids(store) /\ Files' = Files /\ now' = now /\ file' = file
  BY <1>1, <1>3, SameSessions DEF Files, bridges
<1>5. StoreShape'
  <2>1. \A x : RowFits(x) => RowFits(x)'
    BY <1>4 DEF RowFits
  <2> QED
    BY <1>3, <1>4, <2>1 DEF FeedInv, StoreShape
<1>6. tail' = [tail EXCEPT !.chunk = Drop.chunk, !.stopped = TRUE, !.storing = {}]
  <2>1. Drop = [tail EXCEPT !.chunk = Drop.chunk]
    BY TailIs, DropIs DEF FeedInv
  <2> HIDE DEF Drop
  <2> QED
    BY <1>1, <2>1, TailIs DEF FeedInv
<1> HIDE DEF Drop
<1> QED
  BY <1>1, <1>3, <1>5, <1>6, DropFits

\* A line that is not understood is dropped.
LEMMA RejectFits ==
    ASSUME FeedInv, Reject
    PROVE  FeedInv'
<1>1. /\ Pending /\ tail.storing = {} /\ tail' = Drop
      /\ UNCHANGED <<now, bridges, store, starts, failures>>
  BY DEF Reject
<1>2. StoreShape'
  <2>1. /\ store' = store /\ Files' = Files /\ now' = now /\ file' = file
    BY <1>1 DEF Files, bridges
  <2>2. \A x : RowFits(x) => RowFits(x)'
    BY <2>1 DEF RowFits
  <2> QED
    BY <2>1, <2>2 DEF FeedInv, StoreShape
<1>3. tail' = [tail EXCEPT !.chunk = Drop.chunk, !.stopped = tail.stopped, !.storing = {}]
  <2>1. Drop = [tail EXCEPT !.chunk = Drop.chunk]
    BY TailIs, DropIs DEF FeedInv
  <2> HIDE DEF Drop
  <2> QED
    BY <1>1, <2>1, TailIs DEF FeedInv
<1>4. tail.stopped \in BOOLEAN
  BY DEF FeedInv, TailFits
<1> HIDE DEF Drop
<1> QED
  BY <1>1, <1>2, <1>3, <1>4, DropFits

\* Time goes on.
LEMMA FeedTickFits ==
    ASSUME FeedInv, FeedTick
    PROVE  FeedInv'
<1>1. /\ now' = now + 1 /\ now < MaxTime /\ UNCHANGED <<bridges, store, tail, starts, failures>>
      /\ now \in Nat /\ MaxTime \in Nat
  BY FilesAre, FeedBounds DEF FeedTick, FeedInv
<1>2. now' \in 1 .. MaxTime /\ now <= now'
  BY <1>1
<1>3. /\ file' = file /\ torn' = torn /\ bridge' = bridge /\ written' = written
      /\ Files' = Files /\ \A q, r : BeganAfter(r, q)' <=> BeganAfter(r, q)
  BY <1>1 DEF bridges, Files, BeganAfter
<1>4. FilesFit'
  BY <1>1, <1>2, <1>3 DEF FeedInv, FilesFit
<1>5. LinesFit'
  <2>1. \A r \in BridgeRuns : \A i \in DOMAIN file[r] : file[r][i].at <= now'
    <3>1. \A r \in BridgeRuns : \A i \in DOMAIN file[r] : file[r][i].at \in Nat
      BY FilesAre DEF FeedInv, Lines
    <3> QED
      BY <1>1, <3>1 DEF FeedInv, LinesFit
  <2>2. \A t \in torn : t.line.at <= now'
    <3>1. \A t \in torn : t.line.at \in Nat
      BY DEF FeedInv, FilesFit, Lines
    <3> QED
      BY <1>1, <3>1 DEF FeedInv, LinesFit
  <2> QED
    BY <1>3, <2>1, <2>2 DEF FeedInv, LinesFit
<1> QED
  BY <1>1, <1>2, <1>4, <1>5, FilesGrown
-----------------------------------------------------------------------------
\* The invariant of the feed holds when it begins.
LEMMA FeedInitFits == FeedInit => FeedInv
<1> SUFFICES ASSUME FeedInit PROVE FeedInv
  OBVIOUS
<1>1. /\ now = 1 /\ file = [r \in BridgeRuns |-> <<>>] /\ torn = {} /\ bridge = {}
      /\ written = <<>> /\ store = EmptyStore /\ tail = Down /\ starts = 0 /\ failures = 0
  BY DEF FeedInit
<1>2. FilesFit
  <2>1. now \in 1 .. MaxTime /\ starts \in 0 .. MaxStarts /\ failures \in 0 .. MaxFailures
    BY <1>1, FeedBounds
  <2>2. \A r \in BridgeRuns : file[r] = <<>>
    BY <1>1
  <2>3. file \in [BridgeRuns -> Seq(Lines)] /\ written \in Seq(BridgeRuns)
    BY <1>1
  <2>4. \A m, n \in DOMAIN written : written[m] = written[n] => m = n
    BY <1>1
  <2> QED
    BY <1>1, <2>1, <2>2, <2>3, <2>4 DEF FilesFit
<1>3. \A q, r : ~BeganAfter(r, q)
  BY <1>1 DEF BeganAfter
<1>4. \A r \in BridgeRuns : DOMAIN file[r] = {}
  BY <1>1
<1>5. LinesFit
  BY <1>1, <1>3, <1>4 DEF LinesFit
<1>6. StoreShape
  <2>1. Ids(store) = {}
    BY <1>1 DEF EmptyStore, Ids, ToSet
  <2>2. store \in FeedStores /\ store.rows = {}
    BY <1>1 DEF EmptyStore, FeedStores
  <2> QED
    BY <2>1, <2>2 DEF StoreShape
<1>7. /\ tail.since = 0 /\ tail.ignored = {} /\ tail.files = <<>> /\ tail.session = {}
      /\ tail.todo = {} /\ tail.chunk = NoChunk /\ tail.storing = {}
  BY <1>1 DEF Down
<1>8. TailFits
  <2>1. NoChunk \in [run : Nat, lines : Seq(Lines)]
    BY DEF NoChunk
  <2>2. tail \in [up : BOOLEAN, since : Nat, ignored : SUBSET BridgeRuns, files : {tail.files},
                 session : SUBSET BridgeRuns, stopped : BOOLEAN, todo : SUBSET BridgeRuns,
                 chunk : [run : Nat, lines : Seq(Lines)], storing : SUBSET FeedRows]
    BY <1>1, <2>1 DEF Down
  <2>3. IsFiniteSet({}) /\ Cardinality({}) <= MaxFiles
    BY FS_EmptySet, FeedBounds
  <2>4. Followed = {} /\ tail.files \in [Followed -> Positions]
    BY <1>7 DEF Followed
  <2> QED
    BY <1>1, <1>7, <2>2, <2>3, <2>4 DEF TailFits
<1>9. ~Pending
  BY <1>7 DEF Pending, NoChunk
<1> QED
  BY <1>2, <1>5, <1>6, <1>7, <1>8, <1>9 DEF FeedInv, ChunkFits, SinceFits, StoringFits, OrderFits

\* Every step of the feed keeps its invariant.
LEMMA FeedStepFits == FeedInv /\ [FeedNext]_feedVars => FeedInv'
<1> SUFFICES ASSUME FeedInv, [FeedNext]_feedVars PROVE FeedInv'
  OBVIOUS
<1>1. CASE \/ LineEnds \/ BridgeDies
           \/ \E r \in BridgeRuns : BridgeStarts(r) \/ BridgeQuotes(r) \/ BridgeStops(r)
  <2>1. FilesFit' /\ LinesFit' /\ FilesGrow
    BY <1>1, BridgeSteps DEF FeedInv
  <2>2. UNCHANGED <<now, store, tail>> /\ now <= now'
    <3>1. UNCHANGED <<now, store, tail>>
      BY <1>1 DEF LineEnds, BridgeDies, BridgeStarts, BridgeQuotes, BridgeStops
    <3> QED
      BY <3>1, FilesAre DEF FeedInv
  <2> QED
    BY <2>1, <2>2, FilesGrown
<1>2. CASE RunnerStarts
  BY <1>2, RunnerStartFits
<1>3. CASE RunnerDies
  BY <1>3, RunnerDeathFits
<1>4. CASE Poll
  BY <1>4, PollSteps
<1>5. CASE Accept
  BY <1>5, AcceptStartFits, AcceptQuoteFits, PublishFits, AcceptStopFits, RejectFits DEF Accept
<1>6. CASE FeedTick
  BY <1>6, FeedTickFits
<1>7. CASE UNCHANGED feedVars
  <2>1. UNCHANGED <<now, bridges, store, tail, starts, failures>>
    BY <1>7 DEF feedVars, bridges
  <2>2. FilesFit' /\ LinesFit' /\ now <= now'
    <3>1. starts' \in 0 .. MaxStarts /\ failures' \in 0 .. MaxFailures /\ now \in Nat /\ now' = now
      BY <2>1, FilesAre DEF FeedInv, FilesFit
    <3> QED
      BY <2>1, <3>1, FilesStay
  <2> QED
    BY <2>1, <2>2, FilesGrown
<1> QED
  BY <1>1, <1>2, <1>3, <1>4, <1>5, <1>6, <1>7 DEF FeedNext
-----------------------------------------------------------------------------
\* The invariant is strong enough for the two invariants of FeedMovesForward.
LEMMA FeedInvSuffices == FeedInv => FeedTypeOK /\ NoBackfill
<1> SUFFICES ASSUME FeedInv PROVE FeedTypeOK /\ NoBackfill
  OBVIOUS
<1>1. Cardinality(bridge) <= 1
  <2>1. CASE bridge = {}
    BY <2>1, FS_EmptySet
  <2>2. CASE bridge = {Last(written)}
    BY <2>2, FS_Singleton
  <2> QED
    BY <2>1, <2>2 DEF FeedInv, FilesFit
<1>2. NoBackfill
  BY DEF FeedInv, StoringFits, NoBackfill
<1>3. FeedTypeOK
  BY <1>1 DEF FeedInv, FilesFit, StoreShape, RowFits, TailFits, ChunkFits, FeedTypeOK
<1> QED
  BY <1>2, <1>3

\* Of two rows that are both the latest, neither is older.
LEMMA LatestAgree ==
    ASSUME NEW st, st.rows \subseteq FeedRows, NEW c, NEW q \in Latest(st, c), NEW r \in Latest(st, c)
    PROVE  q.source = r.source
<1>1. q \in FeedRows /\ r \in FeedRows /\ ~Newer(q, r) /\ ~Newer(r, q)
  BY DEF Latest, Visible
<1>2. /\ q.received \in Nat /\ r.received \in Nat /\ q.source \in Nat /\ r.source \in Nat
  BY <1>1 DEF FeedRows
<1> QED
  BY <1>1, <1>2 DEF Newer

\* If runs were taken up in order, no step replaces the latest quote by an older one.
LEMMA FeedStepForward ==
    FeedInv /\ FeedInv' /\ [FeedNext]_feedVars =>
      (TakenUpInOrder' =>
         \A q \in Latest(store, now) : \A r \in Latest(store, now)' : q.source <= r.source)
<1> SUFFICES ASSUME FeedInv, FeedInv', [FeedNext]_feedVars, TakenUpInOrder',
                    NEW q \in Latest(store, now), NEW r \in Latest(store, now)'
             PROVE  q.source <= r.source
  OBVIOUS
<1>1. /\ now \in Nat /\ now' \in Nat /\ now <= now' /\ store.rows \subseteq FeedRows
  <2>1. now \in Nat /\ store.rows \subseteq FeedRows
    BY FilesAre DEF FeedInv, StoreShape, RowFits
  <2>2. now' = now \/ now' = now + 1
    BY DEF FeedNext, LineEnds, BridgeDies, BridgeStarts, BridgeQuotes, BridgeStops, RunnerStarts,
           RunnerDies, Poll, PollBegins, PollReads, PollRaises, Accept, AcceptStart, AcceptQuote,
           Publish, AcceptStop, Reject, FeedTick, feedVars
  <2> QED
    BY <2>1, <2>2
<1>2. \A x \in store.rows : x.source \in Nat /\ x.available <= now /\ x.available \in Nat
  BY DEF FeedInv, StoreShape, RowFits, FeedRows
<1>3. CASE Visible(store', now') = Visible(store, now)
  <2>1. r \in Latest(store, now)
    BY <1>3 DEF Latest
  <2>2. q.source = r.source
    BY <1>1, <2>1, LatestAgree
  <2> QED
    BY <1>2, <2>2 DEF Latest, Visible
<1>4. Visible(store, now) = {x \in store.rows : ~Unpublished(x)}
  BY <1>2 DEF Visible
<1>5. Visible(store', now') = {x \in store'.rows : ~Unpublished(x)}
  BY DEF Visible, FeedInv, StoreShape, RowFits
<1>6. CASE Publish
  <2>1. PICK q0 \in tail.storing : store' = Published(store, q0, now)
    BY <1>6 DEF Publish
  <2>2. PICK p : p = [q0 EXCEPT !.available = now]
    OBVIOUS
  <2>3. q0 \in store.rows /\ Unpublished(q0) /\ q0 \in FeedRows
    BY <1>1 DEF FeedInv, StoringFits
  <2>4. p.source = q0.source
    BY <2>2, <2>3 DEF FeedRows
  <2>5. store'.rows = (store.rows \ {q0}) \cup {p} /\ store'.sessions = store.sessions
    <3>1. store \in FeedStores
      BY DEF FeedInv, StoreShape
    <3> QED
      BY <2>1, <2>2, <3>1 DEF Published, FeedStores
  <2>6. CASE r = p
    <3>1. TakenUpInOrder
      BY <1>6, <2>5 DEF TakenUpInOrder, Publish, bridges, BeganAfter
    <3>2. q \in store.rows
      BY DEF Latest, Visible
    <3> QED
      BY <2>1, <2>4, <2>6, <3>1, <3>2 DEF FeedInv, OrderFits
  <2>7. CASE r # p
    <3>1. /\ r \in Visible(store, now) /\ Visible(store, now) \subseteq Visible(store', now')
      BY <1>4, <1>5, <2>3, <2>5, <2>7 DEF Latest
    <3>2. r \in Latest(store, now)
      BY <3>1 DEF Latest
    <3>3. q.source = r.source
      BY <1>1, <3>2, LatestAgree
    <3> QED
      BY <1>2, <3>3 DEF Latest, Visible
  <2> QED
    BY <2>6, <2>7
<1>7. CASE AcceptQuote
  <2>1. store' = Inserted(store, Row(Head1))
    BY <1>7 DEF AcceptQuote
  <2>2. store'.rows = store.rows \cup {Row(Head1)} /\ Unpublished(Row(Head1))
    BY <2>1 DEF Inserted, FeedInv, StoreShape, FeedStores, Row, Unpublished
  <2> QED
    BY <1>3, <1>4, <1>5, <2>2
<1>8. CASE ~Publish /\ ~AcceptQuote
  <2>1. store'.rows = store.rows
    <3>1. store' = store \/ RunnerStarts \/ AcceptStart \/ AcceptStop
      BY <1>8 DEF FeedNext, LineEnds, BridgeDies, BridgeStarts, BridgeQuotes, BridgeStops,
             RunnerDies, Poll, PollBegins, PollReads, PollRaises, Accept, Reject, FeedTick, feedVars
    <3>2. store \in FeedStores
      BY DEF FeedInv, StoreShape
    <3>3. ASSUME NEW id, NEW at PROVE Started(store, id, at).rows = store.rows
      BY <3>2 DEF Started, FeedStores
    <3>4. ASSUME NEW id, NEW n PROVE WithStop(store, id, n).rows = store.rows
      BY <3>2 DEF WithStop, FeedStores
    <3> QED
      BY <3>1, <3>3, <3>4 DEF RunnerStarts, AcceptStart, AcceptStop
  <2> QED
    BY <1>3, <1>4, <1>5, <2>1
<1> QED
  BY <1>6, <1>7, <1>8

\* FeedMovesForward: nothing from before the runner watched is stored, and the market never
\* shows an older price than it has shown unless runs were taken up out of order
\* (DirectoryTail, DemoQuoteCollector and _attach_active_bridge_session;
\* sources/ctrader_demo.py, runtime.py, quotes.py).
THEOREM FeedAlwaysMovesForward == FeedSpec => FeedMovesForward
<1>1. FeedSpec => []FeedInv
  BY FeedInitFits, FeedStepFits, PTL DEF FeedSpec
<1>2. FeedSpec => [](FeedTypeOK /\ NoBackfill)
  BY <1>1, FeedInvSuffices, PTL
<1>3. FeedSpec => QuotesNeverGoBack
  <2>1. FeedInv /\ FeedInv' /\ [FeedNext]_feedVars =>
          [TakenUpInOrder' => \A q \in Latest(store, now) :
             \A r \in Latest(store, now)' : q.source <= r.source]_feedVars
    BY FeedStepForward
  <2> QED
    BY <1>1, <2>1, PTL DEF FeedSpec, QuotesNeverGoBack
<1> QED
  BY <1>2, <1>3, PTL DEF FeedMovesForward
-----------------------------------------------------------------------------
(***************************************************************************)
(* The stream                                                              *)
(***************************************************************************)
Sessions == [id : Nat, at : Nat, stop : {<<>>} \cup {<<n>> : n \in Nat}]
Stored == [session : Nat, seq : Nat, source : Nat, bridge : Nat, received : Nat,
           available : Nat, bid : Nat, ask : Nat]
Ticks == [source : Nat, bridge : Nat, bid : Nat, ask : Nat]
Streams == [id : Nat, at : Nat, seq : Nat, source : Nat, bridge : Nat, received : Nat,
            pending : {{}} \cup {{tick} : tick \in Ticks}]
Places == {"idle", "auth", "refresh", "ready", "open", "streaming", "teardown", "ended"}

\* The numbers of a session's quotes run from 1 to k.
Numbered(st, id, k) ==
    /\ \A r \in RowsIn(st, id) : r.seq \in 1..k
    /\ \A n \in 1..k : \E r \in RowsIn(st, id) : r.seq = n

Blocked(st, id) == \E r \in RowsIn(st, id) : Unpublished(r)
Accounted(st, id) ==
    st.sessions[id].stop = <<Cardinality(RowsIn(st, id))>> \/ Blocked(st, id)

\* The store by itself: sessions are numbered as they were opened, and quotes have two
\* sides of one connection.
StoreFits(st) ==
    /\ st = [sessions |-> st.sessions, rows |-> st.rows]
    /\ st.sessions \in Seq(Sessions) /\ st.rows \in SUBSET Stored
    /\ \A n \in DOMAIN st.sessions : st.sessions[n].id = n /\ st.sessions[n].at <= instant
    /\ \A r \in st.rows : r.session \in DOMAIN st.sessions /\ r.bid = r.ask

\* The session in use is open, and the stream knows what is the last of it, unless a
\* quote was left unpublished: that one has the next number.
SessionFits(st, str) ==
    /\ str.id \in DOMAIN st.sessions
    /\ str.at = st.sessions[str.id].at /\ st.sessions[str.id].stop = <<>>
    /\ IF Blocked(st, str.id) THEN Numbered(st, str.id, str.seq + 1)
       ELSE /\ Numbered(st, str.id, str.seq)
            /\ IsFiniteSet(RowsIn(st, str.id)) /\ Cardinality(RowsIn(st, str.id)) = str.seq
            /\ \A r \in RowsIn(st, str.id) :
                  r.source <= str.source /\ r.bridge <= str.bridge /\ r.received <= str.received

TickFits(tick, str) ==
    /\ tick.bid = tick.ask
    /\ str.source <= tick.source /\ tick.source <= tick.bridge /\ tick.bridge <= instant
    /\ str.bridge <= tick.bridge /\ str.at <= tick.bridge

StreamFits(str) ==
    /\ str \in Streams
    /\ str.at <= instant /\ str.source <= instant /\ str.bridge <= instant /\ str.received <= instant
    /\ \A tick \in str.pending : TickFits(tick, str) /\ str.seq > 0

\* The store and the stream together.
Fits(st, str) ==
    /\ StoreFits(st) /\ StreamFits(str)
    /\ str.id # 0 => SessionFits(st, str)
    /\ \A id \in DOMAIN st.sessions : id = str.id \/ Accounted(st, id)

RefusedFits ==
    /\ refused \subseteq DOMAIN database.sessions
    /\ \A id \in refused :
          instant > database.sessions[id].at + Duration \/ Blocked(database, id)

\* The connection: ticks come only after a subscription, which comes after the session was
\* opened, and the first of them sets both sides.
LinkFits ==
    /\ pc \in Places /\ connection \in [n : 0..MaxConnections, subscribed : BOOLEAN, full : BOOLEAN]
    /\ sides \in [{"bid", "ask"} -> 0..MaxConnections]
    /\ pc \in {"idle", "auth", "refresh", "ready"} => ~InUse
    /\ pc \in {"auth", "refresh", "ready"} => ~connection.subscribed
    /\ connection.full => connection.subscribed
    /\ connection.full /\ InUse => sides.bid = connection.n /\ sides.ask = connection.n

StreamInv ==
    /\ instant \in 1..MaxInstant /\ troubles \in 0..MaxTroubles
    /\ Fits(database, stream) /\ RefusedFits /\ LinkFits
-----------------------------------------------------------------------------
\* The bounds, as numbers.
LEMMA StreamBounds ==
    /\ RotateAfter \in Nat /\ MaxInstant \in Nat \ {0} /\ MaxSequence \in Nat
    /\ MaxConnections \in Nat /\ MaxTroubles \in Nat /\ Duration \in Nat \ {0}
BY StreamAssumption, DurationAssumption

\* The greatest number of a set.
LEMMA MaxIs ==
    ASSUME NEW S \in SUBSET Nat, NEW m \in S, \A x \in S : x <= m
    PROVE  Max(S) = m
<1>1. \A x \in S : m >= x
  OBVIOUS
<1>2. \A x \in S : (\A y \in S : x >= y) => x = m
  OBVIOUS
<1> QED
  BY <1>1, <1>2 DEF Max

\* The last of a session whose quotes are numbered to k is k.
LEMMA LastSeqIs ==
    ASSUME NEW st, NEW id, NEW k \in Nat, Numbered(st, id, k)
    PROVE  LastSeq(st, id) = k
<1> DEFINE S == {0} \cup {r.seq : r \in RowsIn(st, id)}
<1>1. S = 0..k
  BY DEF Numbered
<1>2. Max(0..k) = k
  BY MaxIs
<1> QED
  BY <1>1, <1>2 DEF LastSeq

\* A session is found under its number.
LEMMA SessionIs ==
    ASSUME NEW st, StoreFits(st)
    PROVE  /\ Ids(st) = DOMAIN st.sessions
           /\ \A id \in DOMAIN st.sessions :
                 /\ SessionOf(st, id) = st.sessions[id]
                 /\ IsOpen(st, id) <=> st.sessions[id].stop = <<>>
                 /\ st.sessions[id] \in Sessions
<1>1. /\ \A n \in DOMAIN st.sessions : st.sessions[n].id = n
      /\ \A n \in DOMAIN st.sessions : st.sessions[n] \in Sessions
  BY DEF StoreFits
<1>2. ToSet(st.sessions) = {st.sessions[n] : n \in DOMAIN st.sessions}
  BY DEF ToSet
<1>3. Ids(st) = DOMAIN st.sessions
  BY <1>1, <1>2 DEF Ids
<1>4. ASSUME NEW id \in DOMAIN st.sessions PROVE SessionOf(st, id) = st.sessions[id]
  <2>1. st.sessions[id] \in ToSet(st.sessions) /\ st.sessions[id].id = id
    BY <1>1, <1>2, <1>4
  <2>2. \A s \in ToSet(st.sessions) : s.id = id => s = st.sessions[id]
    BY <1>1, <1>2
  <2> QED
    BY <2>1, <2>2 DEF SessionOf
<1> QED
  BY <1>1, <1>3, <1>4 DEF IsOpen

\* A quote that is added to session q.session.
LEMMA AddingARow ==
    ASSUME NEW st, StoreFits(st), NEW q \in Stored,
           q.session \in DOMAIN st.sessions, q.bid = q.ask,
           NEW st2, st2 = [st EXCEPT !.rows = @ \cup {q}]
    PROVE  /\ StoreFits(st2) /\ st2.sessions = st.sessions
           /\ RowsIn(st2, q.session) = RowsIn(st, q.session) \cup {q}
           /\ \A x : x # q.session => RowsIn(st2, x) = RowsIn(st, x)
           /\ \A x : Blocked(st, x) => Blocked(st2, x)
<1>1. st2.rows = st.rows \cup {q} /\ st2.sessions = st.sessions
      /\ st2 = [sessions |-> st2.sessions, rows |-> st2.rows]
  BY DEF StoreFits
<1>2. StoreFits(st2)
  BY <1>1 DEF StoreFits
<1>3. \A x : RowsIn(st2, x) = RowsIn(st, x) \cup (IF x = q.session THEN {q} ELSE {})
  BY <1>1 DEF RowsIn
<1>4. RowsIn(st2, q.session) = RowsIn(st, q.session) \cup {q}
  BY <1>3
<1>5. \A x : x # q.session => RowsIn(st2, x) = RowsIn(st, x)
  BY <1>3
<1>6. \A x : RowsIn(st, x) \subseteq RowsIn(st2, x)
  BY <1>3
<1>7. \A x : Blocked(st, x) => Blocked(st2, x)
  BY <1>6 DEF Blocked
<1> QED
  BY <1>1, <1>2, <1>4, <1>5, <1>7

\* What the stream and the store are after a quote was emitted, or refused.
EmitFits(s, o) ==
    /\ StoreFits(o.store) /\ StreamFits(o.stream) /\ SessionFits(o.store, o.stream)
    /\ o.stream.id = s.stream.id /\ o.stream.pending = {}
    /\ o.store.sessions = s.store.sessions
    /\ \A x : x # s.stream.id => RowsIn(o.store, x) = RowsIn(s.store, x)
    /\ \A x : Blocked(s.store, x) => Blocked(o.store, x)
    /\ o.result \in {"refused", "published", "unpublished"}
    /\ o.result = "refused" =>
          instant > o.store.sessions[o.stream.id].at + Duration \/ Blocked(o.store, o.stream.id)
    /\ o.result = "unpublished" => MayFail

\* A tick that fits makes a entry that fits: only a session that is blocked or too old
\* refuses it.
LEMMA RowFitsIn ==
    ASSUME instant \in Nat, NEW s, StoreFits(s.store), StreamFits(s.stream), SessionFits(s.store, s.stream),
           NEW tick \in Ticks, TickFits(tick, s.stream)
    PROVE  LET entry == RowOf(s, tick) IN
           /\ entry = [session |-> s.stream.id, seq |-> s.stream.seq + 1, source |-> tick.source,
                     bridge |-> tick.bridge, received |-> instant, available |-> 0,
                     bid |-> tick.bid, ask |-> tick.ask]
           /\ entry \in Stored /\ entry.session \in DOMAIN s.store.sessions /\ entry.bid = entry.ask
           /\ MayRecord(s.store, entry, instant) => ~Blocked(s.store, s.stream.id)
           /\ ~MayRecord(s.store, entry, instant) =>
                 instant > s.stream.at + Duration \/ Blocked(s.store, s.stream.id)
<1> DEFINE entry == RowOf(s, tick)
           id == s.stream.id
<1>1. /\ s.stream \in Streams /\ s.stream.received <= instant /\ tick.bridge <= instant
      /\ s.stream.source <= tick.source /\ tick.source <= tick.bridge
      /\ s.stream.bridge <= tick.bridge /\ s.stream.at <= tick.bridge /\ tick.bid = tick.ask
  BY DEF StreamFits, TickFits
<1>2. Max({instant, tick.bridge, s.stream.received}) = instant
  BY <1>1, MaxIs DEF Streams, Ticks
<1>3. entry = [session |-> s.stream.id, seq |-> s.stream.seq + 1, source |-> tick.source,
             bridge |-> tick.bridge, received |-> instant, available |-> 0,
             bid |-> tick.bid, ask |-> tick.ask]
  BY <1>2 DEF RowOf, Never
<1>4. entry \in Stored /\ entry.bid = entry.ask
  BY <1>1, <1>3 DEF Stored, Streams, Ticks
<1>5. /\ id \in DOMAIN s.store.sessions
      /\ s.stream.at = s.store.sessions[id].at /\ s.store.sessions[id].stop = <<>>
  BY DEF SessionFits
<1>6. SessionOf(s.store, id) = s.store.sessions[id] /\ IsOpen(s.store, id)
  BY <1>5, SessionIs
<1>7. ASSUME Blocked(s.store, id) PROVE ~MayRecord(s.store, entry, instant)
  <2>1. Numbered(s.store, id, s.stream.seq + 1) /\ s.stream.seq + 1 \in Nat
    BY <1>1, <1>7 DEF SessionFits, Streams
  <2>2. LastSeq(s.store, id) = s.stream.seq + 1
    BY <2>1, LastSeqIs
  <2>3. PICK r \in RowsIn(s.store, id) : r.seq = s.stream.seq + 1
    BY <2>1, <1>1 DEF Numbered, Streams
  <2>4. entry.session = id /\ ~(entry.seq > r.seq)
    BY <2>1, <2>3, <1>3
  <2> QED
    BY <2>2, <2>3, <2>4 DEF MayRecord
<1>8. ASSUME ~Blocked(s.store, id), instant <= s.stream.at + Duration
      PROVE  MayRecord(s.store, entry, instant)
  <2>1. /\ Numbered(s.store, id, s.stream.seq)
        /\ \A r \in RowsIn(s.store, id) :
              r.source <= s.stream.source /\ r.bridge <= s.stream.bridge /\ r.received <= s.stream.received
    BY <1>8 DEF SessionFits
  <2>2. RowsIn(s.store, id) \subseteq Stored
    BY DEF RowsIn, StoreFits
  <2>3. \A r \in RowsIn(s.store, id) :
          entry.seq > r.seq /\ entry.source >= r.source /\ entry.bridge >= r.bridge /\ entry.received >= r.received
    BY <2>1, <2>2, <1>1, <1>3 DEF Numbered, Stored, Streams, Ticks
  <2>4. entry.source <= entry.bridge /\ entry.bridge <= entry.received /\ entry.received <= instant
    BY <1>1, <1>3
  <2>5. entry.session = id /\ entry.bridge = tick.bridge
    BY <1>3
  <2>6. SessionOf(s.store, id).at = s.stream.at
    BY <1>5, <1>6
  <2>7. SessionOf(s.store, id).at <= entry.bridge
    BY <1>1, <2>5, <2>6
  <2>8. entry.bridge <= SessionOf(s.store, id).at + Duration
    BY <1>1, <1>8, <2>5, <2>6, StreamBounds DEF Streams, Ticks
  <2> QED
    BY <2>3, <2>4, <2>5, <2>7, <2>8, <1>6 DEF MayRecord
<1>9. ~MayRecord(s.store, entry, instant) =>
         instant > s.stream.at + Duration \/ Blocked(s.store, s.stream.id)
  BY <1>8, <1>1, StreamBounds DEF Streams
<1>10. entry.session \in DOMAIN s.store.sessions
  BY <1>3, <1>5
<1> HIDE DEF entry
<1>11. entry = RowOf(s, tick)
  BY DEF entry
<1> QED
  BY <1>3, <1>4, <1>7, <1>9, <1>10, <1>11

\* What a quote that is recorded makes of its session, published or not.
LEMMA RecordedFits ==
    ASSUME instant \in Nat \ {0}, NEW st, NEW str,
           StoreFits(st), StreamFits(str), SessionFits(st, str), str.pending = {},
           ~Blocked(st, str.id),
           NEW q \in Stored, q.session = str.id, q.seq = str.seq + 1, q.bid = q.ask,
           str.source <= q.source, q.source <= q.bridge, str.bridge <= q.bridge,
           q.bridge <= instant, q.received = instant,
           NEW st2, st2 = [st EXCEPT !.rows = @ \cup {q}]
    PROVE  /\ Unpublished(q) => SessionFits(st2, str)
           /\ ~Unpublished(q) => SessionFits(st2, Advanced(str, q)) /\ StreamFits(Advanced(str, q))
<1> DEFINE id == str.id
           R == RowsIn(st, id)
           R2 == RowsIn(st2, id)
<1>1. id \in DOMAIN st.sessions /\ str.at = st.sessions[id].at /\ st.sessions[id].stop = <<>>
  BY DEF SessionFits
<1>2. st2.sessions = st.sessions /\ R2 = R \cup {q}
  <2>1. q.session \in DOMAIN st.sessions
    BY <1>1
  <2>2. st2.sessions = st.sessions /\ RowsIn(st2, q.session) = RowsIn(st, q.session) \cup {q}
    BY <2>1, AddingARow
  <2> QED
    BY <2>2
<1>3. str \in Streams /\ str.received <= instant /\ str.at <= instant
  BY DEF StreamFits
<1>4. /\ Numbered(st, id, str.seq) /\ IsFiniteSet(R) /\ Cardinality(R) = str.seq
      /\ \A r \in R : r.source <= str.source /\ r.bridge <= str.bridge /\ r.received <= str.received
  BY DEF SessionFits
<1>5. R \subseteq Stored
  BY DEF RowsIn, StoreFits
<1>6. Numbered(st2, id, str.seq + 1)
  <2>1. \A r \in R2 : r.seq \in 1..(str.seq + 1)
    BY <1>2, <1>3, <1>4 DEF Numbered, Streams
  <2>2. ASSUME NEW n \in 1..(str.seq + 1) PROVE \E r \in R2 : r.seq = n
    <3>1. n = str.seq + 1 \/ n \in 1..str.seq
      BY <1>3 DEF Streams
    <3> QED
      BY <3>1, <1>2, <1>4 DEF Numbered
  <2> QED
    BY <2>1, <2>2 DEF Numbered
<1>7. q \notin R
  BY <1>4, <1>3 DEF Numbered, Streams
<1>8. IsFiniteSet(R2) /\ Cardinality(R2) = str.seq + 1
  <2>1. IsFiniteSet(R \cup {q}) /\ Cardinality(R \cup {q}) = Cardinality(R) + 1
    BY <1>4, <1>7, FS_AddElement
  <2> QED
    BY <2>1, <1>2, <1>4
<1>9. ASSUME Unpublished(q) PROVE SessionFits(st2, str)
  <2>1. Blocked(st2, id)
    BY <1>2, <1>9 DEF Blocked
  <2> QED
    BY <2>1, <1>1, <1>2, <1>6 DEF SessionFits
<1>10. ASSUME ~Unpublished(q) PROVE SessionFits(st2, Advanced(str, q)) /\ StreamFits(Advanced(str, q))
  <2> DEFINE x == Advanced(str, q)
  <2>1. /\ x \in Streams /\ x.id = id /\ x.at = str.at /\ x.seq = str.seq + 1 /\ x.pending = {}
        /\ x.source = q.source /\ x.bridge = q.bridge /\ x.received = instant
    BY <1>3 DEF Advanced, Streams, Stored
  <2>2. ~Blocked(st2, id)
    BY <1>2, <1>10 DEF Blocked
  <2>3. \A r \in R2 : r.source <= q.source /\ r.bridge <= q.bridge /\ r.received <= instant
    BY <1>2, <1>3, <1>4, <1>5 DEF Streams, Stored
  <2>4. SessionFits(st2, x)
    BY <2>1, <2>2, <2>3, <1>1, <1>2, <1>6, <1>8 DEF SessionFits
  <2>5. StreamFits(x)
    BY <2>1, <1>3 DEF StreamFits, Stored
  <2> QED
    BY <2>4, <2>5
<1> QED
  BY <1>9, <1>10

\* A tick that fits is stored behind the last quote, whatever becomes of it.
LEMMA EmittedFits ==
    ASSUME instant \in Nat \ {0}, NEW st, NEW str, NEW res, NEW s,
           s = [store |-> st, stream |-> str, result |-> res],
           StoreFits(st), StreamFits(str), SessionFits(st, str), str.pending = {},
           NEW tick \in Ticks, TickFits(tick, str), NEW o \in Emitted(s, tick)
    PROVE  EmitFits(s, o)
<1> DEFINE entry == RowOf(s, tick)
           q == [entry EXCEPT !.available = instant]
<1>1. s.store = st /\ s.stream = str
  OBVIOUS
<1>2. /\ entry = [session |-> str.id, seq |-> str.seq + 1, source |-> tick.source,
               bridge |-> tick.bridge, received |-> instant, available |-> 0,
               bid |-> tick.bid, ask |-> tick.ask]
      /\ entry \in Stored /\ entry.session \in DOMAIN st.sessions /\ entry.bid = entry.ask
      /\ MayRecord(st, entry, instant) => ~Blocked(st, str.id)
      /\ ~MayRecord(st, entry, instant) => instant > str.at + Duration \/ Blocked(st, str.id)
  BY <1>1, RowFitsIn
<1>3. str.at = st.sessions[str.id].at
  BY DEF SessionFits
<1>4. /\ str.source <= tick.source /\ tick.source <= tick.bridge /\ str.bridge <= tick.bridge
      /\ tick.bridge <= instant
  BY DEF TickFits
<1>5. st = [sessions |-> st.sessions, rows |-> st.rows]
  BY DEF StoreFits
<1>6. CASE o = [s EXCEPT !.result = "refused"] /\ ~MayRecord(st, entry, instant)
  <2>1. o.store = st /\ o.stream = str /\ o.result = "refused"
    BY <1>6
  <2> QED
    BY <2>1, <1>1, <1>2, <1>3, <1>6 DEF EmitFits
<1>7. CASE /\ o = [s EXCEPT !.store = Inserted(st, entry), !.result = "unpublished"]
           /\ MayRecord(st, entry, instant) /\ MayFail
  <2>1. o.store = [st EXCEPT !.rows = @ \cup {entry}] /\ o.stream = str /\ o.result = "unpublished"
    BY <1>7 DEF Inserted
  <2>2. Unpublished(entry)
    BY <1>2 DEF Unpublished, Never
  <2>3. SessionFits(o.store, str)
    BY <2>1, <2>2, <1>2, <1>4, <1>7, RecordedFits
  <2>4. /\ StoreFits(o.store) /\ o.store.sessions = st.sessions
        /\ \A x : x # str.id => RowsIn(o.store, x) = RowsIn(st, x)
        /\ \A x : Blocked(st, x) => Blocked(o.store, x)
    BY <2>1, <1>2, AddingARow
  <2> QED
    BY <2>1, <2>3, <2>4, <1>1, <1>7 DEF EmitFits
<1>8. CASE /\ o = [store |-> Published(Inserted(st, entry), entry, instant), stream |-> Advanced(str, entry),
                   result |-> "published"]
           /\ MayRecord(st, entry, instant)
  <2>1. entry \notin st.rows
    <3>1. \A r \in RowsIn(st, str.id) : ~Unpublished(r)
      BY <1>2, <1>8 DEF Blocked
    <3>2. entry.session = str.id /\ Unpublished(entry)
      BY <1>2 DEF Unpublished, Never
    <3> QED
      BY <3>1, <3>2 DEF RowsIn
  <2>2. Inserted(st, entry) = [st EXCEPT !.rows = st.rows \cup {entry}]
    BY DEF Inserted
  <2>3. ((st.rows \cup {entry}) \ {entry}) \cup {q} = st.rows \cup {q}
    BY <2>1
  <2>4. o.store = [st EXCEPT !.rows = @ \cup {q}]
    BY <2>2, <2>3, <1>5, <1>8 DEF Published
  <2>5. q = [session |-> str.id, seq |-> str.seq + 1, source |-> tick.source,
             bridge |-> tick.bridge, received |-> instant, available |-> instant,
             bid |-> tick.bid, ask |-> tick.ask]
    BY <1>2
  <2>6. q \in Stored /\ q.session \in DOMAIN st.sessions /\ q.bid = q.ask /\ ~Unpublished(q)
    BY <2>5, <1>2 DEF Stored, Unpublished, Never
  <2>7. Advanced(str, q) = Advanced(str, entry)
    BY <2>5, <1>2 DEF Advanced
  <2>8. SessionFits(o.store, Advanced(str, entry)) /\ StreamFits(Advanced(str, entry))
    BY <2>4, <2>5, <2>6, <2>7, <1>2, <1>4, <1>8, RecordedFits
  <2>9. /\ StoreFits(o.store) /\ o.store.sessions = st.sessions
        /\ \A x : x # str.id => RowsIn(o.store, x) = RowsIn(st, x)
        /\ \A x : Blocked(st, x) => Blocked(o.store, x)
    <3>1. q.session = str.id
      BY <2>5
    <3> HIDE DEF q
    <3>2. /\ StoreFits(o.store) /\ o.store.sessions = st.sessions
          /\ \A x : x # q.session => RowsIn(o.store, x) = RowsIn(st, x)
          /\ \A x : Blocked(st, x) => Blocked(o.store, x)
      BY <2>4, <2>6, AddingARow
    <3> QED
      BY <3>1, <3>2
  <2>10. Advanced(str, entry).id = str.id /\ Advanced(str, entry).pending = {}
    BY DEF Advanced, StreamFits, Streams
  <2> QED
    BY <2>8, <2>9, <2>10, <1>1, <1>8 DEF EmitFits
<1> QED
  BY <1>6, <1>7, <1>8, <1>1 DEF Emitted

\* A session that is stopped as far as the store allows is accounted for.
LEMMA ClosingFits ==
    ASSUME instant \in Nat \ {0}, NEW st, NEW str, Fits(st, str), str.id # 0,
           NEW st2, st2 = IF MayStop(st, str.id, str.seq, instant, instant)
                          THEN WithStop(st, str.id, str.seq) ELSE st
    PROVE  /\ Fits(st2, NoStream)
           /\ DOMAIN st2.sessions = DOMAIN st.sessions
           /\ \A id \in DOMAIN st.sessions : st2.sessions[id].at = st.sessions[id].at
           /\ st2.rows = st.rows
<1> DEFINE id == str.id
<1>1. /\ StoreFits(st) /\ SessionFits(st, str) /\ str \in Streams /\ str.bridge <= instant
      /\ \A x \in DOMAIN st.sessions : x = id \/ Accounted(st, x)
  BY DEF Fits, StreamFits
<1>2. /\ st = [sessions |-> st.sessions, rows |-> st.rows]
      /\ st.sessions \in Seq(Sessions) /\ st.rows \in SUBSET Stored
      /\ \A n \in DOMAIN st.sessions : st.sessions[n].id = n /\ st.sessions[n].at <= instant
      /\ \A r \in st.rows : r.session \in DOMAIN st.sessions /\ r.bid = r.ask
  BY <1>1 DEF StoreFits
<1>3. id \in DOMAIN st.sessions /\ str.at = st.sessions[id].at /\ st.sessions[id].stop = <<>>
  BY <1>1 DEF SessionFits
<1>4. NoStream \in Streams /\ StreamFits(NoStream) /\ NoStream.id = 0
  BY DEF NoStream, StreamFits, Streams
<1>5. CASE MayStop(st, id, str.seq, instant, instant)
  <2> DEFINE X == [n \in DOMAIN st.sessions |->
                     IF n = id THEN [st.sessions[n] EXCEPT !.stop = <<str.seq>>] ELSE st.sessions[n]]
  <2>1. st2 = [sessions |-> X, rows |-> st.rows]
    <3>1. st2 = WithStop(st, id, str.seq)
      BY <1>5
    <3>2. st2 = [st EXCEPT !.sessions =
                   [n \in DOMAIN st.sessions |->
                      IF st.sessions[n].id = id THEN [st.sessions[n] EXCEPT !.stop = <<str.seq>>]
                      ELSE st.sessions[n]]]
      BY <3>1 DEF WithStop
    <3>3. [n \in DOMAIN st.sessions |->
             IF st.sessions[n].id = id THEN [st.sessions[n] EXCEPT !.stop = <<str.seq>>]
             ELSE st.sessions[n]] = X
      BY <1>2
    <3> HIDE DEF X
    <3> QED
      BY <3>2, <3>3, <1>2
  <2>2. \A n \in DOMAIN st.sessions : st.sessions[n] \in Sessions
    BY <1>2
  <2>3. \A n \in DOMAIN st.sessions :
          /\ X[n] \in Sessions /\ X[n].id = n /\ X[n].at = st.sessions[n].at
          /\ n # id => X[n] = st.sessions[n]
    BY <2>2, <1>1, <1>2 DEF Sessions, Streams
  <2>4. X[id].stop = <<str.seq>>
    BY <2>2, <1>3 DEF Sessions
  <2>5. X \in Seq(Sessions) /\ DOMAIN X = DOMAIN st.sessions
    BY <2>3, <1>2
  <2> HIDE DEF X
  <2>6. st2.sessions = X /\ st2.rows = st.rows /\ st2 = [sessions |-> st2.sessions, rows |-> st2.rows]
    BY <2>1
  <2>7. StoreFits(st2)
    BY <2>3, <2>5, <2>6, <1>2 DEF StoreFits
  <2>8. \A x : RowsIn(st2, x) = RowsIn(st, x) /\ (Blocked(st2, x) <=> Blocked(st, x))
    BY <2>6 DEF RowsIn, Blocked
  <2>9. Accounted(st2, id)
    BY <2>4, <2>6, <2>8, <1>1 DEF Accounted, SessionFits
  <2>10. \A x \in DOMAIN st.sessions : Accounted(st2, x)
    BY <2>3, <2>6, <2>8, <2>9, <1>1 DEF Accounted
  <2> QED
    BY <2>3, <2>5, <2>6, <2>7, <2>10, <1>4 DEF Fits
<1>6. CASE ~MayStop(st, id, str.seq, instant, instant)
  <2>1. st2 = st
    BY <1>6
  <2>2. Blocked(st, id)
    <3> SUFFICES ASSUME ~Blocked(st, id) PROVE MayStop(st, id, str.seq, instant, instant)
      BY <1>6
    <3>1. Numbered(st, id, str.seq) /\ \A r \in RowsIn(st, id) : r.bridge <= str.bridge
      BY <1>1 DEF SessionFits
    <3>2. LastSeq(st, id) = str.seq
      BY <3>1, <1>1, LastSeqIs DEF Streams
    <3>3. RowsIn(st, id) \subseteq Stored
      BY <1>2 DEF RowsIn
    <3>4. \A r \in RowsIn(st, id) : r.bridge <= instant
      BY <3>1, <3>3, <1>1 DEF Stored, Streams
    <3>5. IsOpen(st, id) /\ SessionOf(st, id).at <= instant
      BY <1>1, <1>2, <1>3, SessionIs
    <3> QED
      BY <3>2, <3>4, <3>5, <1>1 DEF MayStop, Streams
  <2>3. Accounted(st, id)
    BY <2>2 DEF Accounted
  <2> QED
    BY <2>1, <2>3, <1>1, <1>4 DEF Fits
<1> QED
  BY <1>5, <1>6

\* What a step of the store and the stream leads to.
Leads(o) ==
    /\ Fits(o.store, o.stream)
    /\ \A id \in DOMAIN database.sessions :
          id \in DOMAIN o.store.sessions /\ o.store.sessions[id].at = database.sessions[id].at
    /\ \A id : Blocked(database, id) => Blocked(o.store, id)
    /\ o.result = "refused" =>
          /\ stream.id \in DOMAIN o.store.sessions
          /\ \/ instant > o.store.sessions[stream.id].at + Duration
             \/ Blocked(o.store, stream.id)
    /\ o.result = "unpublished" => MayFail

\* A tick that is emitted now, or was held back.
LEMMA EmissionLeads ==
    ASSUME instant \in Nat \ {0}, Fits(database, stream), InUse,
           NEW tick \in Ticks, TickFits(tick, stream),
           NEW o \in Emitted([Here EXCEPT !.stream.pending = {}], tick)
    PROVE  Leads(o) /\ o.stream.id = stream.id
<1> DEFINE str == [stream EXCEPT !.pending = {}]
           s == [Here EXCEPT !.stream.pending = {}]
<1>1. StoreFits(database) /\ StreamFits(stream) /\ SessionFits(database, stream)
      /\ \A id \in DOMAIN database.sessions : id = stream.id \/ Accounted(database, id)
  BY DEF Fits, InUse
<1>2. stream \in Streams
  BY <1>1 DEF StreamFits
<1>3. /\ str \in Streams /\ str.pending = {} /\ str.id = stream.id /\ str.at = stream.at
      /\ str.seq = stream.seq /\ str.source = stream.source /\ str.bridge = stream.bridge
      /\ str.received = stream.received
  BY <1>2, SMTT(25) DEF Streams
<1>4. s = [store |-> database, stream |-> str, result |-> "none"]
  BY SMTT(25) DEF Here
<1> HIDE DEF str, s
<1>5. StreamFits(str) /\ SessionFits(database, str) /\ TickFits(tick, str)
  BY <1>1, <1>3 DEF StreamFits, SessionFits, TickFits
<1>6. EmitFits(s, o)
  <2>1. o \in Emitted(s, tick)
    BY DEF s
  <2> QED
    BY <2>1, <1>1, <1>3, <1>4, <1>5, EmittedFits
<1>7. \A id \in DOMAIN o.store.sessions : id = o.stream.id \/ Accounted(o.store, id)
  <2>1. s.store = database /\ s.stream = str
    BY <1>4
  <2>2. /\ o.store.sessions = database.sessions /\ o.stream.id = stream.id
        /\ \A x : x # stream.id => RowsIn(o.store, x) = RowsIn(database, x)
        /\ \A x : Blocked(database, x) => Blocked(o.store, x)
    BY <2>1, <1>3, <1>6 DEF EmitFits
  <2> QED
    BY <2>2, <1>1 DEF Accounted
<1>8. s.store = database /\ s.stream = str
  BY <1>4
<1>9. Fits(o.store, o.stream)
  BY <1>6, <1>7 DEF EmitFits, Fits
<1>10. stream.id \in DOMAIN o.store.sessions
  BY <1>1, <1>3, <1>6, <1>8 DEF EmitFits, SessionFits
<1> QED
  BY <1>3, <1>6, <1>8, <1>9, <1>10 DEF EmitFits, Leads

\* Closing the session in use leads to a store that fits, with nothing in use.
LEMMA ClosedLeads ==
    ASSUME instant \in Nat \ {0}, Fits(database, stream), InUse, NEW o \in Closed(Here)
    PROVE  Leads(o) /\ o.stream = NoStream
           /\ o = [store |-> o.store, stream |-> o.stream, result |-> o.result]
<1> DEFINE LastOf == IF stream.pending = {} THEN {Here}
                   ELSE UNION {Emitted([Here EXCEPT !.stream.pending = {}], tick) : tick \in stream.pending}
           Closing(e) == [e EXCEPT !.stream = NoStream,
                                   !.store = IF MayStop(@, stream.id, e.stream.seq, instant, instant)
                                             THEN WithStop(@, stream.id, e.stream.seq) ELSE @]
<1>1. Here = [store |-> database, stream |-> stream, result |-> "none"]
  BY DEF Here
<1>2. PICK e \in LastOf : o = Closing(e)
  BY <1>1 DEF Closed, CountOf
<1>3. StreamFits(stream) /\ stream \in Streams
  BY DEF Fits, StreamFits
<1>4. Leads(e) /\ e.stream.id = stream.id /\ e = [store |-> e.store, stream |-> e.stream, result |-> e.result]
  <2>1. CASE stream.pending = {}
    <3>1. e = Here
      BY <2>1, <1>2
    <3>2. SessionFits(database, stream)
      BY DEF Fits, InUse
    <3> QED
      BY <3>1, <3>2, <1>1 DEF Leads
  <2>2. CASE stream.pending # {}
    <3>1. PICK tick \in stream.pending : e \in Emitted([Here EXCEPT !.stream.pending = {}], tick)
      BY <2>2, <1>2
    <3>2. tick \in Ticks /\ TickFits(tick, stream)
      BY <1>3 DEF StreamFits, Streams
    <3>3. Leads(e) /\ e.stream.id = stream.id
      BY <3>1, <3>2, EmissionLeads
    <3>4. e = [store |-> e.store, stream |-> e.stream, result |-> e.result]
      <4> DEFINE s == [Here EXCEPT !.stream.pending = {}]
      <4>1. s = [store |-> s.store, stream |-> s.stream, result |-> s.result]
        BY <1>1
      <4> HIDE DEF s
      <4>2. \/ e = [s EXCEPT !.result = "refused"]
            \/ \E st, str : e = [store |-> st, stream |-> str, result |-> "published"]
            \/ \E st : e = [s EXCEPT !.store = st, !.result = "unpublished"]
        BY <3>1 DEF Emitted, s
      <4> QED
        BY <4>1, <4>2
    <3> QED
      BY <3>3, <3>4
  <2> QED
    BY <2>1, <2>2
<1>5. o = [store |-> IF MayStop(e.store, stream.id, e.stream.seq, instant, instant)
                     THEN WithStop(e.store, stream.id, e.stream.seq) ELSE e.store,
           stream |-> NoStream, result |-> e.result]
  BY <1>2, <1>4
<1>6. Fits(e.store, e.stream) /\ e.stream.id # 0
  BY <1>4 DEF Leads, InUse
<1>7. /\ Fits(o.store, NoStream)
      /\ DOMAIN o.store.sessions = DOMAIN e.store.sessions
      /\ \A id \in DOMAIN e.store.sessions : o.store.sessions[id].at = e.store.sessions[id].at
      /\ o.store.rows = e.store.rows
  <2>1. o.store = IF MayStop(e.store, e.stream.id, e.stream.seq, instant, instant)
                  THEN WithStop(e.store, e.stream.id, e.stream.seq) ELSE e.store
    BY <1>4, <1>5
  <2> QED
    BY <2>1, <1>6, ClosingFits
<1>8. \A id : Blocked(o.store, id) <=> Blocked(e.store, id)
  BY <1>7 DEF Blocked, RowsIn
<1>9. o.stream = NoStream /\ o.result = e.result
  BY <1>5
<1> HIDE DEF LastOf, Closing
<1>10. Leads(o)
  BY <1>4, <1>7, <1>8, <1>9 DEF Leads
<1> QED
  BY <1>5, <1>9, <1>10

\* What opening a session writes.
LEMMA SessionStartedIs ==
    ASSUME NEW st, st = [sessions |-> st.sessions, rows |-> st.rows], NEW id, NEW at
    PROVE  Started(st, id, at) =
             [sessions |-> Append(st.sessions, [id |-> id, at |-> at, stop |-> <<>>]), rows |-> st.rows]
BY SMTT(25) DEF Started

\* A session that is opened when none is in use.
LEMMA OpenedLeads ==
    ASSUME instant \in Nat \ {0}, NEW o, Leads(o), o.stream = NoStream,
           o = [store |-> o.store, stream |-> o.stream, result |-> o.result]
    PROVE  Leads(Opened(o)) /\ Opened(o).stream.id # 0
<1> DEFINE st == o.store
           n == Len(st.sessions) + 1
           new == [id |-> n, at |-> instant, stop |-> <<>>]
           X == Append(st.sessions, new)
           str == [NoStream EXCEPT !.id = n, !.at = instant]
           st2 == [sessions |-> X, rows |-> st.rows]
<1>1. /\ StoreFits(st) /\ NoStream.id = 0
      /\ \A id \in DOMAIN st.sessions : id = 0 \/ Accounted(st, id)
  BY DEF Leads, Fits, NoStream
<1>2. /\ st = [sessions |-> st.sessions, rows |-> st.rows]
      /\ st.sessions \in Seq(Sessions) /\ st.rows \in SUBSET Stored
      /\ \A m \in DOMAIN st.sessions : st.sessions[m].id = m /\ st.sessions[m].at <= instant
      /\ \A r \in st.rows : r.session \in DOMAIN st.sessions /\ r.bid = r.ask
  BY <1>1 DEF StoreFits
<1>3. Opened(o) = [store |-> st2, stream |-> str, result |-> o.result]
  <2>1. Started(st, n, instant) = st2
    BY <1>2, SessionStartedIs
  <2>2. Opened(o) = [o EXCEPT !.store = Started(st, n, instant), !.stream = str]
    BY DEF Opened
  <2> HIDE DEF st, n, str, st2
  <2> QED
    BY <2>1, <2>2
<1>4. /\ n \in Nat \ {0} /\ new \in Sessions /\ X \in Seq(Sessions)
      /\ DOMAIN X = DOMAIN st.sessions \cup {n} /\ n \notin DOMAIN st.sessions
      /\ X[n] = new /\ \A m \in DOMAIN st.sessions : X[m] = st.sessions[m]
  BY <1>2 DEF Sessions
<1>5. str \in Streams /\ str.id = n /\ str.at = instant /\ str.seq = 0 /\ str.pending = {}
      /\ str.source = 0 /\ str.bridge = 0 /\ str.received = 0
  BY <1>4 DEF NoStream, Streams
<1> HIDE DEF str, X, n
<1>6. StoreFits(st2)
  BY <1>2, <1>4 DEF StoreFits
<1>7. \A id : RowsIn(st2, id) = RowsIn(st, id) /\ (Blocked(st2, id) <=> Blocked(st, id))
  BY DEF RowsIn, Blocked
<1>8. RowsIn(st2, n) = {}
  BY <1>2, <1>4 DEF RowsIn
<1>9. SessionFits(st2, str)
  <2>1. ~Blocked(st2, n) /\ Numbered(st2, n, 0)
    BY <1>8 DEF Blocked, Numbered
  <2>2. IsFiniteSet(RowsIn(st2, n)) /\ Cardinality(RowsIn(st2, n)) = 0
    BY <1>8, FS_EmptySet
  <2> QED
    BY <2>1, <2>2, <1>4, <1>5, <1>8 DEF SessionFits
<1>10. StreamFits(str)
  BY <1>5 DEF StreamFits
<1>11. \A id \in DOMAIN st2.sessions : id = str.id \/ Accounted(st2, id)
  BY <1>1, <1>2, <1>4, <1>5, <1>7 DEF Accounted
<1>12. Fits(st2, str)
  BY <1>6, <1>9, <1>10, <1>11 DEF Fits
<1>13. Opened(o).store = st2 /\ Opened(o).stream = str /\ Opened(o).result = o.result
  BY <1>3
<1>14. \A id \in DOMAIN st.sessions : id \in DOMAIN st2.sessions /\ st2.sessions[id] = st.sessions[id]
  BY <1>4
<1> HIDE DEF st2
<1>15. Leads(Opened(o))
  BY <1>7, <1>12, <1>13, <1>14 DEF Leads
<1> QED
  BY <1>4, <1>5, <1>13, <1>15
-----------------------------------------------------------------------------
(***************************************************************************)
(* The steps                                                               *)
(***************************************************************************)
\* What fits, fits in the next state if time has not gone back.
LEMMA FitsLater ==
    ASSUME instant \in Nat, instant' \in Nat, instant <= instant', NEW st, NEW str, Fits(st, str),
           database' = st, stream' = str
    PROVE  Fits(database, stream)'
<1>1. StoreFits(st) /\ StreamFits(str) /\ (str.id # 0 => SessionFits(st, str))
      /\ \A id \in DOMAIN st.sessions : id = str.id \/ Accounted(st, id)
  BY DEF Fits
<1>2. StoreFits(database)'
  <2>1. \A n \in DOMAIN st.sessions : st.sessions[n] \in Sessions /\ st.sessions[n].at <= instant
    BY <1>1 DEF StoreFits
  <2>2. \A n \in DOMAIN st.sessions : st.sessions[n].at <= instant'
    BY <2>1 DEF Sessions
  <2> QED
    BY <2>2, <1>1 DEF StoreFits
<1>3. StreamFits(stream)'
  BY <1>1 DEF StreamFits, TickFits, Streams, Ticks
<1>4. (str.id # 0 => SessionFits(st, str))
      /\ \A id \in DOMAIN st.sessions : id = str.id \/ Accounted(st, id)
  BY <1>1
<1> QED
  BY <1>2, <1>3, <1>4 DEF Fits, SessionFits, Numbered, Accounted, Blocked, RowsIn

\* What leads to a fit from here fits in the next state, refusals included.
LEMMA LeadsOn ==
    ASSUME StreamInv, UNCHANGED instant, NEW o, Leads(o), database' = o.store, stream' = o.stream,
           refused' = IF o.result = "refused" THEN refused \cup {stream.id} ELSE refused
    PROVE  Fits(database, stream)' /\ RefusedFits'
<1>1. Fits(database, stream)'
  BY FitsLater, StreamBounds DEF StreamInv, Leads
<1>2. RefusedFits'
  <2>1. \A id \in refused :
           /\ id \in DOMAIN database.sessions
           /\ instant > database.sessions[id].at + Duration \/ Blocked(database, id)
    BY DEF StreamInv, RefusedFits
  <2>2. ASSUME NEW id \in refused'
        PROVE  /\ id \in DOMAIN o.store.sessions
               /\ instant > o.store.sessions[id].at + Duration \/ Blocked(o.store, id)
    BY <2>1, <2>2 DEF Leads
  <2>3. \A id : Blocked(database, id)' <=> Blocked(o.store, id)
    BY DEF Blocked, RowsIn
  <2> QED
    BY <2>2, <2>3 DEF RefusedFits
<1> QED
  BY <1>1, <1>2

\* A write of the stream keeps what holds of the store, the refusals and the troubles.
LEMMA BecomesFits ==
    ASSUME StreamInv, UNCHANGED instant, NEW o, Leads(o), Becomes(o)
    PROVE  Fits(database, stream)' /\ RefusedFits' /\ troubles' \in 0..MaxTroubles
<1>1. Fits(database, stream)' /\ RefusedFits'
  BY LeadsOn DEF Becomes
<1>2. troubles' \in 0..MaxTroubles
  BY StreamBounds DEF Becomes, Leads, StreamInv, MayFail
<1> QED
  BY <1>1, <1>2

\* A step that leaves the store alone.
LEMMA StoreStays ==
    ASSUME StreamInv, instant' \in Nat, instant <= instant', UNCHANGED <<database, stream, refused>>
    PROVE  Fits(database, stream)' /\ RefusedFits'
<1>1. instant \in Nat /\ Fits(database, stream) /\ RefusedFits /\ StoreFits(database)
  BY StreamBounds DEF StreamInv, Fits
<1>2. Fits(database, stream)'
  BY <1>1, FitsLater
<1>3. \A id : Blocked(database, id)' <=> Blocked(database, id)
  BY DEF Blocked, RowsIn
<1>4. \A id \in DOMAIN database.sessions : database.sessions[id] \in Sessions
  BY <1>1 DEF StoreFits
<1>5. RefusedFits'
  BY <1>1, <1>3, <1>4, StreamBounds DEF RefusedFits, Sessions
<1> QED
  BY <1>2, <1>5

\* A step that has the store and the stream fit has the link to be looked at only.
LEMMA StreamStep ==
    ASSUME instant' \in 1..MaxInstant, troubles' \in 0..MaxTroubles,
           Fits(database, stream)', RefusedFits', LinkFits'
    PROVE  StreamInv'
BY DEF StreamInv

\* A trouble is counted within its bound.
LEMMA TroubleCounts ==
    ASSUME StreamInv, Trouble
    PROVE  troubles' \in 0..MaxTroubles
BY StreamBounds DEF StreamInv, Trouble, MayFail

\* run() on its way to a connection and from it, before and after there is a session.
LEMMA ConnectingKeeps ==
    ASSUME StreamInv,
           Connect \/ Authenticates \/ Refreshes \/ Subscribes \/ StartsFlushing
    PROVE  StreamInv'
<1>1. UNCHANGED <<instant, database, stream, sides, refused, troubles>>
  BY DEF Connect, Authenticates, Refreshes, Subscribes, StartsFlushing
<1>2. instant \in 1..MaxInstant /\ troubles \in 0..MaxTroubles /\ LinkFits
  BY DEF StreamInv
<1>3. Fits(database, stream)' /\ RefusedFits'
  BY <1>1, <1>2, StreamBounds, StoreStays
<1>4. connection' \in [n : 0..MaxConnections, subscribed : BOOLEAN, full : BOOLEAN]
  <2>1. CASE Connect
    <3>1. connection.n + 1 \in 0..MaxConnections
      BY <1>2, <2>1, StreamBounds DEF Connect, LinkFits
    <3>2. connection' = [n |-> connection.n + 1, subscribed |-> FALSE, full |-> FALSE]
      BY <2>1 DEF Connect, Connection
    <3> QED
      BY <3>1, <3>2
  <2>2. CASE ~Connect
    BY <1>2, <2>2 DEF LinkFits, Authenticates, Refreshes, Subscribes, StartsFlushing
  <2> QED
    BY <2>1, <2>2
<1>5. LinkFits'
  <2>1. CASE Connect
    <3>1. ~connection'.subscribed /\ ~connection'.full
      BY <2>1 DEF Connect, Connection
    <3> QED
      BY <2>1, <3>1, <1>1, <1>2, <1>4 DEF Connect, LinkFits, InUse, Places
  <2>2. CASE Authenticates \/ Refreshes
    BY <2>2, <1>1, <1>2, <1>4 DEF Authenticates, Refreshes, LinkFits, InUse, Places
  <2>3. CASE Subscribes
    BY <2>3, <1>1, <1>2, <1>4 DEF Subscribes, MaySubscribe, LinkFits, InUse, Places
  <2>4. CASE StartsFlushing
    BY <2>4, <1>1, <1>2, <1>4 DEF StartsFlushing, LinkFits, InUse, Places
  <2> QED
    BY <2>1, <2>2, <2>3, <2>4
<1> QED
  BY <1>1, <1>2, <1>3, <1>5, StreamStep

\* Nothing happens to the store when the connection ends, or time passes.
LEMMA EndingKeeps ==
    ASSUME StreamInv,
           OpeningFails \/ Drops \/ TokenExpires \/ Stop \/ TearsDown \/ CutShort \/ Returns \/ StreamTick
    PROVE  StreamInv'
<1>1. UNCHANGED <<database, stream, sides, connection, refused>>
  BY DEF OpeningFails, Unopened, Drops, TokenExpires, Stop, TearsDown, CutShort, Returns, StreamTick, link
<1>2. instant \in 1..MaxInstant /\ troubles \in 0..MaxTroubles /\ LinkFits
  BY DEF StreamInv
<1>3. instant' \in 1..MaxInstant /\ instant <= instant'
  BY <1>2, StreamBounds
     DEF OpeningFails, Drops, TokenExpires, Stop, TearsDown, CutShort, Returns, StreamTick
<1>4. troubles' \in 0..MaxTroubles
  BY <1>2, TroubleCounts
     DEF OpeningFails, Drops, TokenExpires, Stop, TearsDown, CutShort, Returns, StreamTick
<1>5. Fits(database, stream)' /\ RefusedFits'
  BY <1>1, <1>2, <1>3, StreamBounds, StoreStays
<1>6. pc' \in {pc, "teardown", "ended"}
  BY DEF OpeningFails, Drops, TokenExpires, Stop, TearsDown, CutShort, Returns, StreamTick, link
<1>7. LinkFits'
  BY <1>1, <1>2, <1>6 DEF LinkFits, InUse, Places
<1> QED
  BY <1>3, <1>4, <1>5, <1>7, StreamStep

\* Where the stream is, it fits.
LEMMA HereLeads ==
    ASSUME StreamInv
    PROVE  /\ Leads(Here) /\ Here.stream = stream
           /\ Here = [store |-> Here.store, stream |-> Here.stream, result |-> Here.result]
<1>1. Here = [store |-> database, stream |-> stream, result |-> "none"]
  BY DEF Here
<1> QED
  BY <1>1 DEF Leads, StreamInv

\* Opening the session of a connection keeps the invariant.
LEMMA OpensSessionKeeps ==
    ASSUME StreamInv, OpensSession
    PROVE  StreamInv'
<1>1. instant \in 1..MaxInstant /\ LinkFits /\ instant \in Nat \ {0}
  BY StreamBounds DEF StreamInv
<1>2. stream.id = 0
  BY <1>1 DEF LinkFits, OpensSession, InUse
<1> DEFINE o == [Here EXCEPT !.stream = NoStream]
<1>3. Leads(o) /\ o.stream = NoStream /\ Opened(o) = Opened(Here)
      /\ o = [store |-> o.store, stream |-> o.stream, result |-> o.result]
  <2>1. Here = [store |-> database, stream |-> stream, result |-> "none"]
    BY DEF Here
  <2>2. o = [store |-> database, stream |-> NoStream, result |-> "none"]
    BY <2>1
  <2>3. Fits(database, NoStream)
    <3>1. NoStream \in Streams /\ NoStream.id = 0 /\ StreamFits(NoStream)
      BY <1>1 DEF NoStream, Streams, StreamFits
    <3> QED
      BY <1>2, <3>1 DEF StreamInv, Fits
  <2>4. Opened(o) = Opened(Here)
    BY <2>1, <2>2 DEF Opened
  <2> HIDE DEF o
  <2>5. Leads(o)
    BY <2>2, <2>3 DEF Leads
  <2> QED
    BY <2>2, <2>4, <2>5
<1> HIDE DEF o
<1>4. Leads(Opened(Here)) /\ Opened(Here).stream.id # 0
  BY <1>1, <1>3, OpenedLeads
<1>5. Becomes(Opened(Here)) /\ UNCHANGED <<instant, sides, connection>> /\ pc' = "open" /\ pc = "ready"
  BY DEF OpensSession
<1>6. Fits(database, stream)' /\ RefusedFits' /\ troubles' \in 0..MaxTroubles
  BY <1>4, <1>5, BecomesFits
<1>7. LinkFits'
  BY <1>1, <1>5 DEF LinkFits, Places, InUse
<1> QED
  BY <1>1, <1>5, <1>6, <1>7, StreamStep

\* Closing the session after a connection keeps the invariant.
LEMMA ClosesKeeps ==
    ASSUME StreamInv, Closes
    PROVE  StreamInv'
<1>1. instant \in 1..MaxInstant /\ LinkFits /\ instant \in Nat \ {0} /\ troubles \in 0..MaxTroubles
      /\ Fits(database, stream)
  BY StreamBounds DEF StreamInv
<1>2. pc' = "idle" /\ UNCHANGED <<instant, sides, connection>>
  BY DEF Closes
<1>3. /\ Fits(database, stream)' /\ RefusedFits' /\ troubles' \in 0..MaxTroubles /\ stream'.id = 0
  <2>1. CASE InUse
    <3>1. PICK o \in Closed(Here) : Becomes(o)
      BY <2>1 DEF Closes
    <3>2. Leads(o) /\ o.stream = NoStream
      BY <2>1, <3>1, <1>1, ClosedLeads
    <3>3. stream'.id = 0
      BY <3>1, <3>2 DEF Becomes, NoStream
    <3> QED
      BY <3>1, <3>2, <3>3, <1>2, BecomesFits
  <2>2. CASE ~InUse
    <3>1. UNCHANGED <<database, stream, refused, troubles>> /\ stream'.id = 0
      BY <2>2 DEF Closes, InUse
    <3> QED
      BY <3>1, <1>1, <1>2, StoreStays
  <2> QED
    BY <2>1, <2>2
<1>4. LinkFits'
  BY <1>1, <1>2, <1>3 DEF LinkFits, Places, InUse
<1> QED
  BY <1>1, <1>2, <1>3, <1>4, StreamStep

\* A rotation keeps the invariant, whether the next session is opened or not.
LEMMA RotatesKeeps ==
    ASSUME StreamInv, Rotates \/ RotationFails
    PROVE  StreamInv'
<1>1. instant \in 1..MaxInstant /\ LinkFits /\ instant \in Nat \ {0} /\ troubles \in 0..MaxTroubles
      /\ Fits(database, stream)
  BY StreamBounds DEF StreamInv
<1>2. InUse /\ UNCHANGED <<instant, sides, pc, connection>>
  BY DEF Rotates, RotationFails, link
<1>3. Fits(database, stream)' /\ RefusedFits' /\ troubles' \in 0..MaxTroubles
  <2>1. CASE Rotates
    <3>1. PICK o \in Closed(Here) : Becomes(Opened(o))
      BY <2>1 DEF Rotates
    <3>2. Leads(Opened(o))
      BY <3>1, <1>1, <1>2, ClosedLeads, OpenedLeads
    <3> QED
      BY <3>1, <3>2, <1>2, BecomesFits
  <2>2. CASE RotationFails
    <3>1. PICK o \in Closed(Here) :
             /\ database' = o.store /\ stream' = NoStream
             /\ refused' = IF o.result = "refused" THEN refused \cup {stream.id} ELSE refused
      BY <2>2 DEF RotationFails
    <3>2. Leads(o) /\ o.stream = NoStream
      BY <3>1, <1>1, <1>2, ClosedLeads
    <3>3. troubles' \in 0..MaxTroubles
      BY <2>2, <1>1, StreamBounds DEF RotationFails, MayFail
    <3> QED
      BY <3>1, <3>2, <3>3, <1>2, LeadsOn
  <2> QED
    BY <2>1, <2>2
<1>4. LinkFits'
  BY <1>1, <1>2 DEF LinkFits, InUse
<1> QED
  BY <1>1, <1>2, <1>3, <1>4, StreamStep

\* Emitting the tick that was held back keeps the invariant.
LEMMA FlushesKeeps ==
    ASSUME StreamInv, Flushes
    PROVE  StreamInv'
<1>1. instant \in 1..MaxInstant /\ LinkFits /\ instant \in Nat \ {0} /\ Fits(database, stream)
  BY StreamBounds DEF StreamInv
<1>2. InUse /\ UNCHANGED <<instant, sides, pc, connection>>
  BY DEF Flushes, link
<1>3. PICK tick \in stream.pending : \E o \in Emitted([Here EXCEPT !.stream.pending = {}], tick) : Becomes(o)
  BY DEF Flushes
<1>8. PICK o \in Emitted([Here EXCEPT !.stream.pending = {}], tick) : Becomes(o)
  BY <1>3
<1>4. tick \in Ticks /\ TickFits(tick, stream)
  BY <1>1 DEF Fits, StreamFits, Streams
<1>5. Leads(o)
  BY <1>1, <1>2, <1>8, <1>4, EmissionLeads
<1>6. Fits(database, stream)' /\ RefusedFits' /\ troubles' \in 0..MaxTroubles
  BY <1>2, <1>8, <1>5, BecomesFits
<1>7. LinkFits'
  <2>1. stream.id # 0 /\ UNCHANGED <<sides, pc, connection>>
    BY <1>2 DEF InUse
  <2> QED
    BY <2>1, <1>1 DEF LinkFits, InUse
<1> QED
  BY <1>1, <1>2, <1>6, <1>7, StreamStep

\* A tick: the first of a connection sets both sides, and its times fit the session.
LEMMA SpotKeeps ==
    ASSUME StreamInv, NEW sent \in SUBSET {"bid", "ask"}, NEW at \in 1..instant, NEW due \in BOOLEAN,
           Spot(sent, at, due)
    PROVE  StreamInv'
<1>1. instant \in 1..MaxInstant /\ LinkFits /\ instant \in Nat \ {0} /\ Fits(database, stream)
      /\ troubles \in 0..MaxTroubles
  BY StreamBounds DEF StreamInv
<1>2. /\ connection.subscribed /\ pc \in {"ready", "open", "streaming"} /\ sent \in Sendable
      /\ connection' = [connection EXCEPT !.full = TRUE] /\ UNCHANGED <<instant, pc>>
  BY DEF Spot
<1>3. connection' \in [n : 0..MaxConnections, subscribed : BOOLEAN, full : BOOLEAN]
      /\ connection'.subscribed /\ connection'.n = connection.n
  BY <1>1, <1>2 DEF LinkFits
<1>4. CASE ~InUse
  <2>1. UNCHANGED <<database, stream, sides, refused, troubles>>
    BY <1>4 DEF Spot
  <2>2. Fits(database, stream)' /\ RefusedFits'
    BY <2>1, <1>1, <1>2, StoreStays
  <2>3. LinkFits'
    BY <2>1, <1>1, <1>2, <1>3, <1>4 DEF LinkFits, InUse
  <2> QED
    BY <2>1, <2>2, <2>3, <1>1, <1>2, StreamStep
<1>5. CASE InUse
  <2> DEFINE sides2 == [side \in DOMAIN sides |-> IF side \in sent THEN connection.n ELSE sides[side]]
             tick == TickOf(at, sides2)
  <2>1. /\ sides' = sides2
        /\ IF due \/ stream.seq = 0
           THEN \E o \in Emitted([Here EXCEPT !.stream.pending = {}], tick) : Becomes(o)
           ELSE stream' = [stream EXCEPT !.pending = {tick}] /\ UNCHANGED <<database, refused, troubles>>
    BY <1>5 DEF Spot
  <2>2. sides2 \in [{"bid", "ask"} -> 0..MaxConnections]
    BY <1>1 DEF LinkFits
  <2>3. sides2.bid = connection.n /\ sides2.ask = connection.n
    <3>1. CASE connection.full
      BY <3>1, <1>1, <1>5 DEF LinkFits
    <3>2. CASE ~connection.full
      <4>1. sent = {"bid", "ask"}
        BY <3>2, <1>2 DEF Sendable
      <4> QED
        BY <4>1, <1>1 DEF LinkFits
    <3> QED
      BY <3>1, <3>2
  <2>4. stream \in Streams /\ StreamFits(stream) /\ stream.source <= instant /\ stream.bridge <= instant
        /\ stream.at <= instant
    BY <1>1 DEF Fits, StreamFits
  <2>5. SourceOf(at) \in Nat /\ stream.source <= SourceOf(at) /\ SourceOf(at) <= instant
    <3>1. at \in Nat /\ stream.source \in Nat /\ at <= instant
      BY <2>4, <1>1 DEF Streams
    <3>2. CASE at <= stream.source
      <4>1. Max({at, stream.source}) = stream.source
        BY <3>1, <3>2, MaxIs
      <4> QED
        BY <4>1, <3>1, <2>4 DEF SourceOf
    <3>3. CASE stream.source <= at
      <4>1. Max({at, stream.source}) = at
        BY <3>1, <3>3, MaxIs
      <4> QED
        BY <4>1, <3>1, <3>3 DEF SourceOf
    <3> QED
      BY <3>1, <3>2, <3>3
  <2>6. tick = [source |-> SourceOf(at), bridge |-> instant, bid |-> connection.n, ask |-> connection.n]
    BY <2>3 DEF TickOf
  <2>7. tick \in Ticks /\ TickFits(tick, stream)
    BY <2>4, <2>5, <2>6, <1>1, StreamBounds DEF Ticks, TickFits, LinkFits
  <2> HIDE DEF tick, sides2
  <2>8. Fits(database, stream)' /\ RefusedFits' /\ troubles' \in 0..MaxTroubles
    <3>1. CASE due \/ stream.seq = 0
      <4>1. PICK o \in Emitted([Here EXCEPT !.stream.pending = {}], tick) : Becomes(o)
        BY <2>1, <3>1
      <4>2. Leads(o)
        BY <4>1, <2>7, <1>1, <1>5, EmissionLeads
      <4> QED
        BY <4>1, <4>2, <1>2, BecomesFits
    <3>2. CASE ~(due \/ stream.seq = 0)
      <4> DEFINE str == [stream EXCEPT !.pending = {tick}]
      <4>1. stream' = str /\ UNCHANGED <<database, refused, troubles>>
        BY <2>1, <3>2
      <4>2. /\ str \in Streams /\ str.pending = {tick} /\ str.id = stream.id /\ str.at = stream.at
            /\ str.seq = stream.seq /\ str.source = stream.source /\ str.bridge = stream.bridge
            /\ str.received = stream.received
        BY <2>4, <2>7 DEF Streams
      <4> HIDE DEF str
      <4>3. StreamFits(str)
        BY <4>2, <2>4, <2>7, <3>2 DEF StreamFits, TickFits, Streams
      <4>4. Fits(database, str)
        BY <4>2, <4>3, <1>1, <1>5 DEF Fits, SessionFits
      <4>5. Fits(database, stream)'
        BY <4>1, <4>4, <1>1, <1>2, FitsLater
      <4>6. RefusedFits'
        BY <4>1, <1>2 DEF StreamInv, RefusedFits, Blocked, RowsIn
      <4> QED
        BY <4>1, <4>5, <4>6, <1>1
    <3> QED
      BY <3>1, <3>2
  <2>9. LinkFits'
    BY <2>1, <2>2, <2>3, <1>1, <1>2, <1>3, <1>5 DEF LinkFits, InUse
  <2> QED
    BY <2>8, <2>9, <1>1, <1>2, StreamStep
<1> QED
  BY <1>4, <1>5

\* The invariant of the stream holds when it begins.
LEMMA StreamInvInit ==
    StreamInit => StreamInv
<1> SUFFICES ASSUME StreamInit PROVE StreamInv
  OBVIOUS
<1>1. instant \in 1..MaxInstant /\ troubles \in 0..MaxTroubles /\ instant = 1
  BY StreamBounds DEF StreamInit
<1>2. Fits(database, stream)
  <2>1. database = [sessions |-> <<>>, rows |-> {}]
    BY DEF StreamInit, EmptyStore
  <2>2. stream = NoStream /\ NoStream \in Streams
    BY DEF StreamInit, NoStream, Streams
  <2> QED
    BY <1>1, <2>1, <2>2 DEF Fits, StoreFits, StreamFits, NoStream
<1>3. RefusedFits
  BY DEF StreamInit, RefusedFits
<1>4. LinkFits
  BY StreamBounds DEF StreamInit, LinkFits, Connection, Places, InUse, NoStream
<1> QED
  BY <1>1, <1>2, <1>3, <1>4 DEF StreamInv

\* Every step of the stream keeps its invariant.
LEMMA StreamInvNext ==
    StreamInv /\ [StreamNext]_streamVars => StreamInv'
<1> SUFFICES ASSUME StreamInv, [StreamNext]_streamVars PROVE StreamInv'
  OBVIOUS
<1>1. CASE Connect \/ Authenticates \/ Refreshes \/ Subscribes \/ StartsFlushing
  BY <1>1, ConnectingKeeps
<1>2. CASE OpeningFails \/ Drops \/ TokenExpires \/ Stop \/ TearsDown \/ CutShort \/ Returns \/ StreamTick
  BY <1>2, EndingKeeps
<1>3. CASE OpensSession
  BY <1>3, OpensSessionKeeps
<1>4. CASE Closes
  BY <1>4, ClosesKeeps
<1>5. CASE Rotates \/ RotationFails
  BY <1>5, RotatesKeeps
<1>6. CASE Flushes
  BY <1>6, FlushesKeeps
<1>7. CASE \E sent \in SUBSET {"bid", "ask"}, at \in 1 .. instant, due \in BOOLEAN : Spot(sent, at, due)
  BY <1>7, SpotKeeps
<1>8. CASE UNCHANGED streamVars
  <2>1. UNCHANGED <<instant, database, stream, sides, pc, connection, refused, troubles>>
    BY <1>8 DEF streamVars, link
  <2>2. Fits(database, stream)' /\ RefusedFits'
    BY <2>1, StoreStays, StreamBounds DEF StreamInv
  <2>3. LinkFits'
    BY <2>1 DEF StreamInv, LinkFits, InUse
  <2> QED
    BY <2>1, <2>2, <2>3, StreamStep DEF StreamInv
<1> QED
  BY <1>1, <1>2, <1>3, <1>4, <1>5, <1>6, <1>7, <1>8 DEF StreamNext, Connecting, Ending, Task

\* The invariant is strong enough for StreamAddsUp.
LEMMA StreamInvAddsUp ==
    StreamInv => StreamAddsUp
<1> SUFFICES ASSUME StreamInv PROVE StreamAddsUp
  OBVIOUS
<1>1. /\ instant \in 1..MaxInstant /\ troubles \in 0..MaxTroubles
      /\ StoreFits(database) /\ StreamFits(stream) /\ (InUse => SessionFits(database, stream))
      /\ \A id \in DOMAIN database.sessions : id = stream.id \/ Accounted(database, id)
      /\ RefusedFits /\ LinkFits
  BY DEF StreamInv, Fits, InUse
<1>2. /\ Ids(database) = DOMAIN database.sessions
      /\ \A id \in DOMAIN database.sessions :
            /\ SessionOf(database, id) = database.sessions[id]
            /\ IsOpen(database, id) <=> database.sessions[id].stop = <<>>
  BY <1>1, SessionIs
<1>3. StreamTypeOK
  <2>1. InUse => IsOpen(database, stream.id) /\ pc \notin {"idle", "auth", "refresh"}
    BY <1>1, <1>2 DEF SessionFits, LinkFits
  <2>2. stream.pending # {} => stream.seq > 0 /\ Cardinality(stream.pending) = 1
    <3> SUFFICES ASSUME stream.pending # {}
                 PROVE  stream.seq > 0 /\ Cardinality(stream.pending) = 1
      OBVIOUS
    <3>1. PICK tick \in Ticks : stream.pending = {tick}
      BY <1>1 DEF StreamFits, Streams
    <3>2. Cardinality({tick}) = 1
      BY FS_Singleton
    <3> QED
      BY <3>1, <3>2, <1>1 DEF StreamFits
  <2> QED
    BY <2>1, <2>2, <1>1, <1>2 DEF StreamTypeOK, LinkFits, RefusedFits, Places
<1>4. SidesBelongTogether
  BY <1>1 DEF SidesBelongTogether, StoreFits
<1>5. OnlyUnpublishedBlocks
  BY <1>1, <1>2 DEF OnlyUnpublishedBlocks, Outlived, RefusedFits, Blocked
<1>6. SessionsAreAccountedFor
  <2>1. ASSUME NEW n \in DOMAIN database.sessions
        PROVE  LET s == database.sessions[n] IN
               \/ s.id = stream.id
               \/ s.stop = <<Cardinality(RowsIn(database, s.id))>>
               \/ \E r \in RowsIn(database, s.id) : Unpublished(r)
    <3>1. database.sessions[n].id = n
      BY <1>1 DEF StoreFits
    <3> QED
      BY <3>1, <1>1 DEF Accounted, Blocked
  <2> QED
    BY <2>1 DEF SessionsAreAccountedFor, ToSet
<1> QED
  BY <1>3, <1>4, <1>5, <1>6 DEF StreamAddsUp

\* StreamAddsUp: each quote is of one connection, a session that is over counts just what
\* was published in it, and the store refuses a quote only in a session with one left
\* unpublished, or in one that outlived its duration (CTraderOpenApiQuoteStreamer and
\* QuoteStore; ctrader_openapi.py, quotes.py).
THEOREM StreamAlwaysAddsUp ==
    StreamSpec => []StreamAddsUp
<1> QED
  BY StreamInvInit, StreamInvNext, StreamInvAddsUp, PTL DEF StreamSpec
=============================================================================
