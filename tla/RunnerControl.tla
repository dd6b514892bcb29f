---------------------------- MODULE RunnerControl ----------------------------
(***************************************************************************)
(* Starting and stopping the Shadow runner (runtime.py: ShadowRunner.run   *)
(* and stop, the runner's row of SQLiteRuntimeStore; the shutdown          *)
(* operations of SQLiteShadowLedger; the stop command of shadow_cli.py).   *)
(*                                                                         *)
(* run() starts workers that share one event loop and hand their ledger    *)
(* operations to threads, waits for a stop, and shuts down in two phases:  *)
(* first the news and event workers end and risk-increasing orders are     *)
(* cancelled, then the quote and protection workers go on until the        *)
(* position is closed or the drain gives up.  A stop comes from a signal   *)
(* (runner.stop), from another process through the runner's row, or from   *)
(* the end of a bounded run.  Cancelling a task leaves the thread it       *)
(* awaits running (late).  The ledger is reduced to what a stop is about:  *)
(* one order that would add risk, a position, and whether its exit is due. *)
(***************************************************************************)
EXTENDS Integers

CONSTANTS
    Durations,       \* the durations runs are started with, Forever or a number
    Weekend,         \* the ticks at which the market is closed
    Required,        \* max_holding_seconds and exit_buffer_seconds together
    Settings,        \* how a run may be set up: drains (exit_drain_timeout_seconds > 0),
                     \* closes (close_on_stop) and handoff (confirm_handoff)
    MaxClock,        \* bound: the last tick of a behaviour
    MaxRuns,         \* bound: how often the process is started
    MaxFaults        \* bound: exceptions raised during a shutdown

Forever == -1

ASSUME RunnerAssumption ==
    /\ Durations \subseteq (Nat \ {0}) \cup {Forever} /\ Durations # {}
    /\ Weekend \subseteq Nat /\ Required \in Nat
    /\ Settings \subseteq [drains : BOOLEAN, closes : BOOLEAN, handoff : BOOLEAN]
    /\ Settings # {}
    /\ MaxClock \in Nat /\ MaxRuns \in Nat \ {0} /\ MaxFaults \in Nat

VARIABLES
    clock,
    main,       \* how far run() has come
    seen,       \* the position as run() last read it
    summary,    \* the shutdown_status it reports
    run,        \* _run_started_at, _run_duration_seconds and the settings of the run
    stopEvent,  \* _stop_event
    reason,     \* _stop_reason is set
    row,        \* shadow_runner_state, durable
    quoter,     \* the quote worker, and whether it was told of a stop when it began
    protector,  \* the protection worker
    eventer,    \* the event worker
    late,       \* threads whose task was cancelled
    sweeping,   \* stop() has announced itself and waits for the ledger's lock
    ledger,     \* shadow_account and the pending order, durable
    swept,      \* history: orders have been cancelled for the stop of this run,
    counts      \*   how many runs and faults there have been

workers == <<quoter, protector, eventer>>
signals == <<stopEvent, reason, sweeping>>
history == <<swept, counts>>
vars == <<clock, main, seen, summary, run, signals, row, workers, late, ledger, history>>

Resting == [pc |-> "idle", told |-> FALSE]
Up == main # "down"
Over(r, t) == r.duration # Forever /\ t >= r.startedAt + r.duration

Init ==
    /\ clock = 0 /\ main = "down" /\ seen = FALSE /\ summary = "none"
    /\ \E set \in Settings : run = [startedAt |-> 0, duration |-> Forever, set |-> set]
    /\ stopEvent = FALSE /\ reason = FALSE /\ sweeping = FALSE
    /\ row = [status |-> "idle", asked |-> FALSE, startedAt |-> 0, duration |-> Forever]
    /\ quoter = Resting /\ protector = "off" /\ eventer = "off" /\ late = {}
    /\ ledger = [position |-> FALSE, pending |-> FALSE, exitDue |-> FALSE]
    /\ swept = FALSE /\ counts = [runs |-> 0, faults |-> 0]
-----------------------------------------------------------------------------
(***************************************************************************)
(* What counts as a stop                                                   *)
(***************************************************************************)
\* ShadowRunner._active_stop_reason; short: the quote bridge ends too soon.
RunnerStops(short) ==
    \/ reason \/ stopEvent
    \/ clock \in Weekend
    \/ Over(run, clock)
    \/ run.duration # Forever /\ clock + Required > run.startedAt + run.duration
    \/ short

\* The part of the ledger's own look that reads the runner's row.
RowStops ==
    \/ row.asked
    \/ row.status \in {"stopping", "stopped"}
    \/ row.status = "running" /\ Over(row, clock)

\* Mutant: the ledger asks the row alone, where a drain does not count as a stop.
LedgerStops_ByRow(short) == RowStops

\* SQLiteShadowLedger._active_stop_reason_locked.
LedgerStops(short) == (Up /\ RunnerStops(short)) \/ RowStops

(***************************************************************************)
(* The ledger's operations                                                 *)
(***************************************************************************)
\* cancel_risk_increasing_pending_orders
Cancelled == [ledger EXCEPT !.pending = FALSE]

\* request_protective_exit_on_stop
ExitRequested(l) == [l EXCEPT !.exitDue = l.exitDue \/ l.position]

\* mark_shutdown_unclosed_risk
Marked == [ledger EXCEPT !.exitDue = ledger.exitDue \/ ledger.position]

\* evaluate_protective_exits on account l, with a good quote or not, a trigger or not.
Exited(l, good, trigger) ==
    LET due == l.position /\ (trigger \/ l.exitDue)
    IN  [position |-> l.position /\ ~(due /\ good),
         pending  |-> l.pending /\ ~due,
         exitDue  |-> due /\ ~good]

\* fill_pending; an order may also be refused for other reasons (refused).
Filled(told, short, good, refused) ==
    CASE ~ledger.pending -> ledger
      [] ledger.pending /\ (told \/ LedgerStops(short)) -> Cancelled
      [] ledger.pending /\ ~(told \/ LedgerStops(short)) /\ ~good -> ledger
      [] OTHER -> [Cancelled EXCEPT !.position = ledger.position \/ ~(refused \/ ledger.exitDue)]

\* record of an approved order that adds risk.
RecordedOrder(short, refused) ==
    IF LedgerStops(short) THEN Cancelled
    ELSE [ledger EXCEPT !.pending = ledger.pending \/ ~refused]

\* It also ends the orders that expired.
EvaluateExits ==
    \E l \in {ledger, Cancelled}, good, trigger \in BOOLEAN : ledger' = Exited(l, good, trigger)
FillOrders(told) == \E short, good, refused \in BOOLEAN :
                        ledger' = Filled(told, short, good, refused)
RecordOrder == \E short, refused \in BOOLEAN : ledger' = RecordedOrder(short, refused)
-----------------------------------------------------------------------------
(***************************************************************************)
(* Starting, and the ways a stop arrives                                   *)
(***************************************************************************)
\* update_runner_state with reset_stop.
StartedRow(d) ==
    [status |-> "running", asked |-> FALSE, startedAt |-> clock, duration |-> d]

\* run() up to its first await.
Start(d, set) ==
    /\ main = "down" /\ late = {} /\ counts.runs < MaxRuns
    /\ main' = "waiting" /\ seen' = FALSE /\ summary' = "none"
    /\ run' = [startedAt |-> clock, duration |-> d, set |-> set]
    /\ row' = StartedRow(d)
    /\ stopEvent' = FALSE /\ reason' = FALSE /\ sweeping' = FALSE
    /\ quoter' = Resting /\ protector' = "idle" /\ eventer' = "idle"
    /\ swept' = FALSE /\ counts' = [counts EXCEPT !.runs = counts.runs + 1]
    /\ UNCHANGED <<clock, late, ledger>>

\* The stop command, in a process of its own, at any time.
RequestStop ==
    /\ ~row.asked
    /\ row' = [row EXCEPT !.asked = TRUE]
    /\ UNCHANGED <<clock, main, seen, summary, run, signals, workers, late, ledger, history>>

\* A signal: stop() as far as the ledger's lock,
Signal ==
    /\ Up /\ ~sweeping /\ ~reason
    /\ reason' = TRUE /\ stopEvent' = TRUE /\ sweeping' = TRUE
    /\ row' = [row EXCEPT !.asked = TRUE]
    /\ UNCHANGED <<clock, main, seen, summary, run, workers, late, ledger, history>>

\* and its ledger operations.  The event loop stands still until they are done.
SignalSweeps ==
    /\ sweeping
    /\ sweeping' = FALSE /\ swept' = TRUE
    /\ ledger' = IF run.set.closes THEN ExitRequested(Cancelled) ELSE Cancelled
    /\ UNCHANGED <<clock, main, seen, summary, run, stopEvent, reason, row, workers, late,
                   counts>>

\* The recover command, after a run: a recovered decision may still become an order,
\* then positions are looked at as the workers would.
Recover ==
    /\ main = "down" /\ late = {}
    /\ \E short, refused, close, good, trigger \in BOOLEAN :
          LET recorded == RecordedOrder(short, refused)
              asked == IF close THEN ExitRequested(recorded) ELSE recorded
          IN  ledger' = Exited(asked, good, trigger)
    /\ UNCHANGED <<clock, main, seen, summary, run, signals, row, workers, late, history>>

Tick ==
    /\ clock < MaxClock
    /\ clock' = clock + 1
    /\ UNCHANGED <<main, seen, summary, run, signals, row, workers, late, ledger, history>>
-----------------------------------------------------------------------------
(***************************************************************************)
(* The workers                                                             *)
(***************************************************************************)
LoopTurns == Up /\ ~sweeping

\* Mutant: nobody reads the row.
HeardRow_Never == stopEvent

\* Every worker looks at the row when it comes round.
HeardRow == stopEvent \/ row.asked

\* _quote_worker: look for a stop and begin step_quotes_and_fills,
QuoteBegins ==
    /\ LoopTurns /\ quoter.pc = "idle" /\ main \notin {"ending", "closing"}
    /\ stopEvent' = HeardRow
    /\ quoter' = [pc |-> "exits", told |-> reason]
    /\ UNCHANGED <<clock, main, seen, summary, run, reason, sweeping, row, protector,
                   eventer, late, ledger, history>>

\* whose two ledger operations run in threads.
QuoteExits ==
    /\ Up /\ quoter.pc = "exits"
    /\ EvaluateExits
    /\ quoter' = [quoter EXCEPT !.pc = "fill"]
    /\ UNCHANGED <<clock, main, seen, summary, run, signals, row, protector, eventer, late,
                   history>>

AfterFill == Resting

QuoteFills ==
    /\ Up /\ quoter.pc = "fill"
    /\ FillOrders(quoter.told)
    /\ quoter' = AfterFill
    /\ UNCHANGED <<clock, main, seen, summary, run, signals, row, protector, eventer, late,
                   history>>

\* _protection_worker: look for a stop and evaluate,
ProtectBegins ==
    /\ LoopTurns /\ protector = "idle" /\ main \notin {"ending", "closing"}
    /\ stopEvent' = HeardRow
    /\ protector' = "exits"
    /\ UNCHANGED <<clock, main, seen, summary, run, reason, sweeping, row, quoter, eventer,
                   late, ledger, history>>

ProtectExits ==
    /\ Up /\ protector = "exits"
    /\ EvaluateExits
    /\ protector' = "beat"
    /\ UNCHANGED <<clock, main, seen, summary, run, signals, row, quoter, eventer, late,
                   history>>

MayBeat == ~stopEvent

\* and show that the run is alive, unless the row says it is stopping.
Heartbeat ==
    /\ LoopTurns /\ protector = "beat"
    /\ protector' = "idle"
    /\ row' = IF MayBeat /\ ~(row.asked \/ row.status \in {"stopping", "stopped"})
              THEN [row EXCEPT !.status = "running"] ELSE row
    /\ UNCHANGED <<clock, main, seen, summary, run, signals, quoter, eventer, late, ledger,
                   history>>

\* _news_poll_worker.
PollNews ==
    /\ LoopTurns /\ main = "waiting" /\ ~stopEvent
    /\ stopEvent' = HeardRow
    /\ UNCHANGED <<clock, main, seen, summary, run, reason, sweeping, row, workers, late,
                   ledger, history>>

\* _event_worker: a cycle that comes to record an order, or finds a stop.
EventBegins ==
    /\ LoopTurns /\ eventer = "idle" /\ ~stopEvent
    /\ stopEvent' = HeardRow
    /\ eventer' = IF HeardRow THEN "done" ELSE "recording"
    /\ UNCHANGED <<clock, main, seen, summary, run, reason, sweeping, row, quoter,
                   protector, late, ledger, history>>

EventRecords ==
    /\ Up /\ eventer = "recording"
    /\ RecordOrder
    /\ eventer' = "idle"
    /\ UNCHANGED <<clock, main, seen, summary, run, signals, row, quoter, protector, late,
                   history>>

\* A thread whose task was cancelled finishes all the same.
LateFinishes ==
    \E op \in late :
        /\ late' = late \ {op}
        /\ CASE op = "record" -> RecordOrder
             [] op = "exits" -> EvaluateExits
             [] op = "fill" -> FillOrders(TRUE)
             [] op = "fill untold" -> FillOrders(FALSE)
        /\ UNCHANGED <<clock, main, seen, summary, run, signals, row, workers, history>>
-----------------------------------------------------------------------------
(***************************************************************************)
(* The shutdown                                                            *)
(***************************************************************************)
\* The wait of run() ends; the row says so and the first workers are cancelled.
BeginShutdown ==
    /\ LoopTurns /\ main = "waiting" /\ (stopEvent \/ Over(run, clock))
    /\ main' = "sweep"
    /\ reason' = TRUE /\ stopEvent' = TRUE
    /\ row' = [row EXCEPT !.status = "stopping"]
    /\ eventer' = "done"
    /\ late' = IF eventer = "recording" THEN late \cup {"record"} ELSE late
    /\ UNCHANGED <<clock, seen, summary, run, sweeping, quoter, protector, ledger, history>>

\* Cancel orders, ask for the exit,
SweepOrders ==
    /\ LoopTurns /\ main = "sweep"
    /\ main' = "pass" /\ swept' = TRUE
    /\ ledger' = IF run.set.closes THEN ExitRequested(Cancelled) ELSE Cancelled
    /\ UNCHANGED <<clock, seen, summary, run, signals, row, workers, late, counts>>

\* evaluate at once, and again for each turn of the drain; fill_pending is told to stop,
PassOver ==
    /\ LoopTurns /\ (main = "pass" \/ (main = "drain" /\ seen))
    /\ \E good, trigger \in BOOLEAN : ledger' = Exited(Cancelled, good, trigger)
    /\ seen' = ledger'.position
    /\ main' = IF main = "drain" THEN "drain" ELSE "decide"
    /\ UNCHANGED <<clock, summary, run, signals, row, workers, late, history>>

\* drain if there is something to drain,
DecideDrain ==
    /\ LoopTurns /\ main = "decide"
    /\ IF seen /\ ~run.set.handoff /\ run.set.drains
       THEN main' = "drain" /\ row' = [row EXCEPT !.status = "draining"]
       ELSE main' = "ending" /\ UNCHANGED row
    /\ UNCHANGED <<clock, seen, summary, run, signals, workers, late, ledger, history>>

\* until it is closed or the event loop's clock reaches the deadline.
DrainEnds ==
    /\ LoopTurns /\ main = "drain"
    /\ main' = "ending"
    /\ UNCHANGED <<clock, seen, summary, run, signals, row, workers, late, ledger, history>>

InFlight == {op \in {"exits"} : quoter.pc = "exits" \/ protector = "exits"}
    \cup {op \in {"fill"} : quoter.pc = "fill" /\ quoter.told}
    \cup {op \in {"fill untold"} : quoter.pc = "fill" /\ ~quoter.told}

\* Phase 3: the quote and protection workers are cancelled.
EndWorkers ==
    /\ LoopTurns /\ main = "ending"
    /\ main' = "account"
    /\ late' = late \cup InFlight
    /\ quoter' = [Resting EXCEPT !.pc = "off"] /\ protector' = "off"
    /\ UNCHANGED <<clock, seen, summary, run, signals, row, eventer, ledger, history>>

\* Mutant: only a drain that gave up leaves something to report.
Unclosed_AfterDrain == ledger.position /\ run.set.drains

Unclosed == ledger.position

\* Read the position, say how the run ended,
Account ==
    /\ LoopTurns /\ main = "account"
    /\ seen' = ledger.position
    /\ summary' = CASE ~Unclosed -> "flat" [] Unclosed /\ run.set.handoff -> "handoff"
                    [] OTHER -> "unclosed"
    /\ main' = IF Unclosed /\ ~run.set.handoff THEN "mark" ELSE "close"
    /\ UNCHANGED <<clock, run, signals, row, workers, late, ledger, history>>

\* leave a mark on a position that is still open,
MarkUnclosed ==
    /\ LoopTurns /\ main = "mark"
    /\ ledger' = Marked
    /\ main' = "close"
    /\ UNCHANGED <<clock, seen, summary, run, signals, row, workers, late, history>>

\* and end.
Close ==
    /\ LoopTurns /\ main = "close"
    /\ row' = [row EXCEPT !.status = "stopped"]
    /\ main' = "closing"
    /\ UNCHANGED <<clock, seen, summary, run, signals, workers, late, ledger, history>>

\* The process ends when its threads have.
Leave ==
    /\ LoopTurns /\ main = "closing" /\ late = {}
    /\ main' = "down"
    /\ UNCHANGED <<clock, seen, summary, run, signals, row, workers, late, ledger, history>>

(***************************************************************************)
(* Failures                                                                *)
(***************************************************************************)
Gone == [Resting EXCEPT !.pc = "off"]

\* An exception in the shutdown is not caught: the run ends where it is.
ShutdownFails ==
    /\ LoopTurns /\ main \in {"sweep", "pass", "drain", "account", "mark"}
    /\ counts.faults < MaxFaults
    /\ counts' = [counts EXCEPT !.faults = counts.faults + 1]
    /\ main' = "closing"
    /\ late' = late \cup InFlight
    /\ quoter' = Gone /\ protector' = "off"
    /\ UNCHANGED <<clock, seen, summary, run, signals, row, eventer, ledger, swept>>

\* The process is killed: what its threads had not committed is gone.
Crash ==
    /\ Up /\ counts.runs < MaxRuns
    /\ main' = "down" /\ late' = {}
    /\ quoter' = Gone /\ protector' = "off" /\ eventer' = "off"
    /\ sweeping' = FALSE
    /\ UNCHANGED <<clock, seen, summary, run, stopEvent, reason, row, ledger, history>>

Quoting == QuoteBegins \/ QuoteExits \/ QuoteFills
Protecting == ProtectBegins \/ ProtectExits \/ Heartbeat
Events == EventBegins \/ EventRecords
Shutdown == BeginShutdown \/ SweepOrders \/ PassOver \/ DecideDrain \/ DrainEnds
            \/ EndWorkers \/ Account \/ MarkUnclosed \/ Close \/ Leave

Next ==
    \/ \E d \in Durations, set \in Settings : Start(d, set)
    \/ RequestStop \/ Signal \/ SignalSweeps \/ Recover \/ Tick
    \/ Quoting \/ Protecting \/ PollNews \/ Events \/ LateFinishes
    \/ Shutdown \/ ShutdownFails \/ Crash

Spec == Init /\ [][Next]_vars

(***************************************************************************)
(* Every worker comes round by its timer, threads finish, and run() goes   *)
(* on; the deadline of a drain is reached.  Nothing is assumed of signals, *)
(* of the market or of the other process.                                  *)
(***************************************************************************)
FairSpec ==
    /\ Spec
    /\ WF_vars(Quoting) /\ WF_vars(Protecting)
    /\ WF_vars(Events) /\ WF_vars(LateFinishes) /\ WF_vars(SignalSweeps)
    /\ WF_vars(Shutdown) /\ WF_vars(DrainEnds)
-----------------------------------------------------------------------------
(***************************************************************************)
(* Properties                                                              *)
(***************************************************************************)
Phases == {"down", "waiting", "sweep", "pass", "decide", "drain", "ending", "account",
           "mark", "close", "closing"}

\* The rows and records keep their types, and a told quote worker is one that is busy.
TypeOK ==
    /\ clock \in 0..MaxClock
    /\ main \in Phases /\ seen \in BOOLEAN
    /\ summary \in {"none", "flat", "handoff", "unclosed"}
    /\ run \in [startedAt : 0..MaxClock, duration : Durations \cup {Forever}, set : Settings]
    /\ stopEvent \in BOOLEAN /\ reason \in BOOLEAN /\ sweeping \in BOOLEAN
    /\ row \in [status : {"idle", "running", "stopping", "draining", "stopped"},
                asked : BOOLEAN, startedAt : 0..MaxClock, duration : Durations \cup {Forever}]
    /\ quoter \in [pc : {"idle", "exits", "fill", "off"}, told : BOOLEAN]
    /\ quoter.told => quoter.pc \in {"exits", "fill"}
    /\ protector \in {"off", "idle", "exits", "beat"}
    /\ eventer \in {"off", "idle", "recording", "done"}
    /\ late \subseteq {"record", "exits", "fill", "fill untold"}
    /\ ledger \in [position : BOOLEAN, pending : BOOLEAN, exitDue : BOOLEAN]
    /\ swept \in BOOLEAN
    /\ counts \in [runs : 0..MaxRuns, faults : 0..MaxFaults]

\* Once the orders have been cancelled for a stop, no order and no position comes to
\* be for the rest of the run: not through a worker told nothing of the stop, nor
\* through a thread that outlived its task, nor while the row says draining, which
\* the ledger does not count as a stop.
SweepIsFinal ==
    [][swept /\ Up => /\ ledger'.pending => ledger.pending
                      /\ ledger'.position => ledger.position]_vars

\* Only a new run shows the row as running again; a heartbeat already on its way
\* when the stop came does not.
StopIsNotUndone ==
    [][row'.status = "running" => row.status = "running" \/ main = "down"]_vars

\* A stop is final for its run: in the row, and in the ledger.
StopIsFinal == SweepIsFinal /\ StopIsNotUndone

\* While a run waits, the row ends it only at its own end: an earlier run's duration,
\* or a request made before it started, does not stop the ledger.
RowIsOfThisRun ==
    main = "waiting" /\ RowStops => row.asked \/ Over(run, clock)

\* A run that ended in order leaves no open position without a due exit, unless the
\* operator took it over, and does not report a position as closed that is open.
OpenRiskIsMarked ==
    main \in {"closing", "down"} /\ row.status = "stopped" =>
        /\ ledger.position => ledger.exitDue \/ run.set.handoff
        /\ summary = "flat" => ~ledger.position

\* The row is the run's own while it waits, and tells the truth of it at the end.
RunsAreAccountedFor == TypeOK /\ RowIsOfThisRun /\ OpenRiskIsMarked

\* A stop asked for during a run ends it, and so does the end of its duration: some
\* worker reads the row, the drain gives up, and late threads finish.
StopIsHeeded == (Up /\ (row.asked \/ Over(run, clock))) ~> (main = "down")
=============================================================================
