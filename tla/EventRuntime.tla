---------------------------- MODULE EventRuntime ----------------------------
(***************************************************************************)
(* The event worker (runtime.py: IntradayEventRuntime, the event side of   *)
(* SQLiteRuntimeStore, ShadowRunner.step_events): how an event becomes a   *)
(* model call, a decision committed to memory, an assessed target and an   *)
(* order, across time-outs, failures, restarts and a stop.                 *)
(*                                                                         *)
(* The worker runs one cycle at a time.  A cycle is a coroutine; where it  *)
(* awaits, it can be cancelled by a time-out, and what it awaited, when    *)
(* that is a thread writing to the memory or to the ledger, goes on        *)
(* without it (late).  Its durable state is in three places written one    *)
(* after the other: thesis memory, the ledger and the event's row.         *)
(*                                                                         *)
(* The ledger is the OrderLifecycle that ShadowLedger implements: its      *)
(* actions are used here as they are, with the two things a cycle sees of  *)
(* the ledger besides, the receipts refused and the number of the          *)
(* portfolio snapshot, which every change of the position moves on.        *)
(***************************************************************************)
EXTENDS Integers, FiniteSets, Functions

CONSTANTS
    Events,
    MaxAttempts,      \* max_reasoning_attempts
    MaxQuoteWait,     \* max_quote_wait_age
    MaxRecoveryAge,   \* max_recovery_event_age
    DailyCalls,       \* max_daily_llm_calls
    DecisionTTL,      \* a decision is valid for this long
    ApprovalTTL,      \* and the approval of its risk for this long
    MaxClock,         \* bound: the last tick of a behaviour, all in one day
    MaxCrashes,       \* bound: restarts of the process
    MaxErrors         \* bound: exceptions of a database that stays locked

\* The time of what has not happened, and the event of no cycle.
Never == -1

ASSUME RuntimeAssumption ==
    /\ IsFiniteSet(Events) /\ Never \notin Events
    /\ MaxAttempts \in Nat \ {0} /\ DailyCalls \in Nat \ {0}
    /\ MaxQuoteWait \in Nat /\ MaxRecoveryAge \in Nat
    /\ DecisionTTL \in Nat \ {0} /\ ApprovalTTL \in Nat \ {0}
    /\ MaxClock \in Nat /\ MaxCrashes \in Nat /\ MaxErrors \in Nat

VARIABLES
    clock,
    received,    \* when each event was captured, or Never
    runStart,    \* when this run of the process started
    rows,        \* runtime_events
    version,     \* memory: its version, and the decision
    committed,   \*   committed for each event
    orders,      \* ledger: the order of each event's decision, new until recorded,
    refused,     \*   the events whose order was refused when recorded,
    position,    \*   the position held,
    snapshot,    \*   and the number of the portfolio snapshot
    unmarked,    \* orders filled, not yet marked so in their event's row
    cycle,       \* the cycle in progress
    late,        \* writes whose cycle was cancelled while it awaited them
    recovering,  \* events recover_incomplete has yet to look at
    stop,        \* a stop has been requested
    faults,      \* how many restarts and database errors there have been
    audits,      \* agent_decided and reasoning_failed records of the day
    calls,       \* history: model calls made for each event,
    lost,        \*   those that ended in no attempt on record,
    struck,      \*   the events with a write that outlived its cycle
    overdue      \*   and those too old for recovery when the process started

Life == INSTANCE OrderLifecycle WITH Orders <- Events, state <- orders

ledger == <<orders, refused, position, snapshot>>
memory == <<version, committed>>
history == <<calls, lost, struck, overdue>>
vars == <<clock, received, runStart, rows, memory, ledger, unmarked, cycle, late,
          recovering, stop, faults, audits, history>>

\* What the step of a cycle leaves to the rest of the system.
surroundings == <<clock, received, runStart, unmarked, stop, overdue>>

NoDecision == [target |-> FALSE, basis |-> -1, snapshot |-> -1, validUntil |-> -1]
Idle == [pc |-> "idle", event |-> Never, decision |-> NoDecision, seen |-> -1,
         busy |-> FALSE, until |-> -1]
NoRow == [state |-> "absent", attempts |-> 0, linked |-> FALSE, ordersBefore |-> FALSE,
          place |-> 0]

\* TERMINAL_EVENT_STATES without "bundled", and the states recovery looks for.
Refusals == {"no_target", "target_rejected", "risk_rejected"}
Unheard == {"filtered_out", "expired", "recovery_expired", "recovery_abandoned"}
Terminal == Refusals \cup Unheard \cup {"shadow_recorded", "shadow_rejected", "completed"}
Incomplete == {"received", "filtered_accepted", "awaiting_market_quote", "reasoning_failed",
               "memory_committed", "risk_assessed"}

Captured == {e \in Events : received[e] # Never}
Age(e) == clock - received[e]
Decided(e) == committed[e] # NoDecision
Recorded(e) == orders[e] # "new"
Outstanding == Life!Outstanding

\* Mutant: one attempt too many.
Exhausted_OneMore(row) == row.state = "reasoning_failed" /\ row.attempts > MaxAttempts

Exhausted(row) == row.state = "reasoning_failed" /\ row.attempts >= MaxAttempts

Done(row) == row.state \in Terminal \/ Exhausted(row)

Init ==
    /\ clock = 0 /\ runStart = 0
    /\ received = [e \in Events |-> Never]
    /\ rows = [e \in Events |-> NoRow]
    /\ version = 0 /\ committed = [e \in Events |-> NoDecision]
    /\ Life!Init /\ refused = {} /\ snapshot = 0
    /\ unmarked = {} /\ cycle = Idle /\ late = {} /\ recovering = {}
    /\ stop = FALSE /\ faults = [crashes |-> 0, errors |-> 0]
    /\ audits = 0
    /\ calls = [e \in Events |-> 0] /\ lost = [e \in Events |-> 0]
    /\ struck = {} /\ overdue = {}
-----------------------------------------------------------------------------
(***************************************************************************)
(* Effects shared by the steps of a cycle                                  *)
(***************************************************************************)
NextPlace == Cardinality({f \in Events : rows[f] # NoRow}) + 1

\* upsert_event_state inserts the row of e, after all there are (first_seen_at),
Insert(e, st) == rows' = [rows EXCEPT ![e].state = st, ![e].place = NextPlace]

\* or moves it to state st.
Upsert(e, st) == rows' = [rows EXCEPT ![e].state = st]

\* The same with increment_attempts.
UpsertAttempt(e, st) ==
    rows' = [rows EXCEPT ![e].state = st, ![e].attempts = rows[e].attempts + 1]

\* Mutant: the receipt's own status is not looked at.
UpsertReceipt_AsRecorded(e) ==
    rows' = [rows EXCEPT ![e].state = "shadow_recorded", ![e].linked = TRUE]

\* The same with the receipt of the order and its execution id.
UpsertReceipt(e) ==
    rows' = [rows EXCEPT
        ![e].state = IF e \in refused THEN "shadow_rejected" ELSE "shadow_recorded",
        ![e].linked = TRUE]

\* The same with the context shown to the model.
UpsertContext(e, st) ==
    rows' = [rows EXCEPT ![e].state = st, ![e].ordersBefore = Outstanding # {}]

EndCycle == cycle' = Idle
GoTo(pc) == cycle' = [cycle EXCEPT !.pc = pc]

\* A call whose answer, or whose commit, left no attempt on record.
Lose(e) == lost' = [lost EXCEPT ![e] = lost[e] + 1]
InCall == cycle.pc \in {"answer", "commit", "committed"}

\* An exception leaves the cycle and what called it: the scan or, after a
\* restart, all that remained of recover_incomplete.
Raise ==
    /\ EndCycle
    /\ recovering' = {}

\* A database stays locked for longer than it is waited for: that exception.
Errs ==
    /\ faults.errors < MaxErrors
    /\ faults' = [faults EXCEPT !.errors = faults.errors + 1]
    /\ recovering' = {}

\* The cycle has written the row's last state and ends, by an exception if the
\* audit record or the members of its bundle, which come after, cannot be written.
Concludes == EndCycle /\ (Errs \/ UNCHANGED <<recovering, faults>>)

\* SQLiteThesisMemory.commit accepts d for e: one decision for each event, made
\* on the current memory, still valid.
Commits(e, d) == ~Decided(e) /\ d.basis = version /\ clock < d.validUntil

CommitDecision(e, d) ==
    /\ version' = version + 1
    /\ committed' = [committed EXCEPT ![e] = d]

\* record may take an order decided on the portfolio that is still there.  Its
\* times are judged by a clock read before the ledger's lock was free, when
\* they were good; what is outstanding may have ended by then too.
MayAccept(d) == snapshot = d.snapshot

\* It may refuse an order that is out of date, stopped or second.
MayRefuse(d, until) ==
    clock >= until \/ clock >= d.validUntil \/ snapshot # d.snapshot \/ stop \/ Outstanding # {}

\* SQLiteShadowLedger.record for a decision without a receipt.
RecordOrder(e, d, until) ==
    /\ ~Recorded(e)
    /\ \/ MayAccept(d) /\ Life!Submit(e) /\ UNCHANGED refused
       \/ /\ MayRefuse(d, until)
          /\ orders' = Life!Dropping({e})
          /\ refused' = refused \cup {e}
          /\ UNCHANGED position
    /\ UNCHANGED snapshot
-----------------------------------------------------------------------------
(***************************************************************************)
(* The scan: step_events takes up the events it finds                      *)
(***************************************************************************)
Scanning == cycle = Idle /\ recovering = {} /\ ~stop

\* A revision that the filter refuses, that only shows what was there before
\* this run, or that is captured again after a restart that lost its row.
FilterOut(e) ==
    /\ Scanning /\ e \in Captured
    /\ rows[e].state = "absent"
    /\ Insert(e, "filtered_out")
    /\ UNCHANGED <<surroundings, memory, ledger, cycle, late, recovering, faults, audits,
                   calls, lost, struck>>

Begin(e) == cycle' = [Idle EXCEPT !.pc = "look", !.event = e]

Start(e) ==
    /\ Scanning /\ e \in Captured
    /\ IF rows[e].state = "absent" THEN received[e] >= runStart ELSE ~Done(rows[e])
    /\ Begin(e)
    /\ UNCHANGED <<surroundings, rows, memory, ledger, late, recovering, faults, audits,
                   calls, lost, struck>>
-----------------------------------------------------------------------------
(***************************************************************************)
(* A cycle before its decision: run_cycle                                  *)
(***************************************************************************)
\* Mutant: only the row tells whether there is a decision.
KnowsDecision_ByRow(e) == rows[e].state \in {"memory_committed", "risk_assessed"} /\ Decided(e)

\* decision_for_event, and what is kept of its answer.
KnowsDecision(e) == Decided(e)

\* Mutant: the wait for a quote is counted from the last look.
QuoteWaitOver_SinceLook(e) == MaxQuoteWait < 0

QuoteWaitOver(e) == Age(e) > MaxQuoteWait
WaitedTooLong(e) == rows[e].state = "awaiting_market_quote" /\ QuoteWaitOver(e)

\* A decision is committed already: never ask the model again.
LookFinds(e) ==
    /\ cycle.pc = "look" /\ KnowsDecision(e)
    /\ cycle' = [cycle EXCEPT !.pc = "recover", !.decision = committed[e]]
    /\ UNCHANGED <<rows, memory, ledger, late, recovering, faults, audits, calls, lost, struck>>

\* An event seen for the first time is put on record, then filtered.
LookReceives(e) ==
    /\ cycle.pc = "look" /\ ~KnowsDecision(e)
    /\ rows[e].state = "absent"
    /\ Insert(e, "received")
    /\ UNCHANGED <<memory, ledger, cycle, late, recovering, faults, audits, calls, lost, struck>>

LookRefuses(e) ==
    /\ cycle.pc = "look" /\ ~KnowsDecision(e)
    /\ rows[e].state = "received"
    /\ Upsert(e, "filtered_out") /\ Concludes
    /\ UNCHANGED <<memory, ledger, late, audits, calls, lost, struck>>

\* The event waited for a quote too long.
LookExpires(e) ==
    /\ cycle.pc = "look" /\ ~KnowsDecision(e)
    /\ WaitedTooLong(e)
    /\ Upsert(e, "expired") /\ Concludes
    /\ UNCHANGED <<memory, ledger, late, audits, calls, lost, struck>>

LookAccepts(e) ==
    /\ cycle.pc = "look" /\ ~KnowsDecision(e)
    /\ rows[e].state # "absent" /\ ~WaitedTooLong(e)
    /\ IF rows[e].state = "received" THEN Upsert(e, "filtered_accepted") ELSE UNCHANGED rows
    /\ GoTo("context")
    /\ UNCHANGED <<memory, ledger, late, recovering, faults, audits, calls, lost, struck>>

BudgetSpent == audits >= DailyCalls

\* The context is assembled, but the day's budget of model calls is spent.
ContextOverBudget(e) ==
    /\ cycle.pc = "context" /\ BudgetSpent
    /\ UpsertContext(e, "expired") /\ Concludes
    /\ UNCHANGED <<memory, ledger, late, audits, calls, lost, struck>>

\* No usable quote: the event waits, or has waited long enough.
ContextLacksQuote(e) ==
    /\ cycle.pc = "context" /\ ~BudgetSpent
    /\ UpsertContext(e, IF QuoteWaitOver(e) THEN "expired" ELSE "awaiting_market_quote")
    /\ Concludes
    /\ UNCHANGED <<memory, ledger, late, audits, calls, lost, struck>>

\* The state of a row whose context is assembled.
Assembled(e) ==
    IF rows[e].state = "awaiting_market_quote"
    THEN "awaiting_market_quote" ELSE "filtered_accepted"

\* The model is asked, on the memory and the portfolio of this moment.
ContextAsks(e) ==
    /\ cycle.pc = "context" /\ ~BudgetSpent
    /\ UpsertContext(e, Assembled(e))
    /\ cycle' = [cycle EXCEPT !.pc = "answer",
                              !.decision = [NoDecision EXCEPT !.basis = version,
                                                              !.snapshot = snapshot]]
    /\ calls' = [calls EXCEPT ![e] = calls[e] + 1]
    /\ UNCHANGED <<memory, ledger, late, recovering, faults, audits, lost, struck>>

\* The failed attempt, by now in the row, is audited, or that raises.
AuditFailure ==
    \/ audits' = audits + 1 /\ UNCHANGED <<recovering, faults>>
    \/ Errs /\ UNCHANGED audits

\* The call, or the validation of its answer, fails.
AnswerFails(e) ==
    /\ cycle.pc = "answer"
    /\ UpsertAttempt(e, "reasoning_failed") /\ EndCycle
    /\ AuditFailure
    /\ UNCHANGED <<memory, ledger, late, calls, lost, struck>>

\* The answer's target does not fit the portfolio it was made for.
AnswerMisfits(e) ==
    /\ cycle.pc = "answer"
    /\ UpsertAttempt(e, "target_rejected") /\ Concludes
    /\ audits' = audits + 1
    /\ UNCHANGED <<memory, ledger, late, calls, lost, struck>>

\* The answer is a decision on its way to memory; none with a target was made
\* while an order was pending, for such a target does not fit.
AnswerDecides(e) ==
    /\ cycle.pc = "answer"
    /\ \E target \in IF rows[e].ordersBefore THEN {FALSE} ELSE BOOLEAN :
         cycle' = [cycle EXCEPT !.pc = "commit",
                                !.decision.target = target,
                                !.decision.validUntil = clock + DecisionTTL]
    /\ audits' = audits + 1
    /\ UNCHANGED <<rows, memory, ledger, late, recovering, faults, calls, lost, struck>>

CommitLands(e) ==
    /\ cycle.pc = "commit" /\ Commits(e, cycle.decision)
    /\ CommitDecision(e, cycle.decision)
    /\ GoTo("committed")
    /\ UNCHANGED <<rows, ledger, late, recovering, faults, audits, calls, lost, struck>>

\* The memory has changed, the event has been decided or the decision has run
\* out: commit raises, and neither the row nor its attempts show it.
CommitConflicts(e) ==
    /\ cycle.pc = "commit" /\ ~Commits(e, cycle.decision)
    /\ Raise /\ Lose(e)
    /\ UNCHANGED <<rows, memory, ledger, late, faults, audits, calls, struck>>

\* The row learns of the commit.
AfterCommit(e) ==
    /\ cycle.pc = "committed"
    /\ UpsertAttempt(e, "memory_committed") /\ GoTo("refresh")
    /\ UNCHANGED <<memory, ledger, late, recovering, faults, audits, calls, lost, struck>>
-----------------------------------------------------------------------------
(***************************************************************************)
(* A cycle after its decision, at once or in recovery                      *)
(***************************************************************************)
\* _recover_committed_decision: the receipt is there, or the decision is taken
\* up where the cycle left it.
RecoverReceipt(e) ==
    /\ cycle.pc = "recover" /\ Recorded(e)
    /\ UpsertReceipt(e) /\ Concludes
    /\ UNCHANGED <<memory, ledger, late, audits, calls, lost, struck>>

RecoverDecision(e) ==
    /\ cycle.pc = "recover" /\ ~Recorded(e)
    /\ GoTo("refresh")
    /\ UNCHANGED <<rows, memory, ledger, late, recovering, faults, audits, calls, lost, struck>>

\* A decision without a target leaves nothing to trade.
LacksTarget(e) ==
    /\ cycle.pc = "refresh" /\ ~cycle.decision.target
    /\ Upsert(e, "no_target") /\ Concludes
    /\ UNCHANGED <<memory, ledger, late, audits, calls, lost, struck>>

\* With one, the portfolio is read anew.
Refresh(e) ==
    /\ cycle.pc = "refresh" /\ cycle.decision.target
    /\ cycle' = [cycle EXCEPT !.pc = "post", !.seen = snapshot, !.busy = Outstanding # {}]
    /\ UNCHANGED <<rows, memory, ledger, late, recovering, faults, audits, calls, lost, struck>>

PortfolioChanged(e) ==
    cycle.seen # cycle.decision.snapshot \/ cycle.busy \/ rows[e].ordersBefore

\* A stop blocks a target that increases risk.
PostStopped(e) ==
    /\ cycle.pc = "post" /\ stop
    /\ Upsert(e, "risk_rejected") /\ Concludes
    /\ UNCHANGED <<memory, ledger, late, audits, calls, lost, struck>>

\* A decision that has run out, a portfolio that has changed, or a thesis that
\* has: the target is rejected.
PostRejects(e) ==
    /\ cycle.pc = "post"
    /\ Upsert(e, "target_rejected") /\ Concludes
    /\ UNCHANGED <<memory, ledger, late, audits, calls, lost, struck>>

\* Otherwise the hard risk engine refuses it,
AssessRefuses(e) ==
    /\ cycle.pc = "post" /\ ~PortfolioChanged(e)
    /\ Upsert(e, "risk_rejected") /\ Concludes
    /\ UNCHANGED <<memory, ledger, late, audits, calls, lost, struck>>

\* or approves it, and the order goes to the ledger.
AssessApproves(e) ==
    /\ cycle.pc = "post" /\ ~PortfolioChanged(e) /\ clock < cycle.decision.validUntil
    /\ Upsert(e, "risk_assessed")
    /\ cycle' = [cycle EXCEPT !.pc = "record", !.until = clock + ApprovalTTL]
    /\ UNCHANGED <<memory, ledger, late, recovering, faults, audits, calls, lost, struck>>

RecordLands(e) ==
    /\ cycle.pc = "record"
    /\ RecordOrder(e, cycle.decision, cycle.until)
    /\ GoTo("recorded")
    /\ UNCHANGED <<rows, memory, late, recovering, faults, audits, calls, lost, struck>>

\* The decision has a receipt, under another assessment: record raises.
RecordConflicts(e) ==
    /\ cycle.pc = "record" /\ Recorded(e)
    /\ Raise
    /\ UNCHANGED <<rows, memory, ledger, late, faults, audits, calls, lost, struck>>

AfterRecord(e) ==
    /\ cycle.pc = "recorded"
    /\ UpsertReceipt(e) /\ Concludes
    /\ UNCHANGED <<memory, ledger, late, audits, calls, lost, struck>>
-----------------------------------------------------------------------------
(***************************************************************************)
(* A cycle cut short: by an error, a time-out, a stop, or the process's end *)
(***************************************************************************)
\* Whatever the cycle reads or writes next raises: its row and attempts stay as
\* they were, after the model's reply too, or the row shows the context alone.
CycleErrs(e) ==
    /\ Errs /\ EndCycle
    /\ IF InCall THEN Lose(e) ELSE UNCHANGED lost
    /\ UNCHANGED rows \/ (cycle.pc = "context" /\ UpsertContext(e, Assembled(e)))
    /\ UNCHANGED <<memory, ledger, late, audits, calls, struck>>

\* The write the cycle awaits, which its thread will finish without it.
InFlight(e) ==
    IF cycle.pc \in {"commit", "record"}
    THEN {[kind |-> cycle.pc, event |-> e, decision |-> cycle.decision, until |-> cycle.until]}
    ELSE {}

Abandon(e) ==
    /\ EndCycle
    /\ late' = late \cup InFlight(e)
    /\ struck' = IF InFlight(e) = {} THEN struck ELSE struck \cup {e}

\* wait_for gives up on the cycle (recover_incomplete does the same): whatever
\* the cycle had come to, the row says that reasoning failed.
Timeout(e) ==
    /\ Abandon(e)
    /\ IF rows[e].state = "absent"
       THEN rows' = [rows EXCEPT ![e] = [NoRow EXCEPT !.state = "reasoning_failed",
                                                        !.attempts = 1, !.place = NextPlace]]
       ELSE UpsertAttempt(e, "reasoning_failed")
    /\ AuditFailure
    /\ UNCHANGED <<memory, ledger, calls, lost>>

\* The event worker is cancelled or recovery breaks off at a stop, or the time-out
\* itself cannot be written: the row keeps the state it had.
GiveUp(e) ==
    /\ Abandon(e)
    /\ Errs \/ (stop /\ recovering' = {} /\ UNCHANGED faults)
    /\ IF InCall THEN Lose(e) ELSE UNCHANGED lost
    /\ UNCHANGED <<rows, memory, ledger, audits, calls>>

\* A write that outlived its cycle lands, or raises with nobody to hear it.
LateCommit ==
    \E w \in late :
        /\ w.kind = "commit"
        /\ late' = late \ {w}
        /\ IF Commits(w.event, w.decision)
           THEN CommitDecision(w.event, w.decision) ELSE UNCHANGED memory
        /\ UNCHANGED <<surroundings, rows, ledger, cycle, recovering, faults, audits,
                       calls, lost, struck>>

LateRecord ==
    \E w \in late :
        /\ w.kind = "record"
        /\ late' = late \ {w}
        /\ IF Recorded(w.event)
           THEN UNCHANGED ledger ELSE RecordOrder(w.event, w.decision, w.until)
        /\ UNCHANGED <<surroundings, rows, memory, cycle, recovering, faults, audits,
                       calls, lost, struck>>

TooOld(e) ==
    \/ WaitedTooLong(e)
    \/ Age(e) > MaxRecoveryAge

\* The process ends, cleanly or not, and starts again: run() clears the stop
\* and recover_incomplete lists the incomplete events.
Restart ==
    /\ faults.crashes < MaxCrashes
    /\ faults' = [faults EXCEPT !.crashes = faults.crashes + 1]
    /\ runStart' = clock
    /\ stop' = FALSE /\ cycle' = Idle /\ late' = {} /\ unmarked' = {}
    /\ recovering' = {e \in Events : rows[e].state \in Incomplete}
    /\ IF InCall THEN Lose(cycle.event) ELSE UNCHANGED lost
    /\ overdue' = {e \in recovering' : ~Decided(e) /\ TooOld(e)}
    /\ UNCHANGED <<clock, received, rows, memory, ledger, audits, calls, struck>>

\* Recovery looks at the events in the order they were first seen.
Recovering(e) ==
    /\ cycle = Idle /\ ~stop
    /\ e \in recovering /\ \A f \in recovering : rows[e].place <= rows[f].place

\* The state recovery gives an undecided event it will not take up again.
RecoveryVerdict(e) ==
    IF Decided(e) THEN {}
    ELSE IF rows[e].attempts >= MaxAttempts THEN {"recovery_abandoned"}
    ELSE IF ~TooOld(e) THEN {}
    ELSE {IF rows[e].state = "awaiting_market_quote" THEN "expired" ELSE "recovery_expired"}

\* It has the verdict in its row; what is written after the row may raise.
RecoverEnds(e) ==
    /\ Recovering(e)
    /\ \E st \in RecoveryVerdict(e) : Upsert(e, st)
    /\ Errs \/ (recovering' = recovering \ {e} /\ UNCHANGED faults)
    /\ UNCHANGED <<surroundings, memory, ledger, cycle, late, audits, calls, lost, struck>>

RecoverStarts(e) ==
    /\ Recovering(e) /\ RecoveryVerdict(e) = {}
    /\ Begin(e)
    /\ recovering' = recovering \ {e}
    /\ UNCHANGED <<surroundings, rows, memory, ledger, late, faults, audits,
                   calls, lost, struck>>

\* Recovery cannot read an event, or write its verdict.
RecoveryErrs ==
    /\ cycle = Idle /\ recovering # {}
    /\ Errs
    /\ UNCHANGED <<surroundings, rows, memory, ledger, cycle, late, audits,
                   calls, lost, struck>>
-----------------------------------------------------------------------------
(***************************************************************************)
(* Around the event worker: sources, time, the ledger's own workers, stop  *)
(***************************************************************************)
Capture(e) ==
    /\ received[e] = Never
    /\ received' = [received EXCEPT ![e] = clock]
    /\ UNCHANGED <<clock, runStart, rows, memory, ledger, unmarked, cycle, late, recovering,
                   stop, faults, audits, history>>

Tick ==
    /\ clock < MaxClock
    /\ clock' = clock + 1
    /\ UNCHANGED <<received, runStart, rows, memory, ledger, unmarked, cycle, late,
                   recovering, stop, faults, audits, history>>

worker == <<clock, received, runStart, memory, refused, cycle, late, recovering,
            faults, audits, history>>

\* step_quotes_and_fills: the order fills, and is later marked so in the row
\* that knows its execution id.
FillOrder(e) ==
    /\ position' \in 0..1
    /\ Life!FillOrder(e)
    /\ snapshot' = snapshot + 1
    /\ unmarked' = unmarked \cup {e}
    /\ UNCHANGED <<worker, rows, stop>>

MarkFill(e) ==
    /\ e \in unmarked
    /\ unmarked' = unmarked \ {e}
    /\ IF rows[e].linked THEN Upsert(e, "completed") ELSE UNCHANGED rows
    /\ UNCHANGED <<worker, orders, position, snapshot, stop>>

\* The order expires or is rejected as it would fill, and no row is told.
EndOrder ==
    /\ Outstanding # {}
    /\ orders' = Life!Dropping(Outstanding)
    /\ UNCHANGED <<worker, rows, position, snapshot, unmarked, stop>>

ProtectiveExit ==
    /\ Life!Close
    /\ snapshot' = snapshot + 1
    /\ UNCHANGED <<worker, rows, unmarked, stop>>

\* ShadowRunner.stop, and again as run() shuts down: an order that increases
\* risk is cancelled, and marked so in the row that knows its execution id.
RequestStop ==
    /\ stop' = TRUE
    /\ \E D \in SUBSET Outstanding :
         /\ orders' = Life!Dropping(D)
         /\ rows' = [e \in Events |->
              IF e \in D /\ rows[e].linked /\ rows[e].state = "shadow_recorded"
              THEN [rows[e] EXCEPT !.state = "shadow_rejected"] ELSE rows[e]]
         /\ D = {} => ~stop
    /\ UNCHANGED <<worker, position, snapshot, unmarked>>
-----------------------------------------------------------------------------
CycleStep(e) ==
    /\ cycle.event = e
    /\ \/ LookFinds(e) \/ LookReceives(e) \/ LookRefuses(e) \/ LookExpires(e) \/ LookAccepts(e)
       \/ ContextOverBudget(e) \/ ContextLacksQuote(e) \/ ContextAsks(e)
       \/ AnswerFails(e) \/ AnswerMisfits(e) \/ AnswerDecides(e)
       \/ CommitLands(e) \/ CommitConflicts(e) \/ AfterCommit(e)
       \/ RecoverReceipt(e) \/ RecoverDecision(e) \/ LacksTarget(e) \/ Refresh(e)
       \/ PostStopped(e) \/ PostRejects(e) \/ AssessRefuses(e) \/ AssessApproves(e)
       \/ RecordLands(e) \/ RecordConflicts(e) \/ AfterRecord(e)
       \/ CycleErrs(e) \/ Timeout(e) \/ GiveUp(e)
    /\ UNCHANGED surroundings

Take(e) == Start(e) \/ FilterOut(e)
RecoverNext(e) == RecoverEnds(e) \/ RecoverStarts(e)

Next ==
    \/ \E e \in Events :
         \/ Take(e) \/ CycleStep(e) \/ RecoverNext(e)
         \/ Capture(e) \/ FillOrder(e) \/ MarkFill(e)
    \/ RecoveryErrs \/ LateCommit \/ LateRecord
    \/ Tick \/ EndOrder \/ ProtectiveExit \/ RequestStop \/ Restart

Spec == Init /\ [][Next]_vars

\* A cycle ends, if only by its time-out; the worker takes up in turn whatever a
\* scan or a restart finds; the clock goes on.  A stop, a restart, a quote and
\* an answer are never owed.
Fairness ==
    /\ WF_vars(Tick)
    /\ \A e \in Events :
         /\ WF_vars(CycleStep(e))
         /\ WF_vars(RecoverNext(e))
         /\ SF_vars(Take(e))

FairSpec == Spec /\ Fairness
-----------------------------------------------------------------------------
(***************************************************************************)
(* What it must do                                                         *)
(***************************************************************************)
DecisionType == [target : BOOLEAN, basis : Int, snapshot : Int, validUntil : Int]

Pcs == {"idle", "look", "context", "answer", "commit", "committed", "recover", "refresh",
        "post", "record", "recorded"}

\* Every variable has its type; only one thing at a time is under way, and
\* nothing after its own end.
TypeOK ==
    /\ clock \in 0..MaxClock /\ runStart \in 0..MaxClock
    /\ received \in [Events -> {Never} \cup 0..MaxClock]
    /\ rows \in [Events -> [state : Terminal \cup Incomplete \cup {"absent"}, attempts : Nat,
                            linked : BOOLEAN, ordersBefore : BOOLEAN,
                            place : 0..Cardinality(Events)]]
    /\ version \in Nat /\ committed \in [Events -> DecisionType]
    /\ orders \in [Events -> Life!States] /\ refused \in SUBSET Events
    /\ position \in 0..1 /\ snapshot \in Nat
    /\ unmarked \in SUBSET Events
    /\ cycle \in [pc : Pcs, event : Events \cup {Never}, decision : DecisionType, seen : Int,
                  busy : BOOLEAN, until : Int]
    /\ late \in SUBSET [kind : {"commit", "record"}, event : Events, decision : DecisionType,
                        until : Int]
    /\ recovering \in SUBSET Events /\ stop \in BOOLEAN
    /\ faults \in [crashes : 0..MaxCrashes, errors : 0..MaxErrors]
    /\ audits \in Nat
    /\ calls \in [Events -> Nat] /\ lost \in [Events -> Nat]
    /\ struck \in SUBSET Events /\ overdue \in SUBSET Events

\* What an event's row says of its order agrees with the ledger, whatever was
\* interrupted, restarted or written late: a completed event's order filled, a
\* recorded one's was accepted, a rejected one's did not fill, and an event
\* refused or not heard has no order, nor a decision if it was not heard --
\* unless a write of it outlived its cycle.
RowTellsOrder ==
    \A e \in Events :
        LET st == rows[e].state IN
        /\ st = "completed" => orders[e] = "filled"
        /\ st = "shadow_recorded" => Recorded(e) /\ e \notin refused
        /\ st = "shadow_rejected" => orders[e] = "dropped"
        /\ e \notin struck =>
             /\ st \in Refusals \cup Unheard => ~Recorded(e)
             /\ st \in Unheard \cup {"received"} => ~Decided(e)

\* Rows and cycles keep their shape and agree with memory and ledger.
RowsAreSound == TypeOK /\ RowTellsOrder

\* An event's end is final: the only thing that still happens to its row is
\* that a recorded order turns out filled or cancelled.
TerminalIsFinal ==
    [][\A e \in Events : rows[e].state \in Terminal =>
         \/ rows'[e].state = rows[e].state
         \/ /\ rows[e].state = "shadow_recorded"
            /\ rows'[e].state \in {"completed", "shadow_rejected"}]_vars

\* A decision is final: it is never replaced, and the model is not paid for the
\* event again, across crashes too, unless the commit landed behind the back
\* of a cycle that had been given up.
DecisionIsFinal ==
    [][\A e \in Events : Decided(e) =>
         /\ committed'[e] = committed[e]
         /\ e \notin struck => calls'[e] = calls[e]]_vars

\* What is over stays over: the end of an event and the decision made on it.
HistoryIsFinal == TerminalIsFinal /\ DecisionIsFinal

\* The model is asked about an event no more often than attempts allow, but for
\* the calls that a crash, a stop, a failed commit or an exception after the reply
\* kept off the record.
RetriesAreBounded == \A e \in Events : calls[e] <= MaxAttempts + lost[e]

\* The calls of a day stay within the budget, but for one in flight at each
\* restart and one not audited at each exception.
BudgetHolds == FoldFunction(+, 0, calls) <= DailyCalls + faults.crashes + faults.errors

\* Model calls are bounded, by the day's budget and by each event's attempts.
CallsAreBounded == BudgetHolds /\ RetriesAreBounded

\* Every event comes to an end, at most with its attempts used up, unless the
\* worker is stopped.  (The bound leaves time for a wait for quotes to end.)
EventsConclude ==
    \A e \in Events :
        (received[e] # Never /\ received[e] + MaxQuoteWait < MaxClock)
            ~> (\/ rows[e].state \in Terminal \/ stop
                \/ rows[e].state = "reasoning_failed" /\ rows[e].attempts >= MaxAttempts)

\* docs/shadow-acceptance.md: recover_incomplete() enforces staleness on
\* pre-commit events.  An event too old when the process restarts is not put to
\* the model any more.
StaleEventsAreNotRevived ==
    [][\A e \in overdue : calls'[e] = calls[e]]_vars
=============================================================================
