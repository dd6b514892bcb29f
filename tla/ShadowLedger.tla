---------------------------- MODULE ShadowLedger ----------------------------
(***************************************************************************)
(* The Shadow ledger (trading/execution.py, SQLiteShadowLedger): one       *)
(* account holding one EUR/USD position, the orders recorded against it,   *)
(* the daily loss state, and the protective exits that close it.           *)
(*                                                                         *)
(* Every ledger operation is one SQLite transaction taken under a lock and *)
(* is one action here.  Its inputs are not: a worker reads the latest      *)
(* quote and the clock BEFORE it asks for the lock, so an operation may    *)
(* run with a quote and a time that other workers have overtaken.  call[w] *)
(* is the quote worker w has read, and every operation of w runs at some   *)
(* time t between that reading and the present.                            *)
(*                                                                         *)
(* Time is in ticks, DayLength to the trading day, of which the last       *)
(* CloseLength are the daily close window.  Prices are in pips, money in   *)
(* pips times lots; a weight is a count of Policy.scale-ths.               *)
(***************************************************************************)
EXTENDS Sizing, Sequences, FiniteSets, Functions

CONSTANTS
    Orders,          \* the decisions that may become orders
    Workers,         \* the workers that evaluate protective exits,
    FillWorkers,     \* and those of them that go on to fill orders
    Weights,         \* target weights the model may propose
    Bids,            \* bid prices the market may show
    Spread,          \* ask - bid
    Slippage,        \* adverse price slippage of every fill
    Cent,            \* the money unit amounts are rounded to, in pips times lots
    FeeRate, FeeScale, \* commission: FeeRate / FeeScale of the notional,
    FixedFee,        \* and so much for a fill
    InitialCash,
    Policy,          \* RiskPolicy: the sizing fields, and the limits below
    Exit,            \* ProtectiveExitPolicy
    MaxQuoteAge,     \* a quote older than this is stale
    DecisionTTL,     \* a decision is valid for this long
    AssessmentTTL,   \* and the approval of its risk for this long
    MaxLag,          \* bound: how old the time an operation runs with may be
    DayLength, CloseLength,
    StopReasons,     \* the stops that may happen: "pause", "halt"
    KillSwitchAtStart,
    KillSwitchAtRestart, \* what the operator may configure when restarting
    MaxClock         \* bound: the last tick of a behaviour

LimitFields == {"maxGross", "minEquity", "maxDailyLoss"}
ExitFields == {"maxHolding", "maxPositionLoss", "takeProfitUsd", "stopLossPips",
               "takeProfitPips", "trailingActivation", "trailingDistance", "maxDailyLoss"}

ASSUME LedgerAssumption ==
    /\ Policy.sizing \in SizingPolicy
    /\ \A f \in LimitFields : Policy[f] \in Nat
    /\ \A f \in ExitFields : Exit[f] \in Nat
    /\ FillWorkers \subseteq Workers
    /\ Weights \subseteq Int
    /\ StopReasons \subseteq {"pause", "halt"}
    /\ KillSwitchAtStart \in BOOLEAN /\ KillSwitchAtRestart \subseteq BOOLEAN
    /\ Spread \in Nat /\ Slippage \in Nat
    /\ Cent \in Nat \ {0}
    /\ FeeRate \in Nat /\ FeeScale \in Nat \ {0} /\ FixedFee \in Nat
    /\ Bids \subseteq {b \in Nat : b > Slippage}
    /\ InitialCash \in Nat \ {0}
    /\ MaxLag \in Nat /\ MaxQuoteAge \in Nat /\ DecisionTTL \in Nat /\ AssessmentTTL \in Nat
    /\ DayLength \in Nat \ {0} /\ CloseLength \in 0..DayLength
    /\ MaxClock \in Nat
    /\ "exit" \notin Orders    \* in shadow_fills an exit names no decision

VARIABLES
    clock,       \* the present
    quote,       \* the latest published quote
    acct,        \* shadow_account
    daily,       \* shadow_daily_state, a row for each trading day
    orders,      \* decisions, approvals and shadow_receipts
    fills,       \* shadow_fills
    stop,        \* the active stop reason: none, pause (lifted later) or halt
    killSwitch,  \* RiskPolicy.kill_switch_active, as configured at start
    call         \* what each worker has read before its operations

vars == <<clock, quote, acct, daily, orders, fills, stop, killSwitch, call>>
-----------------------------------------------------------------------------
(***************************************************************************)
(* Time, quotes, valuation                                                 *)
(***************************************************************************)
DayOf(t) == t \div DayLength
CloseAt(t) == (DayOf(t) + 1) * DayLength - CloseLength
RolloverAt(t) == (DayOf(t) + 1) * DayLength
InCloseWindow(t) == CloseAt(t) <= t
Days == 0..DayOf(MaxClock)

Ask(q) == q.bid + Spread
Mid2(q) == q.bid + Ask(q)
Mark(qty, q) == IF qty > 0 THEN q.bid ELSE Ask(q)

\* A quote is usable at t: complete, acceptable spread, neither future nor stale.
QuoteValid(q, t) == q.good /\ q.at <= t /\ t - q.at <= MaxQuoteAge

\* Decimal.quantize of an amount to 0.01 USD, ROUND_HALF_UP: half away from zero.
ToCents(x) == Cent * (IF x >= 0 THEN RoundHalfUp(x, Cent) ELSE -RoundHalfUp(-x, Cent))

\* The profit of holding qty, entered at entry, at the quote's mark.
Profit(qty, entry, q) == IF qty = 0 THEN 0 ELSE ToCents(qty * (Mark(qty, q) - entry))
Unrealized(a, q) == Profit(a.qty, a.entry, q)
Equity(a, q) == a.cash + Unrealized(a, q)

Open(a) == a.qty # 0

\* The times an operation that is reached at tick since may run with: it reads
\* the clock, then waits for the ledger's lock, for at most MaxLag.
ReadTimes(since) == Greatest(since, clock - MaxLag) .. clock

Pending == {o \in Orders : orders[o].status = "pending"}
-----------------------------------------------------------------------------
(***************************************************************************)
(* Daily loss state                                                        *)
(***************************************************************************)
PriorDays(d, day) == {e \in Days : e < day /\ d[e].state # "absent"}
LastDay(S) == CHOOSE e \in S : \A f \in S : f <= e

\* Mutant: only the last valid equity is carried over to the new day.
CarriedReference_ForgetsBaseline(a, d, day) == a.lastEquity

\* The equity a new baseline may not fall below while a position is carried.
CarriedReference(a, d, day) ==
    IF PriorDays(d, day) = {} THEN a.lastEquity
    ELSE Greatest(a.lastEquity, d[LastDay(PriorDays(d, day))].baseline)

\* One limit for both policies: min(exit_policy, risk_policy).
DailyLimit == Least(Exit.maxDailyLoss, Policy.maxDailyLoss)

\* The row of day after an evaluation at equity e, valued by a valid quote or not.
EnsureDailyRow(a, d, day, e, valid) ==
    LET row == d[day]
        carried == CarriedReference(a, d, day)
        provisional == IF Open(a) THEN carried ELSE e
        opening == IF Open(a) THEN Greatest(carried, e) ELSE e
        recovered == Greatest(row.baseline, Greatest(carried, e))
        base == CASE row.state = "absent" -> opening
                  [] row.state = "unconfirmed" -> recovered
                  [] OTHER -> row.baseline
    IN  CASE valid ->
               [state |-> "confirmed", baseline |-> base,
                hit |-> row.hit \/ e - base <= -DailyLimit]
          [] ~valid /\ row.state = "absent" ->
               [state |-> "unconfirmed", baseline |-> provisional, hit |-> FALSE]
          [] OTHER -> row

\* _ensure_daily_state_locked: the daily rows and the account it leaves.
EnsureDaily(a, d, t, e, valid) ==
    [d EXCEPT ![DayOf(t)] = EnsureDailyRow(a, d, DayOf(t), e, valid)]
Valued(a, e, valid) == IF valid THEN [a EXCEPT !.lastEquity = e] ELSE a
-----------------------------------------------------------------------------
(***************************************************************************)
(* Effects shared by the ledger's operations                               *)
(***************************************************************************)
\* Whether weight w means more risk to the account, judged without a quote:
\* by the last valid equity, at the entry price.
OrderIncreasesRisk(a, w) ==
    IncreasesRisk(Policy.sizing, a.qty, a.lastEquity,
                  IF a.entry > 0 THEN 2 * a.entry ELSE 2, w)

\* The same at fill or assessment, by the equity and mid price of quote q.
TargetIncreasesRisk(a, w, q) ==
    IncreasesRisk(Policy.sizing, a.qty, Equity(a, q), Mid2(q), w)
DesiredQuantity(a, w, q) ==
    quantize_target_quantity_eur(Policy.sizing, Equity(a, q), Mid2(q), w)

\* Mutant: the target is traded on top of what is held.
Delta_IgnoresHeld(a, w, q) == DesiredQuantity(a, w, q)

\* The trade that takes the position to the quantity its target asks for.
Delta(a, w, q) == DesiredQuantity(a, w, q) - a.qty

\* Mutant: only the decision's own validity is looked at.
Expired_IgnoresApproval(o, t) == t >= orders[o].validUntil

\* An order outlives neither its decision nor the approval of its risk.
Expired(o, t) == t >= orders[o].validUntil \/ t >= orders[o].approvedUntil

\* The order statuses after the prologue of an operation at time t: expired
\* orders are retired and, while a stop is active, risk-increasing ones too.
Retired(o, t, stopping) ==
    CASE o \notin Pending -> orders[o].status
      [] o \in Pending /\ Expired(o, t) -> "expired"
      [] o \in Pending /\ ~Expired(o, t) /\ stopping
           /\ OrderIncreasesRisk(acct, orders[o].weight) -> "cancelled"
      [] OTHER -> "pending"

Stopping == stop # "none"

NoOrder == [status |-> "idle", weight |-> 0, basedOn |-> 0, completedAt |-> 0,
            validUntil |-> 0, assessedAt |-> 0, approvedUntil |-> 0, recordedAt |-> 0]
Live == {"decided", "approved", "pending"}

\* An order that has ended keeps its receipt; no later step reads the rest.
Ended(status) == [NoOrder EXCEPT !.status = status]

WithStatus(f) == [o \in Orders |-> IF f[o] \in Live
                                   THEN [orders[o] EXCEPT !.status = f[o]]
                                   ELSE Ended(f[o])]
AfterPrologue(t) == [o \in Orders |-> Retired(o, t, Stopping)]

\* Price and entry of a fill of delta at quote q.
FillPrice(delta, q) == IF delta > 0 THEN Ask(q) + Slippage ELSE q.bid - Slippage

\* The larger of commission_bps and the broker's rate on the notional, and the
\* fixed fee, together rounded to cents.
Fee(delta, price) ==
    Cent * RoundHalfUp(FeeRate * (Abs(delta) * price) + FeeScale * FixedFee, FeeScale * Cent)

SameSide(x, y) == (x > 0 /\ y > 0) \/ (x < 0 /\ y < 0)

\* Mutant: adding to a position moves its entry to the latest price.
AverageEntry_TakesLatest(a, delta, price) == price

\* The average entry price after adding delta at price to the position of a.
AverageEntry(a, delta, price) ==
    RoundHalfUp(Abs(a.qty) * a.entry + Abs(delta) * price, Abs(a.qty) + Abs(delta))

\* The profit, in cents, on what delta closes of the position of a.
RealizedBy(a, delta, price) ==
    LET closed == Least(Abs(a.qty), Abs(delta))
    IN  IF a.qty = 0 \/ SameSide(a.qty, delta) THEN 0
        ELSE ToCents((IF a.qty > 0 THEN closed ELSE -closed) * (price - a.entry))

\* The entry price after a fill: averaged when it adds to the position, kept
\* when it reduces it, set by the fill when it opens or reverses one.
EntryAfter(a, delta, price) ==
    LET qty == a.qty + delta
    IN  CASE qty = 0 -> 0
          [] SameSide(a.qty, qty) /\ SameSide(a.qty, delta) -> AverageEntry(a, delta, price)
          [] SameSide(a.qty, qty) /\ ~SameSide(a.qty, delta) -> a.entry
          [] OTHER -> price

\* The mark most favourable to a position of qty.
Better(qty, x, y) == IF qty > 0 THEN Greatest(x, y) ELSE Least(x, y)

\* _apply_delta_locked: the account after a fill of delta at quote q, time t.
ApplyDelta(a, delta, q, t) ==
    LET price == FillPrice(delta, q)
        qty == a.qty + delta
        kept == SameSide(a.qty, qty)
        realized == RealizedBy(a, delta, price)
        entry == EntryAfter(a, delta, price)
        mark == Mark(qty, q)
        fee == Fee(delta, price)
        cash == a.cash + realized - fee
    IN  [qty |-> qty,
         cash |-> cash,
         realized |-> a.realized + realized,
         fees |-> a.fees + fee,
         entry |-> entry,
         openedAt |-> CASE qty = 0 -> 0 [] kept -> a.openedAt [] OTHER -> t,
         peak |-> CASE qty = 0 -> 0
                    [] kept -> Better(qty, a.peak, Better(qty, entry, mark))
                    [] OTHER -> Better(qty, entry, mark),
         exitReason |-> IF qty = 0 THEN "none" ELSE a.exitReason,
         exitSince |-> IF qty = 0 THEN 0 ELSE a.exitSince,
         lastEquity |-> cash + Profit(qty, entry, q),
         snapshot |-> a.snapshot + 1]

\* Record the fill: account, daily row and shadow_fills together.  A fill whose
\* equity would not be positive fails validation, and the operation with it.
Fill(a, d, delta, q, t, who) ==
    LET b == ApplyDelta(a, delta, q, t)
    IN  /\ b.lastEquity > 0
        /\ acct' = b
        /\ daily' = EnsureDaily(b, d, t, b.lastEquity, TRUE)
        /\ fills' = Append(fills, [order |-> who, delta |-> delta,
                                   price |-> FillPrice(delta, q)])
-----------------------------------------------------------------------------
(***************************************************************************)
(* The environment: time, the market, the operator                         *)
(***************************************************************************)
NoQuote == [at |-> 0, bid |-> 0, good |-> FALSE]
Idle == [phase |-> "idle", quote |-> NoQuote, since |-> 0]
Absent == [state |-> "absent", baseline |-> 0, hit |-> FALSE]

InitialAccount ==
    [qty |-> 0, cash |-> InitialCash, realized |-> 0, fees |-> 0, entry |-> 0,
     openedAt |-> 0, peak |-> 0, exitReason |-> "none", exitSince |-> 0,
     lastEquity |-> InitialCash, snapshot |-> 0]

Init ==
    /\ clock = 0
    /\ quote = NoQuote
    /\ acct = InitialAccount
    /\ daily = EnsureDaily(InitialAccount, [d \in Days |-> Absent], 0, InitialCash, TRUE)
    /\ orders = [o \in Orders |-> NoOrder]
    /\ fills = <<>>
    /\ stop = "none"
    /\ killSwitch = KillSwitchAtStart
    /\ call = [w \in Workers |-> Idle]

Tick ==
    /\ clock < MaxClock
    /\ clock' = clock + 1
    /\ UNCHANGED <<quote, acct, daily, orders, fills, stop, killSwitch, call>>

\* The market shows a new quote, or none that the quality policy accepts.
Publish(q) ==
    /\ quote' = q
    /\ UNCHANGED <<clock, acct, daily, orders, fills, stop, killSwitch, call>>

\* ShadowRunner.stop, or a window (weekend, remaining run or bridge time) in
\* which new risk is refused and after which it is allowed again.
Halt ==
    /\ "halt" \in StopReasons /\ stop # "halt"
    /\ stop' = "halt"
    /\ UNCHANGED <<clock, quote, acct, daily, orders, fills, killSwitch, call>>

Pause ==
    /\ "pause" \in StopReasons /\ stop = "none"
    /\ stop' = "pause"
    /\ UNCHANGED <<clock, quote, acct, daily, orders, fills, killSwitch, call>>

Resume ==
    /\ stop = "pause"
    /\ stop' = "none"
    /\ UNCHANGED <<clock, quote, acct, daily, orders, fills, killSwitch, call>>

\* The process dies and is started again, perhaps with another policy: what the
\* workers had read and what was approved but not recorded is lost.
Restart ==
    /\ call' = [w \in Workers |-> Idle]
    /\ orders' = [o \in Orders |-> IF orders[o].status = "approved"
                                   THEN [orders[o] EXCEPT !.status = "decided"]
                                   ELSE orders[o]]
    /\ stop' = "none"
    /\ killSwitch' \in KillSwitchAtRestart
    /\ UNCHANGED <<clock, quote, acct, daily, fills>>
-----------------------------------------------------------------------------
(***************************************************************************)
(* The event worker: a decision, its approval, its order                   *)
(***************************************************************************)
\* snapshot_sync at the present: an active stop retires risk-increasing orders,
\* then the account is valued and the daily row ensured.
SnapshotValid == acct.qty = 0 \/ QuoteValid(quote, clock)
SnapshotEquity == IF SnapshotValid THEN Equity(acct, quote) ELSE acct.cash
SnapshotDaily == EnsureDaily(acct, daily, clock, SnapshotEquity, SnapshotValid)
SnapshotOrders ==
    [o \in Orders |-> IF o \in Pending /\ Stopping
                         /\ OrderIncreasesRisk(acct, orders[o].weight)
                      THEN Ended("cancelled") ELSE orders[o]]
SnapshotAccount == Valued(acct, SnapshotEquity, SnapshotValid)

\* The model decides on a target weight for the portfolio it was shown.
Decide(o, w) ==
    /\ orders[o].status = "idle"
    /\ daily' = SnapshotDaily
    /\ acct' = SnapshotAccount
    /\ orders' = [SnapshotOrders EXCEPT ![o] =
                    [NoOrder EXCEPT !.status = "decided", !.weight = w,
                                    !.basedOn = acct.snapshot, !.completedAt = clock,
                                    !.validUntil = clock + DecisionTTL]]
    /\ UNCHANGED <<clock, quote, fills, stop, killSwitch, call>>

\* What DeterministicHardRiskEngine.assess and the target validation before it
\* require of any target ...
AnyTargetPermitted(o) ==
    LET w == orders[o].weight
        size == Abs(DesiredQuantity(acct, w, quote))
    IN  /\ clock < orders[o].validUntil
        /\ orders[o].basedOn = acct.snapshot
        /\ \A p \in Orders : SnapshotOrders[p].status # "pending"
        /\ QuoteValid(quote, clock)
        /\ Abs(w) <= Least(Policy.sizing.maxWeight, Policy.maxGross)
        /\ w # 0 /\ SnapshotEquity > 0 =>
             size \in Policy.sizing.minVolume .. Policy.sizing.maxVolume
        /\ w = 0 => Open(acct)

\* ... and of one that increases risk.
NewRiskPermitted ==
    LET row == SnapshotDaily[DayOf(clock)]
    IN  /\ ~Stopping
        /\ ~killSwitch
        /\ row.state = "confirmed"
        /\ acct.exitReason = "none"
        /\ ~row.hit
        /\ SnapshotEquity - row.baseline > -Policy.maxDailyLoss
        /\ SnapshotEquity >= Policy.minEquity
        /\ ~InCloseWindow(clock)

\* Portfolio snapshot, validation and risk assessment after the model's answer.
Assess(o) ==
    /\ orders[o].status = "decided"
    /\ daily' = SnapshotDaily
    /\ acct' = SnapshotAccount
    /\ orders' =
         [SnapshotOrders EXCEPT ![o] =
            IF AnyTargetPermitted(o)
                 /\ (TargetIncreasesRisk(acct, orders[o].weight, quote) => NewRiskPermitted)
            THEN [@ EXCEPT !.status = "approved", !.assessedAt = clock,
                           !.approvedUntil = clock + AssessmentTTL]
            ELSE Ended("refused")]
    /\ UNCHANGED <<clock, quote, fills, stop, killSwitch, call>>

\* Mutant: another order may still be pending.
Recordable_AlongsideAnother(o, t) ==
    /\ ~Expired(o, t)
    /\ orders[o].basedOn = acct.snapshot
    /\ ~(Stopping /\ OrderIncreasesRisk(acct, orders[o].weight))

\* What record_sync requires of an approved decision before it becomes an order.
Recordable(o, t) ==
    /\ ~Expired(o, t)
    /\ orders[o].basedOn = acct.snapshot
    /\ ~(Stopping /\ OrderIncreasesRisk(acct, orders[o].weight))
    /\ \A p \in Orders : AfterPrologue(t)[p] # "pending"

\* record_sync at a time t read before the lock was taken.
Record(o, t) ==
    /\ orders[o].status = "approved"
    /\ t \in ReadTimes(orders[o].assessedAt)
    /\ orders' = [WithStatus(AfterPrologue(t)) EXCEPT ![o] =
                    IF Recordable(o, t)
                    THEN [orders[o] EXCEPT !.status = "pending", !.assessedAt = 0,
                                           !.recordedAt = t]
                    ELSE Ended("rejected")]
    /\ UNCHANGED <<clock, quote, acct, daily, fills, stop, killSwitch, call>>
-----------------------------------------------------------------------------
(***************************************************************************)
(* The quote and protection workers                                        *)
(***************************************************************************)
\* A worker reads the latest quote; its ledger operations come later.
Read(w) ==
    /\ call[w].phase = "idle"
    /\ call' = [call EXCEPT ![w] = [phase |-> "exit", quote |-> quote, since |-> clock]]
    /\ UNCHANGED <<clock, quote, acct, daily, orders, fills, stop, killSwitch>>

\* expire_pending_orders
ExpireOrders ==
    /\ orders' = WithStatus([o \in Orders |-> Retired(o, clock, FALSE)])
    /\ UNCHANGED <<clock, quote, acct, daily, fills, stop, killSwitch, call>>

\* A fill worker goes on to fill orders with the quote it evaluated exits with.
Leave(w, t) ==
    call' = [call EXCEPT ![w] = IF w \in FillWorkers /\ @.phase = "exit"
                                THEN [@ EXCEPT !.phase = "fill", !.since = t]
                                ELSE Idle]

Favourable(a, q) ==
    IF a.qty > 0 THEN Mark(a.qty, q) - a.entry ELSE a.entry - Mark(a.qty, q)
PeakFavourable(a) == IF a.qty > 0 THEN a.peak - a.entry ELSE a.entry - a.peak

\* Mutant: the peak is the latest mark.
Peaked_FollowsQuote(a, q) == [a EXCEPT !.peak = Better(a.qty, a.entry, Mark(a.qty, q))]

\* The account after the peak favourable mark has followed quote q.
Peaked(a, q) ==
    [a EXCEPT !.peak = Better(a.qty, a.peak, Better(a.qty, a.entry, Mark(a.qty, q)))]

StopLossHit(a, q) ==
    \/ Unrealized(a, q) <= -Exit.maxPositionLoss
    \/ Favourable(a, q) <= -Exit.stopLossPips
TakeProfitHit(a, q) ==
    \/ Unrealized(a, q) >= Exit.takeProfitUsd
    \/ Favourable(a, q) >= Exit.takeProfitPips
TrailingHit(a, q) ==
    /\ PeakFavourable(a) >= Exit.trailingActivation
    /\ PeakFavourable(a) - Favourable(a, q) >= Exit.trailingDistance

\* The trigger a valid quote shows, the most urgent first.
QuoteTrigger(a, q, row) ==
    CASE StopLossHit(a, q) -> "stop_loss"
      [] ~StopLossHit(a, q) /\ TakeProfitHit(a, q) -> "take_profit"
      [] ~StopLossHit(a, q) /\ ~TakeProfitHit(a, q) /\ TrailingHit(a, q) -> "trailing"
      [] OTHER -> IF row.hit \/ Equity(a, q) - row.baseline <= -Exit.maxDailyLoss
                  THEN "daily_loss" ELSE "none"

\* Mutant: a position is closed only while a daily close window is open.
DailyCloseDue_WindowOnly(openedAt, t) == InCloseWindow(t) /\ openedAt < t

\* The daily close after the position was opened has come: that of its own day,
\* the rollover if it was opened inside the window, or any window since.
DailyCloseDue(openedAt, t) ==
    \/ openedAt < CloseAt(openedAt) /\ t >= CloseAt(openedAt)
    \/ openedAt >= CloseAt(openedAt) /\ t >= RolloverAt(openedAt)
    \/ InCloseWindow(t) /\ openedAt < t

TimeTrigger(a, t) ==
    CASE t - a.openedAt >= Exit.maxHolding -> "horizon"
      [] t - a.openedAt < Exit.maxHolding /\ DailyCloseDue(a.openedAt, t) -> "daily_close"
      [] OTHER -> "none"

\* Mutant: the reason is found anew at each evaluation.
ExitReason_Anew(a, q, t, row) ==
    LET shown == CASE QuoteValid(q, t) -> QuoteTrigger(a, q, row)
                   [] ~QuoteValid(q, t) /\ row.hit -> "daily_loss"
                   [] OTHER -> "none"
    IN  IF shown # "none" THEN shown ELSE TimeTrigger(a, t)

\* A requested exit stays requested; failing that a trigger; failing that time.
ExitReason(a, q, t, row) ==
    LET shown == CASE QuoteValid(q, t) -> QuoteTrigger(a, q, row)
                   [] ~QuoteValid(q, t) /\ row.hit -> "daily_loss"
                   [] OTHER -> "none"
    IN  CASE a.exitReason # "none" -> a.exitReason
          [] a.exitReason = "none" /\ shown # "none" -> shown
          [] OTHER -> TimeTrigger(a, t)

\* What evaluating the open position at t with quote q values, and finds due.
Evaluation(q, t) ==
    LET valid == QuoteValid(q, t)
        equity == IF valid THEN Equity(acct, q) ELSE acct.cash
        seen == IF valid THEN Peaked(acct, q) ELSE acct
        d == EnsureDaily(acct, daily, t, equity, valid)
    IN  [acct |-> Valued(seen, equity, valid), daily |-> d,
         reason |-> ExitReason(seen, q, t, d[DayOf(t)])]

\* A flat account has nothing to protect and drops a leftover exit request.
EvaluateFlat(t) ==
    /\ ~Open(acct)
    /\ acct' = [acct EXCEPT !.exitReason = "none", !.exitSince = 0]
    /\ orders' = WithStatus([o \in Orders |-> Retired(o, t, FALSE)])
    /\ UNCHANGED <<daily, fills>>

EvaluateQuiet(q, t) ==
    /\ Open(acct) /\ Evaluation(q, t).reason = "none"
    /\ acct' = Evaluation(q, t).acct
    /\ daily' = Evaluation(q, t).daily
    /\ orders' = WithStatus([o \in Orders |-> Retired(o, t, FALSE)])
    /\ UNCHANGED fills

\* Mutant: the exit leaves the pending order alone.
AfterExit_KeepsPending(t) == [o \in Orders |-> Retired(o, t, FALSE)]

\* An exit that is due cancels every pending order.
AfterExit(t) ==
    [o \in Orders |-> IF Retired(o, t, FALSE) = "pending" THEN "cancelled"
                                                         ELSE Retired(o, t, FALSE)]

\* An exit that is due waits for a valid quote, or closes the position at the one
\* at hand; either way no order stays pending.
EvaluateExit(q, t) ==
    LET ev == Evaluation(q, t)
    IN  /\ Open(acct) /\ ev.reason # "none"
        /\ orders' = WithStatus(AfterExit(t))
        /\ \/ /\ ~QuoteValid(q, t)
              /\ acct' = [ev.acct EXCEPT
                             !.exitReason = ev.reason,
                             !.exitSince = IF acct.exitReason = "none" THEN t ELSE @]
              /\ daily' = ev.daily
              /\ UNCHANGED fills
           \/ /\ QuoteValid(q, t)
              /\ Fill(ev.acct, ev.daily, -acct.qty, q, t, "exit")

\* evaluate_protective_exits, at a time t read before the lock was taken.
Evaluate(w, t) ==
    /\ call[w].phase = "exit"
    /\ t \in ReadTimes(call[w].since)
    /\ \/ EvaluateFlat(t)
       \/ EvaluateQuiet(call[w].quote, t)
       \/ EvaluateExit(call[w].quote, t)
    /\ Leave(w, t)
    /\ UNCHANGED <<clock, quote, stop, killSwitch>>

\* Mutant: the kill switch is checked when risk is assessed and not at the fill.
FillGuardFails_TrustsApproval(o, q, t, row) ==
    LET e == Equity(acct, q)
    IN  \/ acct.exitReason # "none"
        \/ row.state # "confirmed"
        \/ row.hit \/ e - row.baseline <= -Policy.maxDailyLoss
        \/ e < Policy.minEquity
        \/ InCloseWindow(t)

\* What stands at the fill against an order that increases risk.
FillGuardFails(o, q, t, row) ==
    LET a == acct
        e == Equity(a, q)
        size == Abs(DesiredQuantity(a, orders[o].weight, q))
    IN  \/ killSwitch
        \/ a.exitReason # "none"
        \/ row.state # "confirmed"
        \/ row.hit \/ e - row.baseline <= -Policy.maxDailyLoss
        \/ e < Policy.minEquity
        \/ Abs(orders[o].weight) > Least(Policy.sizing.maxWeight, Policy.maxGross)
        \/ orders[o].weight # 0
             /\ size \notin Policy.sizing.minVolume .. Policy.sizing.maxVolume
        \/ InCloseWindow(t)

\* The status in which fill_pending leaves an order that survived its prologue.
Outcome(o, q, t, row) ==
    LET increases == TargetIncreasesRisk(acct, orders[o].weight, q)
    IN  CASE orders[o].basedOn # acct.snapshot -> "cancelled"
          [] orders[o].basedOn = acct.snapshot /\ increases /\ Stopping -> "cancelled"
          [] orders[o].basedOn = acct.snapshot /\ increases /\ ~Stopping
               /\ FillGuardFails(o, q, t, row) -> "rejected"
          [] OTHER -> IF Delta(acct, orders[o].weight, q) = 0 THEN "cancelled" ELSE "filled"

\* Mutant: any quote after the decision will do.
Causal_SinceDecision(o, q) == q.at >= orders[o].completedAt

\* The quote may not be older than the decision or its recording.
Causal(o, q) == q.at >= Greatest(orders[o].completedAt, orders[o].recordedAt)

Survivors(t) == {o \in Orders : Retired(o, t, Stopping) = "pending"}

\* No order survives the prologue, or the quote cannot fill the one that does.
FillNothing(q, t) ==
    /\ Survivors(t) = {} \/ ~QuoteValid(q, t) \/ \A o \in Survivors(t) : ~Causal(o, q)
    /\ orders' = WithStatus(AfterPrologue(t))
    /\ UNCHANGED <<acct, daily, fills>>

AfterAttempt(o, t, outcome) == [AfterPrologue(t) EXCEPT ![o] = outcome]

\* The loop body of fill_pending for the order o (there is never another).
FillOne(o, q, t) ==
    LET current == orders[o].basedOn = acct.snapshot
        d == EnsureDaily(acct, daily, t, Equity(acct, q), TRUE)
        a == Valued(acct, Equity(acct, q), TRUE)
        outcome == Outcome(o, q, t, d[DayOf(t)])
    IN  /\ o \in Survivors(t) /\ QuoteValid(q, t) /\ Causal(o, q)
        /\ orders' = WithStatus(AfterAttempt(o, t, outcome))
        /\ IF outcome = "filled" THEN Fill(a, d, Delta(acct, orders[o].weight, q), q, t, o)
           ELSE /\ acct' = IF current THEN a ELSE acct
                /\ daily' = IF current THEN d ELSE daily
                /\ UNCHANGED fills

\* fill_pending, at a time t read before the lock was taken.
FillPending(w, t) ==
    /\ call[w].phase = "fill"
    /\ t \in ReadTimes(call[w].since)
    /\ \/ FillNothing(call[w].quote, t)
       \/ \E o \in Orders : FillOne(o, call[w].quote, t)
    /\ Leave(w, t)
    /\ UNCHANGED <<clock, quote, stop, killSwitch>>

\* An operation raises: its transaction is rolled back and the step abandoned.
Abandon(w) ==
    /\ call[w].phase # "idle"
    /\ call' = [call EXCEPT ![w] = Idle]
    /\ UNCHANGED <<clock, quote, acct, daily, orders, fills, stop, killSwitch>>
-----------------------------------------------------------------------------
(***************************************************************************)
(* Shutdown                                                                *)
(***************************************************************************)
\* cancel_risk_increasing_pending_orders
CancelOnStop ==
    /\ stop = "halt"
    /\ orders' = SnapshotOrders
    /\ UNCHANGED <<clock, quote, acct, daily, fills, stop, killSwitch, call>>

\* request_protective_exit_on_stop, and mark_shutdown_unclosed_risk when the
\* drain has timed out: an exit already requested keeps its reason and time.
RequestExit(reason) ==
    /\ stop = "halt"
    /\ Open(acct) /\ acct.exitReason = "none"
    /\ acct' = [acct EXCEPT !.exitReason = reason, !.exitSince = clock]
    /\ UNCHANGED <<clock, quote, daily, orders, fills, stop, killSwitch, call>>

Environment ==
    \/ Tick
    \/ \E bid \in Bids : Publish([at |-> clock, bid |-> bid, good |-> TRUE])
    \/ Publish(NoQuote)
    \/ Halt \/ Pause \/ Resume \/ Restart

EventWorker ==
    \/ \E o \in Orders, w \in Weights : Decide(o, w)
    \/ \E o \in Orders : Assess(o)
    \/ \E o \in Orders, t \in 0..clock : Record(o, t)

LedgerWorker(w) ==
    \/ Read(w)
    \/ \E t \in 0..clock : Evaluate(w, t)
    \/ \E t \in 0..clock : FillPending(w, t)
    \/ Abandon(w)

Shutdown == CancelOnStop \/ \E r \in {"runner_stop", "unclosed"} : RequestExit(r)

Next ==
    \/ Environment
    \/ EventWorker
    \/ ExpireOrders
    \/ \E w \in Workers : LedgerWorker(w)
    \/ Shutdown

Spec == Init /\ [][Next]_vars
-----------------------------------------------------------------------------
(***************************************************************************)
(* What the ledger keeps true                                              *)
(***************************************************************************)
ExitReasons ==
    {"none", "stop_loss", "take_profit", "trailing", "daily_loss", "horizon",
     "daily_close", "runner_stop", "unclosed"}
Statuses ==
    {"idle", "decided", "refused", "approved", "rejected", "pending", "expired",
     "cancelled", "filled"}

Quotes == [at : Nat, bid : Nat, good : BOOLEAN]
Holdings == -Policy.sizing.maxVolume .. Policy.sizing.maxVolume
Accounts ==
    [qty : Holdings, cash : Int, realized : Int, fees : Int, entry : Int, openedAt : Nat,
     peak : Int, exitReason : ExitReasons, exitSince : Nat, lastEquity : Int,
     snapshot : Nat]
DailyRows ==
    [state : {"absent", "unconfirmed", "confirmed"}, baseline : Int, hit : BOOLEAN]
OrderRows ==
    [status : Statuses, weight : Int, basedOn : Nat, completedAt : Nat,
     validUntil : Nat, assessedAt : Nat, approvedUntil : Nat, recordedAt : Nat]
FillRows == [order : Orders \cup {"exit"}, delta : Int, price : Int]

\* Every row of the ledger and every value a worker holds has its type, and the
\* position is within the volume limit.
TypeOK ==
    /\ clock \in 0..MaxClock
    /\ quote \in Quotes
    /\ acct \in Accounts
    /\ daily \in [Days -> DailyRows]
    /\ orders \in [Orders -> OrderRows]
    /\ fills \in Seq(FillRows)
    /\ stop \in {"none", "pause", "halt"}
    /\ killSwitch \in BOOLEAN
    /\ call \in [Workers -> [phase : {"idle", "exit", "fill"}, quote : Quotes,
                             since : 0..MaxClock]]

\* At most one order is pending, and it was decided on the very portfolio the
\* account still shows: whatever changes the position (a fill, a protective exit)
\* retires the order in the same transaction.  fill_pending's check for a stale
\* portfolio is then a second line of defence.
PendingOrderIsCurrent ==
    \A o \in Pending :
        /\ \A p \in Pending : p = o
        /\ orders[o].basedOn = acct.snapshot

FillsOf(o) == {i \in DOMAIN fills : fills[i].order = o}

\* The fills account for the position: their quantities add up to it, and an
\* order has one fill when it is filled and none otherwise, whatever was retried,
\* cancelled or restarted in between.
FillsExplainPosition ==
    /\ acct.qty = SumFunction([i \in DOMAIN fills |-> fills[i].delta])
    /\ acct.snapshot = Len(fills)
    /\ \A o \in Orders :
         Cardinality(FillsOf(o)) = IF orders[o].status = "filled" THEN 1 ELSE 0

\* The position held after the first i fills.
Held(i) == SumFunction([j \in 1..i |-> fills[j].delta])

\* Twice what rounding may have shifted the cash by at fill i: half a price unit for
\* each unit then held where the fill averaged the entry, half a cent where it
\* closed some of the position and so realized a profit in whole cents.
Rounding(i) == IF SameSide(Held(i - 1), fills[i].delta) THEN Abs(Held(i))
               ELSE IF Held(i - 1) # 0 THEN Cent ELSE 0

\* The cash balance is what the fills paid and received: initial cash, less the
\* price of every unit bought, plus that of every unit sold, less the fees of every
\* fill, plus the cost of the position still open.  Nothing but rounding comes
\* between, and no fill rounds more than Rounding allows it.
CashReconciles ==
    LET paid == SumFunction([i \in DOMAIN fills |-> fills[i].delta * fills[i].price])
        drift == acct.cash - (InitialCash - paid - acct.fees + acct.qty * acct.entry)
    IN  /\ acct.cash = InitialCash + acct.realized - acct.fees
        /\ acct.fees = SumFunction([i \in DOMAIN fills |-> Fee(fills[i].delta, fills[i].price)])
        /\ 2 * Abs(drift) <= SumFunction([i \in DOMAIN fills |-> Rounding(i)])

\* The books agree with the fills: position, orders and cash, over restarts, retries
\* and exits too.
BooksReconcile == FillsExplainPosition /\ CashReconciles

\* A step that opens, adds to or reverses the position.
ExposureGrows ==
    acct'.qty # 0 /\ ~(SameSide(acct.qty, acct'.qty) /\ Abs(acct'.qty) <= Abs(acct.qty))

\* No step adds risk while the kill switch or a stop is active, a protective exit
\* is due, or the day's loss limit has been reached, even if the order was
\* recorded, its quote read or its time taken before that.
NoNewRiskWhileBlocked ==
    [][ExposureGrows => /\ ~killSwitch
                        /\ ~Stopping
                        /\ acct.exitReason = "none"
                        /\ ~daily[DayOf(clock)].hit]_vars

\* Once an exit is due it stays due, for the reason and since the time first
\* given, until the position is flat.
ExitStaysDue ==
    [][acct.exitReason # "none" /\ acct'.qty # 0 =>
         /\ acct'.exitReason = acct.exitReason
         /\ acct'.exitSince = acct.exitSince
         /\ SameSide(acct.qty, acct'.qty)]_vars

\* An order never fills at a price the market showed before the decision was
\* complete or the order recorded, although the worker that fills it read its
\* quote before taking the lock, nor later than MaxLag after it ran out.
FillsUseLaterQuotes ==
    [][\A o \in Orders :
         orders[o].status = "pending" /\ orders'[o].status = "filled" =>
            /\ clock - MaxLag < Least(orders[o].validUntil, orders[o].approvedUntil)
            /\ \E w \in FillWorkers :
                 LET q == call[w].quote
                 IN  /\ call'[w] # call[w] /\ q.good
                     /\ q.at >= Greatest(orders[o].completedAt, orders[o].recordedAt)
                     /\ acct'.qty = acct.qty + Delta(acct, orders[o].weight, q)]_vars

LatestEarlier(d) == daily[LastDay(PriorDays(daily, d))].baseline

\* A day's baseline is confirmed once; while a position is carried, never below
\* the last valid equity nor the previous baseline, so that a lower equity after
\* an outage cannot mask the loss; and a day's loss limit, once hit, stays hit.
BaselineNeverMasksLoss ==
    [][\A d \in Days :
         /\ daily[d].state = "confirmed" => /\ daily'[d].state = "confirmed"
                                            /\ daily'[d].baseline = daily[d].baseline
         /\ daily[d].state # "confirmed" /\ daily'[d].state = "confirmed" /\ Open(acct) =>
              /\ daily'[d].baseline >= acct.lastEquity
              /\ PriorDays(daily, d) # {} => daily'[d].baseline >= LatestEarlier(d)
         /\ daily[d].hit => daily'[d].hit]_vars

\* The peak favourable mark, from which the trailing stop measures, never
\* retreats while a position is held on the same side, and is no worse than entry.
PeakNeverRetreats ==
    [][acct'.qty # 0 =>
         /\ Better(acct'.qty, acct'.peak, acct'.entry) = acct'.peak
         /\ SameSide(acct.qty, acct'.qty) => Better(acct.qty, acct.peak, acct'.peak) = acct'.peak]_vars

\* The abstract life of an order: a refused, rejected, expired or cancelled order
\* has been dropped.
LifeOf(status) ==
    CASE status \in {"idle", "decided", "approved"} -> "new"
      [] status = "pending" -> "outstanding"
      [] status = "filled" -> "filled"
      [] OTHER -> "dropped"
LifeOfOrders == [o \in Orders |-> LifeOf(orders[o].status)]

Lifecycle == INSTANCE OrderLifecycle WITH state <- LifeOfOrders, position <- acct.qty

\* The ledger implements OrderLifecycle: in every interleaving of the workers an
\* order is outstanding alone, ends once, and the position moves only by it or by
\* a protective exit that ends it.
ImplementsLifecycle == Lifecycle!Spec
-----------------------------------------------------------------------------
(***************************************************************************)
(* Liveness.  The workers run on timers: time passes, expired orders are   *)
(* seen, what a worker has read it goes on to use.  Of the market the      *)
(* ledger can only hope that a good quote meets an idle worker again and   *)
(* again, and of a worker that it does not fail each time it has one.      *)
(***************************************************************************)
Timers == WF_vars(Tick) /\ WF_vars(ExpireOrders)

\* The fairness of the protection worker's timer alone, without any market.
TimerSpec == Spec /\ Timers

QuoteFor(w) ==
    /\ call[w].phase = "idle"
    /\ \E bid \in Bids : Publish([at |-> clock, bid |-> bid, good |-> TRUE])
ReadValid(w) == Read(w) /\ QuoteValid(quote, clock)
EvaluateNow(w) == \E t \in 0..clock : Evaluate(w, t)
EvaluateValid(w) == \E t \in 0..clock : QuoteValid(call[w].quote, t) /\ Evaluate(w, t)
FillNow(w) == \E t \in 0..clock : FillPending(w, t)

MarketFairness ==
    \A w \in Workers :
         /\ SF_vars(QuoteFor(w)) /\ SF_vars(ReadValid(w))
         /\ WF_vars(EvaluateNow(w)) /\ SF_vars(EvaluateValid(w))
         /\ WF_vars(FillNow(w))

\* An order does not stay pending, even if the market never shows a quote again:
\* it is retired at the latest when its approval runs out.
PendingOrdersEnd ==
    \A o \in Orders :
        (o \in Pending /\ orders[o].approvedUntil <= MaxClock) ~> o \notin Pending

BeforeLastClose == {t \in 0..MaxClock : CloseAt(t) <= MaxClock}

\* A position opened before the daily close of a day does not outlive it for ever,
\* whatever quotes, workers and restarts do in the meantime.
PositionsClose ==
    MarketFairness =>
        ((acct.qty # 0 /\ acct.openedAt \in BeforeLastClose) ~> (acct.qty = 0))
=============================================================================
