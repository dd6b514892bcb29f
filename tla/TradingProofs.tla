---------------------------- MODULE TradingProofs ----------------------------
(***************************************************************************)
(* What the Shadow ledger keeps true for every policy, market, number of   *)
(* workers and orders, and every bound of the model: its types, the order  *)
(* that is pending, the exit that is due, the life of its orders, what the *)
(* protective exits measure from, and that its books add up.  Then what    *)
(* holds of an account that is retargeted again and again, for every       *)
(* policy, equity, price and weight.                                       *)
(***************************************************************************)
EXTENDS ShadowLedger, Retargeting, ArithmeticProofs

\* What the proofs use of the constants.
LEMMA ConstantTypes ==
    /\ Policy.sizing \in SizingPolicy /\ Policy.sizing.maxVolume \in Nat \ {0}
    /\ Policy.maxDailyLoss \in Nat /\ Exit.maxDailyLoss \in Nat
    /\ Spread \in Nat /\ Slippage \in Nat
    /\ Cent \in Nat \ {0}
    /\ FeeRate \in Nat /\ FeeScale \in Nat \ {0} /\ FixedFee \in Nat
    /\ Bids \subseteq Nat /\ Weights \subseteq Int
    /\ InitialCash \in Nat
    /\ MaxClock \in Nat /\ DayLength \in Nat \ {0}
    /\ CloseLength \in Nat /\ MaxLag \in Nat
    /\ DecisionTTL \in Nat /\ AssessmentTTL \in Nat
    /\ KillSwitchAtStart \in BOOLEAN /\ KillSwitchAtRestart \subseteq BOOLEAN
BY LedgerAssumption DEF LedgerAssumption, LimitFields, ExitFields, SizingPolicy
-----------------------------------------------------------------------------
(***************************************************************************)
(* Types of what the operations compute                                    *)
(***************************************************************************)
\* A time that has come lies on a day of the model.
LEMMA DayOfType ==
    ASSUME NEW t \in Nat, t <= MaxClock
    PROVE  DayOf(t) \in Days
BY ConstantTypes DEF DayOf, Days

\* There is a last one among any days there are.
LEMMA LastDayExists ==
    ASSUME NEW S \in SUBSET Days, S # {}
    PROVE  LastDay(S) \in S /\ \A f \in S : f <= LastDay(S)
<1> DEFINE last == DayOf(MaxClock)
           T == {n \in 0..last : last - n \in S}
<1>1. last \in Nat
  BY ConstantTypes DEF DayOf
<1>2. T \subseteq Nat /\ T # {}
  <2>1. PICK e \in S : TRUE
    OBVIOUS
  <2>2. e \in 0..last
    BY <2>1 DEF Days
  <2>3. last - e \in T
    BY <1>1, <2>1, <2>2
  <2> QED
    BY <1>1, <2>3
<1> HIDE DEF T
<1>3. PICK x \in T : \A y \in T : x <= y
  BY <1>2, LeastNatural
<1> USE DEF T
<1>4. \A f \in S : f <= last - x
  <2> SUFFICES ASSUME NEW f \in S PROVE f <= last - x
    OBVIOUS
  <2>1. f \in 0..last
    BY DEF Days
  <2>2. last - f \in T
    BY <1>1, <2>1
  <2> QED
    BY <1>1, <1>2, <1>3, <2>1, <2>2
<1>5. last - x \in S
  OBVIOUS
<1>6. \E e \in S : \A f \in S : f <= e
  BY <1>4, <1>5
<1> QED
  BY <1>6 DEF LastDay

\* The quantities within the volume limit are integers, none among them.
LEMMA HoldingsType == 0 \in Holdings /\ \A n \in Holdings : n \in Int /\ -n \in Int
BY ConstantTypes DEF Holdings

\* Prices are natural numbers, and so is the doubled mid price.
LEMMA PriceTypes ==
    ASSUME NEW q \in Quotes
    PROVE  /\ Ask(q) \in Nat /\ Mid2(q) \in Nat
           /\ \A n \in Int : Mark(n, q) \in Nat
BY ConstantTypes DEF Quotes, Ask, Mid2, Mark

\* Rounding to cents gives an amount, at most half a cent from what it rounds.
LEMMA ToCentsRounds ==
    ASSUME NEW x \in Int
    PROVE  ToCents(x) \in Int /\ 2 * Abs(ToCents(x) - x) <= Cent
<1> DEFINE c == Cent
           n == Abs(x)
           k == RoundHalfUp(n, c)
           y == c * k
<1>1. c \in Nat \ {0} /\ n \in Nat
  BY ConstantTypes DEF Abs
<1>2. (ToCents(x) = y /\ x = n) \/ (ToCents(x) = c * (-k) /\ x = -n)
  BY DEF ToCents, Abs
<1> HIDE DEF c, n
<1>3. k = (2 * n + c) \div (2 * c)
  BY DEF RoundHalfUp
<1>4. k \in Int /\ k * (2 * c) <= 2 * n + c /\ 2 * n + c < (k + 1) * (2 * c)
  BY <1>1, <1>3
<1> HIDE DEF k
<1>5. /\ y \in Int /\ k * (2 * c) = 2 * y /\ (k + 1) * (2 * c) = 2 * y + 2 * c
      /\ c * (-k) = -y
  BY <1>1, <1>4
<1> HIDE DEF y
<1>6. 2 * y <= 2 * n + c /\ 2 * n + c < 2 * y + 2 * c
  BY <1>4, <1>5
<1>7. 2 * Abs(y - n) <= c /\ 2 * Abs(n - y) <= c
  BY <1>1, <1>5, <1>6 DEF Abs
<1>8. CASE ToCents(x) = y /\ x = n
  BY <1>1, <1>5, <1>7, <1>8 DEF c
<1>9. CASE ToCents(x) = c * (-k) /\ x = -n
  <2>1. ToCents(x) = -y /\ ToCents(x) - x = n - y
    BY <1>1, <1>5, <1>9
  <2> QED
    BY <1>1, <1>5, <1>7, <2>1 DEF c
<1> QED
  BY <1>2, <1>8, <1>9

\* The profit of a position is an amount.
LEMMA ProfitType ==
    ASSUME NEW held \in Int, NEW entry \in Int, NEW q \in Quotes
    PROVE  Profit(held, entry, q) \in Int
BY PriceTypes, ToCentsRounds DEF Profit

\* The value of a position and of the account is an amount.
LEMMA EquityTypes ==
    ASSUME NEW a \in Accounts, NEW q \in Quotes
    PROVE  Unrealized(a, q) \in Int /\ Equity(a, q) \in Int /\ a.qty \in Int
<1>1. a.qty \in Int /\ a.cash \in Int /\ a.entry \in Int
  BY ConstantTypes DEF Accounts, Holdings
<1> QED
  BY <1>1, ProfitType DEF Unrealized, Equity

\* The carried reference of a day is an amount.
LEMMA CarriedReferenceType ==
    ASSUME NEW a \in Accounts, NEW d \in [Days -> DailyRows], NEW day \in Days
    PROVE  CarriedReference(a, d, day) \in Int
<1>1. a.lastEquity \in Int
  BY DEF Accounts
<1>2. CASE PriorDays(d, day) = {}
  BY <1>1, <1>2 DEF CarriedReference
<1>3. CASE PriorDays(d, day) # {}
  <2>1. LastDay(PriorDays(d, day)) \in Days
    BY <1>3, LastDayExists DEF PriorDays
  <2>2. d[LastDay(PriorDays(d, day))].baseline \in Int
    BY <2>1 DEF DailyRows
  <2> QED
    BY <1>1, <1>3, <2>2 DEF CarriedReference, Greatest
<1> QED
  BY <1>2, <1>3

\* Evaluating a day leaves daily rows.
LEMMA EnsureDailyType ==
    ASSUME NEW a \in Accounts, NEW d \in [Days -> DailyRows], NEW t \in Nat,
           t <= MaxClock, NEW e \in Int, NEW valid \in BOOLEAN
    PROVE  EnsureDaily(a, d, t, e, valid) \in [Days -> DailyRows]
<1>1. DayOf(t) \in Days
  BY DayOfType
<1>2. CarriedReference(a, d, DayOf(t)) \in Int
  BY <1>1, CarriedReferenceType
<1>3. d[DayOf(t)] \in DailyRows
  BY <1>1
<1>4. DailyLimit \in Int
  BY ConstantTypes DEF DailyLimit, Least
<1>5. EnsureDailyRow(a, d, DayOf(t), e, valid) \in DailyRows
  <2> DEFINE row == d[DayOf(t)]
             carried == CarriedReference(a, d, DayOf(t))
  <2>1. /\ Greatest(carried, e) \in Int
        /\ Greatest(row.baseline, Greatest(carried, e)) \in Int
    BY <1>2, <1>3 DEF Greatest, DailyRows
  <2> QED
    BY <1>2, <1>3, <1>4, <2>1 DEF EnsureDailyRow, DailyRows
<1> QED
  BY <1>5 DEF EnsureDaily

\* Valuing an account leaves an account.
LEMMA ValuedType ==
    ASSUME NEW a \in Accounts, NEW e \in Int, NEW valid \in BOOLEAN
    PROVE  Valued(a, e, valid) \in Accounts
BY DEF Valued, Accounts

\* The price of a fill is an amount.
LEMMA FillPriceType ==
    ASSUME NEW delta \in Int, NEW q \in Quotes
    PROVE  FillPrice(delta, q) \in Int
<1>1. q.bid \in Nat /\ Ask(q) \in Nat
  BY PriceTypes DEF Quotes
<1> QED
  BY <1>1, ConstantTypes DEF FillPrice

\* What a fill costs is an amount.
LEMMA FeeType ==
    ASSUME NEW delta \in Int, NEW price \in Int
    PROVE  Fee(delta, price) \in Int
<1> DEFINE n == FeeRate * (Abs(delta) * price) + FeeScale * FixedFee
           d == FeeScale * Cent
<1>1. n \in Int /\ d \in Nat \ {0}
  <2>1. Abs(delta) * price \in Int
    BY DEF Abs
  <2>2. FeeRate * (Abs(delta) * price) \in Int /\ FeeScale * FixedFee \in Int
    BY <2>1, ConstantTypes
  <2> QED
    BY <2>2, ConstantTypes
<1> HIDE DEF n, d
<1>2. RoundHalfUp(n, d) \in Int
  BY <1>1 DEF RoundHalfUp
<1> QED
  BY <1>2, ConstantTypes DEF Fee, n, d

\* What a fill costs and realizes is an amount.
LEMMA TradeTypes ==
    ASSUME NEW a \in Accounts, NEW delta \in Int, NEW q \in Quotes, NEW price \in Int
    PROVE  /\ Fee(delta, price) \in Int
           /\ RealizedBy(a, delta, price) \in Int
           /\ EntryAfter(a, delta, price) \in Int
<1>1. a.qty \in Int /\ a.entry \in Int
  BY ConstantTypes DEF Accounts, Holdings
<1>2. Abs(delta) \in Nat /\ Abs(a.qty) \in Nat
  BY <1>1 DEF Abs
<1>3. Fee(delta, price) \in Int
  BY FeeType
<1>4. RealizedBy(a, delta, price) \in Int
  <2>1. Least(Abs(a.qty), Abs(delta)) \in Int
    BY <1>2 DEF Least
  <2> QED
    BY <1>1, <2>1, ToCentsRounds DEF RealizedBy
<1>5. ASSUME SameSide(a.qty, delta) PROVE AverageEntry(a, delta, price) \in Int
  <2>1. Abs(a.qty) + Abs(delta) \in Nat \ {0}
    BY <1>1, <1>2, <1>5 DEF SameSide, Abs
  <2>2. Abs(a.qty) * a.entry + Abs(delta) * price \in Int
    BY <1>1, <1>2
  <2> QED
    BY <2>1, <2>2 DEF AverageEntry, RoundHalfUp
<1>6. EntryAfter(a, delta, price) \in Int
  BY <1>1, <1>5 DEF EntryAfter
<1> QED
  BY <1>3, <1>4, <1>6

\* A fill within the volume limit leaves an account.
LEMMA ApplyDeltaType ==
    ASSUME NEW a \in Accounts, NEW delta \in Int, NEW q \in Quotes, NEW t \in Nat,
           a.qty + delta \in Holdings
    PROVE  ApplyDelta(a, delta, q, t) \in Accounts
<1> DEFINE price == FillPrice(delta, q)
           held == a.qty + delta
           entry == EntryAfter(a, delta, price)
           mark == Mark(held, q)
<1>1. price \in Int /\ Fee(delta, price) \in Int
  BY FillPriceType, TradeTypes
<1>2. RealizedBy(a, delta, price) \in Int /\ entry \in Int
  BY <1>1, TradeTypes
<1>3. held \in Int /\ mark \in Nat
  BY ConstantTypes, PriceTypes DEF Holdings
<1>4. /\ a.cash \in Int /\ a.realized \in Int /\ a.fees \in Int /\ a.peak \in Int
      /\ a.openedAt \in Nat /\ a.exitSince \in Nat /\ a.exitReason \in ExitReasons
      /\ a.snapshot \in Nat
  BY DEF Accounts
<1>5. Better(held, entry, mark) \in Int /\ Better(held, a.peak, Better(held, entry, mark)) \in Int
  BY <1>2, <1>3, <1>4 DEF Better, Greatest, Least
<1>6. Profit(held, entry, q) \in Int
  BY <1>2, <1>3, ProfitType
<1> HIDE DEF price, held, entry, mark
<1>7. ApplyDelta(a, delta, q, t) =
        [qty |-> held,
         cash |-> a.cash + RealizedBy(a, delta, price) - Fee(delta, price),
         realized |-> a.realized + RealizedBy(a, delta, price),
         fees |-> a.fees + Fee(delta, price),
         entry |-> entry,
         openedAt |-> CASE held = 0 -> 0 [] SameSide(a.qty, held) -> a.openedAt [] OTHER -> t,
         peak |-> CASE held = 0 -> 0
                    [] SameSide(a.qty, held) ->
                         Better(held, a.peak, Better(held, entry, mark))
                    [] OTHER -> Better(held, entry, mark),
         exitReason |-> IF held = 0 THEN "none" ELSE a.exitReason,
         exitSince |-> IF held = 0 THEN 0 ELSE a.exitSince,
         lastEquity |-> a.cash + RealizedBy(a, delta, price) - Fee(delta, price)
                          + Profit(held, entry, q),
         snapshot |-> a.snapshot + 1]
  BY Zenon DEF ApplyDelta, price, held, entry, mark
<1>8. held \in Holdings /\ "none" \in ExitReasons
  BY DEF held, ExitReasons
<1> QED
  BY <1>1, <1>2, <1>3, <1>4, <1>5, <1>6, <1>7, <1>8 DEF Accounts

\* Order rows stay order rows under any change of status.
LEMMA StatusTypes ==
    ASSUME orders \in [Orders -> OrderRows]
    PROVE  /\ NoOrder \in OrderRows
           /\ \A s \in Statuses : Ended(s) \in OrderRows
           /\ \A o \in Orders, t \in Nat, b \in BOOLEAN : Retired(o, t, b) \in Statuses
           /\ \A f \in [Orders -> Statuses] : WithStatus(f) \in [Orders -> OrderRows]
<1>1. NoOrder \in OrderRows
  BY DEF NoOrder, OrderRows, Statuses
<1>2. \A s \in Statuses : Ended(s) \in OrderRows
  BY <1>1 DEF Ended, OrderRows
<1>3. \A o \in Orders, t \in Nat, b \in BOOLEAN : Retired(o, t, b) \in Statuses
  BY DEF Retired, OrderRows, Statuses
<1>4. \A f \in [Orders -> Statuses] : WithStatus(f) \in [Orders -> OrderRows]
  BY <1>2 DEF WithStatus, OrderRows
<1> QED
  BY <1>1, <1>2, <1>3, <1>4

\* Following the peak, and valuing, touch nothing else of an account.
LEMMA ViewTypes ==
    ASSUME NEW a \in Accounts, NEW q \in Quotes, NEW e \in Int, NEW valid \in BOOLEAN
    PROVE  /\ Peaked(a, q) \in Accounts
           /\ \A b \in {Peaked(a, q), Valued(a, e, valid)} :
                /\ b.qty = a.qty /\ b.snapshot = a.snapshot /\ b.entry = a.entry
                /\ b.exitReason = a.exitReason /\ b.exitSince = a.exitSince
<1>1. a.qty \in Int /\ a.entry \in Int /\ a.peak \in Int /\ Mark(a.qty, q) \in Int
  BY ConstantTypes, PriceTypes DEF Accounts, Holdings
<1> DEFINE peak == Better(a.qty, a.peak, Better(a.qty, a.entry, Mark(a.qty, q)))
<1>2. peak \in Int
  BY <1>1 DEF Better, Greatest, Least
<1>3. Peaked(a, q) = [a EXCEPT !.peak = peak]
  BY DEF Peaked
<1> HIDE DEF peak
<1>4. Peaked(a, q) \in Accounts
  BY <1>2, <1>3 DEF Accounts
<1>5. \A b \in {Peaked(a, q), Valued(a, e, valid)} :
                /\ b.qty = a.qty /\ b.snapshot = a.snapshot /\ b.entry = a.entry
                /\ b.exitReason = a.exitReason /\ b.exitSince = a.exitSince
  BY <1>3 DEF Valued, Accounts
<1> QED
  BY <1>4, <1>5

\* A fill within the volume limit leaves the ledger's tables in order.
LEMMA FillTypes ==
    ASSUME NEW a \in Accounts, NEW d \in [Days -> DailyRows], NEW delta \in Int,
           NEW q \in Quotes, NEW t \in Nat, t <= MaxClock,
           NEW who \in Orders \cup {"exit"}, a.qty + delta \in Holdings,
           fills \in Seq(FillRows), Fill(a, d, delta, q, t, who)
    PROVE  /\ acct' \in Accounts /\ acct' = ApplyDelta(a, delta, q, t)
           /\ daily' \in [Days -> DailyRows]
           /\ fills' \in Seq(FillRows)
<1>1. ApplyDelta(a, delta, q, t) \in Accounts
  BY ApplyDeltaType
<1>2. acct' = ApplyDelta(a, delta, q, t)
  BY DEF Fill
<1>3. daily' \in [Days -> DailyRows]
  <2>1. daily' = EnsureDaily(acct', d, t, acct'.lastEquity, TRUE)
    BY DEF Fill
  <2>2. acct'.lastEquity \in Int
    BY <1>1, <1>2 DEF Accounts
  <2> QED
    BY <1>1, <1>2, <2>1, <2>2, EnsureDailyType
<1>4. fills' \in Seq(FillRows)
  <2>1. FillPrice(delta, q) \in Int
    BY FillPriceType
  <2>2. [order |-> who, delta |-> delta, price |-> FillPrice(delta, q)] \in FillRows
    BY <2>1 DEF FillRows
  <2>3. fills' = Append(fills, [order |-> who, delta |-> delta,
                                price |-> FillPrice(delta, q)])
    BY DEF Fill
  <2> QED
    BY <2>2, <2>3
<1> QED
  BY <1>1, <1>2, <1>3, <1>4

\* What an evaluation sees of the open position, and its verdict.
LEMMA EvaluationTypes ==
    ASSUME TypeOK, NEW q \in Quotes, NEW t \in 0..clock
    PROVE  /\ Evaluation(q, t).acct \in Accounts
           /\ Evaluation(q, t).daily \in [Days -> DailyRows]
           /\ Evaluation(q, t).reason \in ExitReasons
           /\ Evaluation(q, t).acct.qty = acct.qty
           /\ Evaluation(q, t).acct.snapshot = acct.snapshot
           /\ Evaluation(q, t).acct.exitReason = acct.exitReason
           /\ Evaluation(q, t).acct.exitSince = acct.exitSince
           /\ acct.exitReason # "none" => Evaluation(q, t).reason = acct.exitReason
<1>1. /\ acct \in Accounts /\ daily \in [Days -> DailyRows]
      /\ t \in Nat /\ t <= MaxClock /\ acct.cash \in Int
  <2>1. acct \in Accounts /\ daily \in [Days -> DailyRows] /\ clock \in 0..MaxClock
    BY DEF TypeOK
  <2>2. t \in Nat /\ t <= MaxClock
    BY <2>1, ConstantTypes
  <2>3. acct.cash \in Int
    BY <2>1 DEF Accounts
  <2> QED
    BY <2>1, <2>2, <2>3
<1> DEFINE valid == QuoteValid(q, t)
           worth == IF valid THEN Equity(acct, q) ELSE acct.cash
           seen == IF valid THEN Peaked(acct, q) ELSE acct
           d == EnsureDaily(acct, daily, t, worth, valid)
           reason == ExitReason(seen, q, t, d[DayOf(t)])
<1>2. valid \in BOOLEAN /\ worth \in Int
  BY <1>1, EquityTypes DEF QuoteValid, Quotes
<1>3. /\ seen \in Accounts /\ seen.qty = acct.qty /\ seen.snapshot = acct.snapshot
      /\ seen.exitReason = acct.exitReason /\ seen.exitSince = acct.exitSince
  BY <1>1, <1>2, ViewTypes
<1>4. d \in [Days -> DailyRows]
  BY <1>1, <1>2, EnsureDailyType
<1>5. /\ reason \in ExitReasons
      /\ acct.exitReason # "none" => reason = acct.exitReason
  <2>1. acct.exitReason \in ExitReasons
    BY <1>1 DEF Accounts
  <2> HIDE DEF seen, d, valid, worth
  <2>2. \A row : QuoteTrigger(seen, q, row) \in ExitReasons
    BY DEF QuoteTrigger, ExitReasons
  <2>3. TimeTrigger(seen, t) \in ExitReasons
    BY DEF TimeTrigger, ExitReasons
  <2>4. CASE acct.exitReason # "none"
    BY <1>3, <2>1, <2>4 DEF ExitReason
  <2>5. CASE acct.exitReason = "none"
    <3>1. "none" \in ExitReasons /\ "daily_loss" \in ExitReasons
      BY DEF ExitReasons
    <3> QED
      BY <1>3, <2>2, <2>3, <2>5, <3>1 DEF ExitReason
  <2> QED
    BY <2>4, <2>5
<1> HIDE DEF worth, valid, seen, d, reason
<1>6. Evaluation(q, t) = [acct |-> Valued(seen, worth, valid), daily |-> d, reason |-> reason]
  BY DEF Evaluation, worth, valid, seen, d, reason
<1>7. Valued(seen, worth, valid) \in Accounts
  BY <1>2, <1>3, ValuedType
<1> QED
  BY <1>2, <1>3, <1>4, <1>5, <1>6, <1>7, ViewTypes
-----------------------------------------------------------------------------
(***************************************************************************)
(* Type correctness                                                        *)
(***************************************************************************)
\* What a portfolio snapshot leaves.
LEMMA SnapshotTypes ==
    ASSUME TypeOK
    PROVE  /\ SnapshotDaily \in [Days -> DailyRows]
           /\ SnapshotAccount \in Accounts
           /\ SnapshotAccount.qty = acct.qty /\ SnapshotAccount.snapshot = acct.snapshot
           /\ SnapshotAccount.exitReason = acct.exitReason
           /\ SnapshotAccount.exitSince = acct.exitSince
           /\ SnapshotOrders \in [Orders -> OrderRows]
<1>1. /\ acct \in Accounts /\ daily \in [Days -> DailyRows] /\ quote \in Quotes
      /\ clock \in Nat /\ clock <= MaxClock /\ orders \in [Orders -> OrderRows]
  BY ConstantTypes DEF TypeOK
<1>2. SnapshotValid \in BOOLEAN
  BY DEF SnapshotValid, QuoteValid
<1>3. SnapshotEquity \in Int
  <2>1. acct.cash \in Int /\ Equity(acct, quote) \in Int
    BY <1>1, EquityTypes DEF Accounts
  <2> QED
    BY <2>1 DEF SnapshotEquity
<1>4. SnapshotDaily \in [Days -> DailyRows]
  BY <1>1, <1>2, <1>3, EnsureDailyType DEF SnapshotDaily
<1>5. /\ SnapshotAccount \in Accounts
      /\ SnapshotAccount.qty = acct.qty /\ SnapshotAccount.snapshot = acct.snapshot
      /\ SnapshotAccount.exitReason = acct.exitReason
      /\ SnapshotAccount.exitSince = acct.exitSince
  BY <1>1, <1>2, <1>3, ValuedType, ViewTypes DEF SnapshotAccount
<1>6. SnapshotOrders \in [Orders -> OrderRows]
  <2>1. Ended("cancelled") \in OrderRows
    BY <1>1, StatusTypes DEF Statuses
  <2> QED
    BY <1>1, <2>1 DEF SnapshotOrders
<1> QED
  BY <1>4, <1>5, <1>6

\* A target asks for a quantity within the volume limit.
LEMMA DesiredQuantityType ==
    ASSUME TypeOK, NEW o \in Orders, NEW q \in Quotes
    PROVE  /\ DesiredQuantity(acct, orders[o].weight, q) \in Holdings
           /\ Delta(acct, orders[o].weight, q) \in Int
           /\ acct.qty + Delta(acct, orders[o].weight, q)
                = DesiredQuantity(acct, orders[o].weight, q)
<1>1. orders[o].weight \in Int /\ acct \in Accounts /\ acct.qty \in Int
  BY ConstantTypes DEF TypeOK, OrderRows, Accounts, Holdings
<1>2. Equity(acct, q) \in Int /\ Mid2(q) \in Nat
  BY <1>1, EquityTypes, PriceTypes
<1>3. /\ DesiredQuantity(acct, orders[o].weight, q) \in Int
      /\ DesiredQuantity(acct, orders[o].weight, q) \in Holdings
  BY <1>1, <1>2, ConstantTypes, DesiredQuantityBounds DEF DesiredQuantity, Holdings
<1> QED
  BY <1>1, <1>3 DEF Delta

\* Statuses after an operation's prologue, and after an exit.
LEMMA AfterTypes ==
    ASSUME TypeOK, NEW t \in Nat
    PROVE  /\ AfterPrologue(t) \in [Orders -> Statuses]
           /\ AfterExit(t) \in [Orders -> Statuses]
           /\ [o \in Orders |-> Retired(o, t, FALSE)] \in [Orders -> Statuses]
           /\ orders \in [Orders -> OrderRows]
<1>1. orders \in [Orders -> OrderRows] /\ "cancelled" \in Statuses
  BY DEF TypeOK, Statuses
<1>2. \A o \in Orders, b \in BOOLEAN : Retired(o, t, b) \in Statuses
  BY <1>1, StatusTypes
<1> QED
  BY <1>1, <1>2 DEF AfterPrologue, AfterExit, Stopping

\* Order rows stay order rows under the updates the operations make.
LEMMA RowUpdates ==
    ASSUME NEW r \in OrderRows, NEW s \in Statuses
    PROVE  /\ [r EXCEPT !.status = s] \in OrderRows
           /\ \A x, y \in Nat :
                [r EXCEPT !.status = s, !.assessedAt = x, !.approvedUntil = y] \in OrderRows
           /\ \A w \in Int, x, y, z \in Nat :
                [r EXCEPT !.status = s, !.weight = w, !.basedOn = x, !.completedAt = y,
                          !.validUntil = z] \in OrderRows
<1>1. [r EXCEPT !.status = s] \in OrderRows
  BY DEF OrderRows
<1>2. \A x, y \in Nat :
        [r EXCEPT !.status = s, !.assessedAt = x, !.approvedUntil = y] \in OrderRows
  BY DEF OrderRows
<1>3. \A w \in Int, x, y, z \in Nat :
        [r EXCEPT !.status = s, !.weight = w, !.basedOn = x, !.completedAt = y,
                  !.validUntil = z] \in OrderRows
  BY DEF OrderRows
<1> QED
  BY <1>1, <1>2, <1>3

\* The ledger starts with its tables in order.
LEMMA InitType == Init => TypeOK
<1> SUFFICES ASSUME Init PROVE TypeOK
  OBVIOUS
<1>1. InitialAccount \in Accounts
  <2>1. 0 \in Holdings
    BY ConstantTypes DEF Holdings
  <2> QED
    BY <2>1, ConstantTypes DEF InitialAccount, Accounts, ExitReasons
<1>2. daily \in [Days -> DailyRows]
  <2>1. [d \in Days |-> Absent] \in [Days -> DailyRows]
    BY DEF Absent, DailyRows
  <2>2. 0 \in Nat /\ 0 <= MaxClock /\ InitialCash \in Int
    BY ConstantTypes
  <2>3. EnsureDaily(InitialAccount, [d \in Days |-> Absent], 0, InitialCash, TRUE)
          \in [Days -> DailyRows]
    BY <1>1, <2>1, <2>2, EnsureDailyType
  <2> QED
    BY <2>3 DEF Init
<1>3. NoOrder \in OrderRows /\ NoQuote \in Quotes
  BY DEF NoOrder, OrderRows, Statuses, NoQuote, Quotes
<1>4. Idle \in [phase : {"idle", "exit", "fill"}, quote : Quotes, since : 0..MaxClock]
  BY <1>3, ConstantTypes DEF Idle
<1>5. fills \in Seq(FillRows)
  BY DEF Init
<1>6. orders \in [Orders -> OrderRows] /\ quote \in Quotes /\ clock \in 0..MaxClock
  BY <1>3, ConstantTypes DEF Init
<1>7. call \in [Workers -> [phase : {"idle", "exit", "fill"}, quote : Quotes,
                            since : 0..MaxClock]]
  BY <1>4 DEF Init
<1>8. stop \in {"none", "pause", "halt"} /\ killSwitch \in BOOLEAN /\ acct \in Accounts
  BY <1>1, ConstantTypes DEF Init
<1> QED
  BY <1>2, <1>5, <1>6, <1>7, <1>8 DEF TypeOK

\* Time, the market, the operator.
LEMMA EnvironmentType == ASSUME TypeOK, Environment PROVE TypeOK'
<1>1. CASE Tick
  BY <1>1, ConstantTypes DEF Tick, TypeOK
<1>2. ASSUME NEW q \in Quotes, Publish(q) PROVE TypeOK'
  BY <1>2 DEF Publish, TypeOK
<1>3. NoQuote \in Quotes /\ \A bid \in Bids : [at |-> clock, bid |-> bid, good |-> TRUE] \in Quotes
  <2>1. clock \in Nat /\ \A bid \in Bids : bid \in Nat
    BY ConstantTypes DEF TypeOK
  <2> QED
    BY <2>1 DEF NoQuote, Quotes
<1>4. CASE Halt \/ Pause \/ Resume
  BY <1>4 DEF Halt, Pause, Resume, TypeOK
<1>5. CASE Restart
  <2>1. killSwitch' \in BOOLEAN
    BY <1>5, ConstantTypes DEF Restart
  <2>2. Idle \in [phase : {"idle", "exit", "fill"}, quote : Quotes, since : 0..MaxClock]
    BY <1>3, ConstantTypes DEF Idle
  <2>3. orders' \in [Orders -> OrderRows]
    <3>1. \A o \in Orders : [orders[o] EXCEPT !.status = "decided"] \in OrderRows
      BY RowUpdates, Zenon DEF TypeOK, Statuses
    <3> QED
      BY <1>5, <3>1, SMTT(25) DEF Restart, TypeOK
  <2> QED
    BY <1>5, <2>1, <2>2, <2>3 DEF Restart, TypeOK
<1> QED
  BY <1>1, <1>2, <1>3, <1>4, <1>5 DEF Environment

\* A decision leaves the tables in order.
LEMMA DecideType ==
    ASSUME TypeOK, NEW o \in Orders, NEW w \in Weights, Decide(o, w) PROVE TypeOK'
<1> DEFINE row == [NoOrder EXCEPT !.status = "decided", !.weight = w,
                                  !.basedOn = acct.snapshot, !.completedAt = clock,
                                  !.validUntil = clock + DecisionTTL]
<1>1. acct.snapshot \in Nat /\ clock \in Nat /\ w \in Int
  BY ConstantTypes DEF TypeOK, Accounts
<1>2. row \in OrderRows
  <2>1. NoOrder \in OrderRows /\ "decided" \in Statuses
    BY DEF NoOrder, OrderRows, Statuses
  <2>2. clock + DecisionTTL \in Nat
    BY <1>1, ConstantTypes
  <2> QED
    BY <1>1, <2>1, <2>2, RowUpdates, Zenon
<1> HIDE DEF row
<1>3. orders' = [SnapshotOrders EXCEPT ![o] = row]
  BY DEF Decide, row
<1> QED
  BY <1>2, <1>3, SnapshotTypes DEF Decide, TypeOK

\* So does an assessment,
LEMMA AssessType == ASSUME TypeOK, NEW o \in Orders, Assess(o) PROVE TypeOK'
<1>1. clock \in Nat /\ orders \in [Orders -> OrderRows]
  BY ConstantTypes DEF TypeOK
<1>2. SnapshotOrders[o] \in OrderRows /\ Ended("refused") \in OrderRows
  BY <1>1, SnapshotTypes, StatusTypes DEF Statuses
<1>3. [SnapshotOrders[o] EXCEPT !.status = "approved", !.assessedAt = clock,
                                !.approvedUntil = clock + AssessmentTTL] \in OrderRows
  <2>1. clock + AssessmentTTL \in Nat /\ "approved" \in Statuses
    BY <1>1, ConstantTypes DEF Statuses
  <2> QED
    BY <1>1, <1>2, <2>1, RowUpdates, Zenon
<1>4. orders' \in [Orders -> OrderRows]
  BY <1>2, <1>3, SnapshotTypes DEF Assess
<1> QED
  BY <1>4, SnapshotTypes DEF Assess, TypeOK

\* the recording of an order,
LEMMA RecordType ==
    ASSUME TypeOK, NEW o \in Orders, NEW t \in 0..clock, Record(o, t) PROVE TypeOK'
<1>1. t \in Nat /\ orders \in [Orders -> OrderRows]
  BY ConstantTypes DEF TypeOK
<1>2. WithStatus(AfterPrologue(t)) \in [Orders -> OrderRows]
  BY <1>1, AfterTypes, StatusTypes
<1>3. Ended("rejected") \in OrderRows
  BY <1>1, StatusTypes DEF Statuses
<1>4. [orders[o] EXCEPT !.status = "pending", !.assessedAt = 0, !.recordedAt = t]
        \in OrderRows
  BY <1>1 DEF OrderRows, Statuses
<1>5. orders' \in [Orders -> OrderRows]
  BY <1>2, <1>3, <1>4 DEF Record
<1> QED
  BY <1>5 DEF Record, TypeOK

\* an evaluation of protective exits,
LEMMA EvaluateType ==
    ASSUME TypeOK, NEW w \in Workers, NEW t \in 0..clock, Evaluate(w, t) PROVE TypeOK'
<1> DEFINE q == call[w].quote
           Calls == [phase : {"idle", "exit", "fill"}, quote : Quotes, since : 0..MaxClock]
<1>1. /\ q \in Quotes /\ t \in Nat /\ t \in 0..MaxClock /\ acct \in Accounts
      /\ call \in [Workers -> Calls] /\ fills \in Seq(FillRows)
  BY ConstantTypes DEF TypeOK
<1>2. call' \in [Workers -> Calls]
  <2>1. Idle \in Calls
    BY ConstantTypes DEF Idle, NoQuote, Quotes
  <2> QED
    BY <1>1, <2>1 DEF Evaluate, Leave
<1>3. /\ WithStatus(AfterExit(t)) \in [Orders -> OrderRows]
      /\ WithStatus([o \in Orders |-> Retired(o, t, FALSE)]) \in [Orders -> OrderRows]
  BY <1>1, AfterTypes, StatusTypes
<1>4. /\ acct' \in Accounts /\ daily' \in [Days -> DailyRows]
      /\ orders' \in [Orders -> OrderRows] /\ fills' \in Seq(FillRows)
  <2>1. CASE EvaluateFlat(t)
    <3>1. acct' \in Accounts
      BY <1>1, <2>1 DEF EvaluateFlat, Accounts, ExitReasons
    <3> QED
      BY <1>3, <2>1, <3>1 DEF EvaluateFlat, TypeOK
  <2>2. CASE EvaluateQuiet(q, t)
    BY <1>1, <1>3, <2>2, EvaluationTypes DEF EvaluateQuiet
  <2>3. CASE EvaluateExit(q, t)
    <3> DEFINE ev == Evaluation(q, t)
    <3>1. /\ ev.acct \in Accounts /\ ev.daily \in [Days -> DailyRows]
          /\ ev.reason \in ExitReasons /\ ev.acct.qty = acct.qty
      BY <1>1, EvaluationTypes
    <3>2. orders' \in [Orders -> OrderRows]
      BY <1>3, <2>3 DEF EvaluateExit
    <3>3. CASE /\ acct' = [ev.acct EXCEPT
                             !.exitReason = ev.reason,
                             !.exitSince = IF acct.exitReason = "none" THEN t ELSE @]
               /\ daily' = ev.daily
               /\ UNCHANGED fills
      <4> HIDE DEF ev
      <4>1. acct' \in Accounts
        BY <1>1, <3>1, <3>3 DEF Accounts
      <4> QED
        BY <1>1, <3>1, <3>2, <3>3, <4>1
    <3>4. CASE Fill(ev.acct, ev.daily, -acct.qty, q, t, "exit")
      <4>1. acct.qty \in Int /\ -acct.qty \in Int /\ 0 \in Holdings
        BY <1>1, HoldingsType DEF Accounts
      <4>2. ev.acct.qty + (-acct.qty) \in Holdings
        BY <3>1, <4>1
      <4> HIDE DEF ev
      <4> QED
        BY <1>1, <3>1, <3>2, <3>4, <4>1, <4>2, FillTypes, SMTT(25)
    <3> QED
      BY <2>3, <3>3, <3>4 DEF EvaluateExit
  <2> QED
    BY <2>1, <2>2, <2>3 DEF Evaluate
<1> QED
  BY <1>2, <1>4 DEF Evaluate, TypeOK

\* an attempt to fill,
LEMMA FillPendingType ==
    ASSUME TypeOK, NEW w \in Workers, NEW t \in 0..clock, FillPending(w, t) PROVE TypeOK'
<1> DEFINE q == call[w].quote
           Calls == [phase : {"idle", "exit", "fill"}, quote : Quotes, since : 0..MaxClock]
<1>1. /\ q \in Quotes /\ t \in Nat /\ t <= MaxClock /\ t \in 0..MaxClock
      /\ acct \in Accounts /\ daily \in [Days -> DailyRows]
      /\ call \in [Workers -> Calls] /\ fills \in Seq(FillRows)
  BY ConstantTypes DEF TypeOK
<1>2. call' \in [Workers -> Calls]
  <2>1. Idle \in Calls
    BY ConstantTypes DEF Idle, NoQuote, Quotes
  <2> QED
    BY <1>1, <2>1 DEF FillPending, Leave
<1>3. /\ acct' \in Accounts /\ daily' \in [Days -> DailyRows]
      /\ orders' \in [Orders -> OrderRows] /\ fills' \in Seq(FillRows)
  <2>1. CASE FillNothing(q, t)
    BY <1>1, <2>1, AfterTypes, StatusTypes DEF FillNothing
  <2>2. ASSUME NEW o \in Orders, FillOne(o, q, t)
        PROVE  /\ acct' \in Accounts /\ daily' \in [Days -> DailyRows]
               /\ orders' \in [Orders -> OrderRows] /\ fills' \in Seq(FillRows)
    <3> DEFINE a == Valued(acct, Equity(acct, q), TRUE)
               d == EnsureDaily(acct, daily, t, Equity(acct, q), TRUE)
               outcome == Outcome(o, q, t, d[DayOf(t)])
    <3>1. Equity(acct, q) \in Int
      BY <1>1, EquityTypes
    <3>2. a \in Accounts /\ a.qty = acct.qty /\ d \in [Days -> DailyRows]
      BY <1>1, <3>1, ValuedType, ViewTypes, EnsureDailyType
    <3>3. outcome \in Statuses
      BY DEF Outcome, Statuses
    <3>4. orders' \in [Orders -> OrderRows]
      <4>1. AfterAttempt(o, t, outcome) \in [Orders -> Statuses]
        BY <1>1, <3>3, AfterTypes DEF AfterAttempt
      <4> HIDE DEF outcome
      <4>2. orders' = WithStatus(AfterAttempt(o, t, outcome))
        BY <2>2 DEF FillOne, outcome
      <4> QED
        BY <1>1, <4>1, <4>2, AfterTypes, StatusTypes
    <3>5. CASE outcome = "filled"
      <4>1. Fill(a, d, Delta(acct, orders[o].weight, q), q, t, o)
        BY <2>2, <3>5 DEF FillOne
      <4>2. /\ Delta(acct, orders[o].weight, q) \in Int
            /\ a.qty + Delta(acct, orders[o].weight, q) \in Holdings
        BY <1>1, <3>2, DesiredQuantityType
      <4> HIDE DEF a, d
      <4> QED
        BY <1>1, <3>2, <3>4, <4>1, <4>2, FillTypes
    <3>6. CASE outcome # "filled"
      <4>1. acct' \in {acct, a} /\ daily' \in {daily, d} /\ fills' = fills
        BY <2>2, <3>6 DEF FillOne
      <4> QED
        BY <1>1, <3>2, <3>4, <4>1
    <3> QED
      BY <3>5, <3>6
  <2> QED
    BY <2>1, <2>2 DEF FillPending
<1> QED
  BY <1>2, <1>3 DEF FillPending, TypeOK

\* and hence every step.
LEMMA NextType == ASSUME TypeOK, [Next]_vars PROVE TypeOK'
<1>1. CASE Environment
  BY <1>1, EnvironmentType
<1>2. CASE EventWorker
  BY <1>2, DecideType, AssessType, RecordType DEF EventWorker
<1>3. CASE ExpireOrders
  <2>1. clock \in Nat
    BY ConstantTypes DEF TypeOK
  <2> QED
    BY <1>3, <2>1, AfterTypes, StatusTypes DEF ExpireOrders, TypeOK
<1>4. ASSUME NEW w \in Workers, LedgerWorker(w) PROVE TypeOK'
  <2>1. CASE Read(w)
    BY <2>1, ConstantTypes DEF Read, TypeOK
  <2>2. CASE Abandon(w)
    <3>1. Idle \in [phase : {"idle", "exit", "fill"}, quote : Quotes, since : 0..MaxClock]
      BY ConstantTypes DEF Idle, NoQuote, Quotes
    <3> QED
      BY <2>2, <3>1 DEF Abandon, TypeOK
  <2> QED
    BY <1>4, <2>1, <2>2, EvaluateType, FillPendingType DEF LedgerWorker
<1>5. CASE Shutdown
  <2>1. CASE CancelOnStop
    BY <2>1, SnapshotTypes DEF CancelOnStop, TypeOK
  <2>2. ASSUME NEW r \in {"runner_stop", "unclosed"}, RequestExit(r) PROVE TypeOK'
    <3>1. clock \in Nat /\ r \in ExitReasons
      BY ConstantTypes DEF TypeOK, ExitReasons
    <3> QED
      BY <2>2, <3>1 DEF RequestExit, TypeOK, Accounts
  <2> QED
    BY <1>5, <2>1, <2>2 DEF Shutdown
<1>6. CASE UNCHANGED vars
  BY <1>6 DEF vars, TypeOK
<1> QED
  BY <1>1, <1>2, <1>3, <1>4, <1>5, <1>6 DEF Next

\* Every row keeps its type and the position never exceeds the volume limit,
\* whatever targets, prices, stops and restarts do.
THEOREM TypeCorrect == Spec => []TypeOK
<1>1. Init => TypeOK
  BY InitType
<1>2. TypeOK /\ [Next]_vars => TypeOK'
  BY NextType
<1> QED
  BY <1>1, <1>2, PTL DEF Spec
-----------------------------------------------------------------------------
(***************************************************************************)
(* The pending order                                                       *)
(***************************************************************************)
\* Orders only leave the pending state, and the pending ones stay as they are.
OnlyRetires ==
    \A o \in Orders : orders'[o].status = "pending" =>
        orders[o].status = "pending" /\ orders'[o].basedOn = orders[o].basedOn

\* Such a step keeps the invariant if the account shows the same portfolio.
LEMMA RetiringKeepsCurrent ==
    ASSUME PendingOrderIsCurrent, OnlyRetires, acct'.snapshot = acct.snapshot
    PROVE  PendingOrderIsCurrent'
BY DEF PendingOrderIsCurrent, OnlyRetires, Pending

\* An update that leaves pending only what was pending retires.
LEMMA WithStatusRetires ==
    ASSUME TypeOK, NEW f \in [Orders -> Statuses],
           \A o \in Orders : f[o] = "pending" => o \in Pending,
           orders' = WithStatus(f)
    PROVE  /\ OnlyRetires
           /\ \A o \in Orders : orders'[o].status = f[o]
<1>1. orders \in [Orders -> OrderRows]
  BY DEF TypeOK
<1>2. \A o \in Orders : orders'[o] = IF f[o] \in Live
                                    THEN [orders[o] EXCEPT !.status = f[o]] ELSE Ended(f[o])
  BY DEF WithStatus
<1>3. \A o \in Orders : Ended(f[o]).status = f[o]
  BY DEF Ended, NoOrder
<1>4. \A o \in Orders : /\ [orders[o] EXCEPT !.status = f[o]].status = f[o]
                        /\ [orders[o] EXCEPT !.status = f[o]].basedOn = orders[o].basedOn
  BY <1>1 DEF OrderRows
<1> QED
  BY <1>2, <1>3, <1>4, ZenonT(40) DEF OnlyRetires, Pending, Live

\* A prologue, or an exit, leaves pending only what was pending.
LEMMA PrologueRetires ==
    ASSUME NEW t
    PROVE  /\ \A o \in Orders, b \in BOOLEAN : Retired(o, t, b) = "pending" => o \in Pending
           /\ \A o \in Orders : AfterPrologue(t)[o] = "pending" => o \in Pending
           /\ \A o \in Orders : AfterExit(t)[o] # "pending"
<1>1. \A o \in Orders, b \in BOOLEAN : Retired(o, t, b) = "pending" => o \in Pending
  BY DEF Retired, Pending
<1> QED
  BY <1>1 DEF AfterPrologue, AfterExit, Stopping

\* What is pending after a snapshot was pending before, unchanged.
LEMMA SnapshotRetires ==
    ASSUME NEW o \in Orders, SnapshotOrders[o].status = "pending"
    PROVE  o \in Pending /\ SnapshotOrders[o] = orders[o]
<1>1. Ended("cancelled").status = "cancelled"
  BY DEF Ended, NoOrder
<1> QED
  BY <1>1 DEF SnapshotOrders, Pending

\* The event worker records an order only on the portfolio shown, with none pending.
LEMMA EventWorkerKeepsCurrent ==
    ASSUME TypeOK, PendingOrderIsCurrent, EventWorker
    PROVE  PendingOrderIsCurrent'
<1>1. ASSUME NEW o \in Orders, NEW w \in Weights, Decide(o, w)
      PROVE  PendingOrderIsCurrent'
  <2>1. acct'.snapshot = acct.snapshot
    BY <1>1, SnapshotTypes DEF Decide
  <2>2. \A p \in Orders : orders'[p].status = "pending" => orders'[p] = SnapshotOrders[p]
    BY <1>1, SnapshotTypes DEF Decide, NoOrder
  <2> QED
    BY <2>1, <2>2, SnapshotRetires, RetiringKeepsCurrent DEF OnlyRetires, Pending
<1>2. ASSUME NEW o \in Orders, Assess(o) PROVE PendingOrderIsCurrent'
  <2>1. acct'.snapshot = acct.snapshot
    BY <1>2, SnapshotTypes DEF Assess
  <2>2. \A p \in Orders : p # o => orders'[p] = SnapshotOrders[p]
    BY <1>2, SnapshotTypes DEF Assess
  <2>3. orders'[o].status # "pending"
    BY <1>2, SnapshotTypes DEF Assess, Ended, NoOrder, OrderRows
  <2> QED
    BY <2>1, <2>2, <2>3, SnapshotRetires, RetiringKeepsCurrent DEF OnlyRetires, Pending
<1>3. ASSUME NEW o \in Orders, NEW t \in 0..clock, Record(o, t) PROVE PendingOrderIsCurrent'
  <2> DEFINE after == WithStatus(AfterPrologue(t))
  <2>1. t \in Nat /\ orders \in [Orders -> OrderRows] /\ acct' = acct
    BY <1>3, ConstantTypes DEF TypeOK, Record
  <2>2. AfterPrologue(t) \in [Orders -> Statuses]
    BY <2>1, AfterTypes
  <2>3. \A p \in Orders : after[p].status = AfterPrologue(t)[p]
    BY <2>1 DEF WithStatus, Ended, NoOrder, OrderRows
  <2>4. \A p \in Orders : after[p].status = "pending" =>
           orders[p].status = "pending" /\ after[p].basedOn = orders[p].basedOn
    BY <2>1, <2>3, PrologueRetires DEF WithStatus, OrderRows, Live, Pending
  <2>5. \A p \in Orders : p # o => orders'[p] = after[p]
    BY <1>3 DEF Record, WithStatus
  <2>6. CASE Recordable(o, t)
    <3>1. \A p \in Orders : p # o => orders'[p].status # "pending"
      BY <2>3, <2>5, <2>6 DEF Recordable
    <3>2. orders'[o].basedOn = acct.snapshot
      BY <1>3, <2>1, <2>6 DEF Record, Recordable, WithStatus, OrderRows
    <3> QED
      BY <2>1, <3>1, <3>2 DEF PendingOrderIsCurrent, Pending
  <2>7. CASE ~Recordable(o, t)
    <3>1. orders'[o].status # "pending"
      BY <1>3, <2>7 DEF Record, WithStatus, Ended, NoOrder
    <3> QED
      BY <2>1, <2>4, <2>5, <3>1, RetiringKeepsCurrent DEF OnlyRetires
  <2> QED
    BY <2>6, <2>7
<1> QED
  BY <1>1, <1>2, <1>3 DEF EventWorker

\* Protective exits change the portfolio only while no order stays pending.
LEMMA EvaluateKeepsCurrent ==
    ASSUME TypeOK, PendingOrderIsCurrent, NEW w \in Workers, NEW t \in 0..clock,
           Evaluate(w, t)
    PROVE  PendingOrderIsCurrent'
<1> DEFINE q == call[w].quote
           kept == [o \in Orders |-> Retired(o, t, FALSE)]
<1>1. q \in Quotes /\ t \in Nat /\ acct \in Accounts
  BY ConstantTypes DEF TypeOK
<1>2. kept \in [Orders -> Statuses] /\ AfterExit(t) \in [Orders -> Statuses]
  BY <1>1, AfterTypes
<1>3. \A o \in Orders : kept[o] = "pending" => o \in Pending
  BY PrologueRetires
<1>4. CASE EvaluateFlat(t)
  <2>1. acct'.snapshot = acct.snapshot
    BY <1>1, <1>4 DEF EvaluateFlat, Accounts
  <2>2. OnlyRetires
    BY <1>2, <1>3, <1>4, WithStatusRetires DEF EvaluateFlat
  <2> QED
    BY <2>1, <2>2, RetiringKeepsCurrent
<1>5. CASE EvaluateQuiet(q, t)
  <2>1. acct'.snapshot = acct.snapshot
    BY <1>1, <1>5, EvaluationTypes DEF EvaluateQuiet
  <2>2. OnlyRetires
    BY <1>2, <1>3, <1>5, WithStatusRetires DEF EvaluateQuiet
  <2> QED
    BY <2>1, <2>2, RetiringKeepsCurrent
<1>6. CASE EvaluateExit(q, t)
  <2>1. orders' = WithStatus(AfterExit(t))
    BY <1>6 DEF EvaluateExit
  <2>2. \A o \in Orders : orders'[o].status # "pending"
    BY <1>2, <2>1, PrologueRetires, WithStatusRetires
  <2> QED
    BY <2>2 DEF PendingOrderIsCurrent, Pending
<1> QED
  BY <1>4, <1>5, <1>6 DEF Evaluate

\* A fill leaves no order pending on the portfolio it has changed.
LEMMA FillPendingKeepsCurrent ==
    ASSUME TypeOK, PendingOrderIsCurrent, NEW w \in Workers, NEW t \in 0..clock,
           FillPending(w, t)
    PROVE  PendingOrderIsCurrent'
<1> DEFINE q == call[w].quote
<1>1. q \in Quotes /\ t \in Nat /\ acct \in Accounts
  BY ConstantTypes DEF TypeOK
<1>2. AfterPrologue(t) \in [Orders -> Statuses]
  BY <1>1, AfterTypes
<1>3. CASE FillNothing(q, t)
  <2>1. OnlyRetires
    BY <1>2, <1>3, PrologueRetires, WithStatusRetires DEF FillNothing
  <2> QED
    BY <1>3, <2>1, RetiringKeepsCurrent DEF FillNothing
<1>4. ASSUME NEW o \in Orders, FillOne(o, q, t) PROVE PendingOrderIsCurrent'
  <2> DEFINE d == EnsureDaily(acct, daily, t, Equity(acct, q), TRUE)
             outcome == Outcome(o, q, t, d[DayOf(t)])
  <2>1. o \in Pending
    BY <1>4, PrologueRetires DEF FillOne, Survivors, Stopping
  <2>2. outcome \in {"cancelled", "rejected", "filled"}
    BY DEF Outcome
  <2>3. orders' = WithStatus(AfterAttempt(o, t, outcome))
    BY <1>4 DEF FillOne
  <2> HIDE DEF outcome
  <2>4. AfterAttempt(o, t, outcome) \in [Orders -> Statuses]
    BY <1>2, <2>2 DEF AfterAttempt, Statuses
  <2>5. \A p \in Orders : AfterAttempt(o, t, outcome)[p] = "pending" => p \in Pending
    BY <1>2, <2>2, PrologueRetires DEF AfterAttempt
  <2>6. OnlyRetires /\ \A p \in Orders : orders'[p].status = AfterAttempt(o, t, outcome)[p]
    BY <2>3, <2>4, <2>5, WithStatusRetires
  <2>7. orders'[o].status # "pending"
    BY <1>2, <2>2, <2>6 DEF AfterAttempt
  <2>8. \A p \in Orders : orders'[p].status # "pending"
    BY <2>1, <2>6, <2>7 DEF OnlyRetires, PendingOrderIsCurrent, Pending
  <2> QED
    BY <2>8 DEF PendingOrderIsCurrent, Pending
<1> QED
  BY <1>3, <1>4 DEF FillPending

\* At every time at most one order is pending, and it was decided on the portfolio
\* the account still shows, for any number of workers and orders.
THEOREM PendingOrderStaysCurrent == Spec => []PendingOrderIsCurrent
<1>1. Init => PendingOrderIsCurrent
  BY DEF Init, NoOrder, PendingOrderIsCurrent, Pending
<1>2. TypeOK /\ PendingOrderIsCurrent /\ [Next]_vars => PendingOrderIsCurrent'
  <2> SUFFICES ASSUME TypeOK, PendingOrderIsCurrent, [Next]_vars
               PROVE  PendingOrderIsCurrent'
    OBVIOUS
  <2>1. CASE Environment
    <3>1. acct' = acct
      BY <2>1 DEF Environment, Tick, Publish, Halt, Pause, Resume, Restart
    <3>2. OnlyRetires
      <4>1. CASE Restart
        BY <4>1 DEF Restart, OnlyRetires, TypeOK, OrderRows
      <4>2. CASE ~Restart
        BY <2>1, <4>2 DEF Environment, Tick, Publish, Halt, Pause, Resume, OnlyRetires
      <4> QED
        BY <4>1, <4>2
    <3> QED
      BY <3>1, <3>2, RetiringKeepsCurrent
  <2>2. CASE EventWorker
    BY <2>2, EventWorkerKeepsCurrent
  <2>3. CASE ExpireOrders
    <3>1. clock \in Nat
      BY ConstantTypes DEF TypeOK
    <3>2. OnlyRetires
      BY <2>3, <3>1, AfterTypes, PrologueRetires, WithStatusRetires DEF ExpireOrders
    <3> QED
      BY <2>3, <3>2, RetiringKeepsCurrent DEF ExpireOrders
  <2>4. ASSUME NEW w \in Workers, LedgerWorker(w) PROVE PendingOrderIsCurrent'
    <3>1. CASE Read(w) \/ Abandon(w)
      BY <3>1 DEF Read, Abandon, PendingOrderIsCurrent, Pending
    <3> QED
      BY <2>4, <3>1, EvaluateKeepsCurrent, FillPendingKeepsCurrent DEF LedgerWorker
  <2>5. CASE Shutdown
    <3>1. CASE CancelOnStop
      BY <3>1, SnapshotRetires, RetiringKeepsCurrent
         DEF CancelOnStop, OnlyRetires, Pending
    <3>2. ASSUME NEW r \in {"runner_stop", "unclosed"}, RequestExit(r)
          PROVE  PendingOrderIsCurrent'
      <4>1. acct'.snapshot = acct.snapshot
        BY <3>2 DEF RequestExit, TypeOK, Accounts
      <4> QED
        BY <3>2, <4>1 DEF RequestExit, PendingOrderIsCurrent, Pending
    <3> QED
      BY <2>5, <3>1, <3>2 DEF Shutdown
  <2>6. CASE UNCHANGED vars
    BY <2>6 DEF vars, PendingOrderIsCurrent, Pending
  <2> QED
    BY <2>1, <2>2, <2>3, <2>4, <2>5, <2>6 DEF Next
<1> QED
  BY <1>1, <1>2, TypeCorrect, PTL DEF Spec
-----------------------------------------------------------------------------
(***************************************************************************)
(* How the position moves                                                  *)
(***************************************************************************)
\* A fill changes the quantity by its delta and keeps an exit request unless the
\* position is closed.
LEMMA ApplyDeltaFields ==
    ASSUME NEW a, NEW delta, NEW q, NEW t
    PROVE  LET b == ApplyDelta(a, delta, q, t)
           IN  /\ b.qty = a.qty + delta
               /\ b.snapshot = a.snapshot + 1
               /\ b.exitReason = IF b.qty = 0 THEN "none" ELSE a.exitReason
               /\ b.exitSince = IF b.qty = 0 THEN 0 ELSE a.exitSince
BY DEF ApplyDelta

\* An attempt to fill order o leaves the position alone, or takes it to the
\* quantity the target asks for; if that increases risk, nothing stood against it.
LEMMA FillOneMoves ==
    ASSUME TypeOK, NEW o \in Orders, NEW q \in Quotes, NEW t \in 0..clock, FillOne(o, q, t)
    PROVE  \/ /\ acct'.qty = acct.qty
              /\ acct'.exitReason = acct.exitReason /\ acct'.exitSince = acct.exitSince
           \/ /\ acct'.qty = DesiredQuantity(acct, orders[o].weight, q)
              /\ acct'.exitReason = IF acct'.qty = 0 THEN "none" ELSE acct.exitReason
              /\ acct'.exitSince = IF acct'.qty = 0 THEN 0 ELSE acct.exitSince
              /\ TargetIncreasesRisk(acct, orders[o].weight, q) =>
                   /\ ~Stopping /\ ~killSwitch /\ acct.exitReason = "none"
                   /\ ~InCloseWindow(t) /\ ~daily[DayOf(t)].hit
<1> DEFINE e == Equity(acct, q)
           a == Valued(acct, e, TRUE)
           d == EnsureDaily(acct, daily, t, e, TRUE)
           outcome == Outcome(o, q, t, d[DayOf(t)])
           delta == Delta(acct, orders[o].weight, q)
<1>1. /\ acct \in Accounts /\ daily \in [Days -> DailyRows] /\ fills \in Seq(FillRows)
      /\ t \in Nat /\ t <= MaxClock /\ e \in Int
  <2>1. acct \in Accounts /\ daily \in [Days -> DailyRows] /\ fills \in Seq(FillRows)
    BY DEF TypeOK
  <2>2. t \in Nat /\ t <= MaxClock
    BY ConstantTypes DEF TypeOK
  <2> QED
    BY <2>1, <2>2, EquityTypes
<1>2. /\ a \in Accounts /\ a.qty = acct.qty
      /\ a.exitReason = acct.exitReason /\ a.exitSince = acct.exitSince
  BY <1>1, ValuedType, ViewTypes
<1>3. CASE outcome = "filled"
  <2>1. Fill(a, d, delta, q, t, o)
    BY <1>3 DEF FillOne
  <2>2. acct' = ApplyDelta(a, delta, q, t)
    BY <2>1 DEF Fill
  <2>3. acct.qty + delta = DesiredQuantity(acct, orders[o].weight, q)
    BY DesiredQuantityType
  <2>4. /\ acct'.qty = DesiredQuantity(acct, orders[o].weight, q)
        /\ acct'.exitReason = IF acct'.qty = 0 THEN "none" ELSE acct.exitReason
        /\ acct'.exitSince = IF acct'.qty = 0 THEN 0 ELSE acct.exitSince
    <3> HIDE DEF a, delta
    <3>1. acct'.qty = a.qty + delta
      BY <2>2, ApplyDeltaFields
    <3>2. /\ acct'.exitReason = IF acct'.qty = 0 THEN "none" ELSE a.exitReason
          /\ acct'.exitSince = IF acct'.qty = 0 THEN 0 ELSE a.exitSince
      BY <2>2, ApplyDeltaFields
    <3> QED
      BY <1>2, <2>3, <3>1, <3>2
  <2>5. ASSUME TargetIncreasesRisk(acct, orders[o].weight, q)
        PROVE  ~Stopping /\ ~FillGuardFails(o, q, t, d[DayOf(t)])
    BY <1>3, <2>5 DEF Outcome
  <2>6. d[DayOf(t)].hit = (daily[DayOf(t)].hit \/ d[DayOf(t)].hit)
    <3>1. DayOf(t) \in Days
      BY <1>1, DayOfType
    <3>2. d[DayOf(t)] = EnsureDailyRow(acct, daily, DayOf(t), e, TRUE)
      BY <1>1, <3>1 DEF EnsureDaily
    <3>3. daily[DayOf(t)].hit => EnsureDailyRow(acct, daily, DayOf(t), e, TRUE).hit
      BY DEF EnsureDailyRow
    <3>4. /\ daily[DayOf(t)].hit \in BOOLEAN
          /\ EnsureDailyRow(acct, daily, DayOf(t), e, TRUE).hit \in BOOLEAN
      BY <1>1, <3>1 DEF EnsureDailyRow, DailyRows
    <3> QED
      BY <3>2, <3>3, <3>4
  <2> QED
    BY <2>4, <2>5, <2>6 DEF FillGuardFails
<1>4. CASE outcome # "filled"
  <2>1. acct' \in {acct, a}
    BY <1>4 DEF FillOne
  <2> QED
    BY <1>2, <2>1
<1> QED
  BY <1>3, <1>4

\* Only the fill of an order moves the position to anything but flat, and every
\* other step keeps an exit that is due.
LEMMA OtherStepsKeepPosition ==
    ASSUME TypeOK, [Next]_vars, acct'.qty # 0,
           \A w \in Workers, t \in 0..clock, o \in Orders :
              ~(FillPending(w, t) /\ FillOne(o, call[w].quote, t))
    PROVE  /\ acct'.qty = acct.qty
           /\ acct.exitReason # "none" =>
                acct'.exitReason = acct.exitReason /\ acct'.exitSince = acct.exitSince
<1>1. acct \in Accounts
  BY DEF TypeOK
<1>2. CASE Environment
  BY <1>2, SMTT(25) DEF Environment, Tick, Publish, Halt, Pause, Resume, Restart
<1>3. CASE EventWorker
  BY <1>3, SnapshotTypes DEF EventWorker, Decide, Assess, Record
<1>4. CASE ExpireOrders
  BY <1>4 DEF ExpireOrders
<1>5. ASSUME NEW w \in Workers, LedgerWorker(w)
      PROVE  /\ acct'.qty = acct.qty
             /\ acct.exitReason # "none" =>
                  acct'.exitReason = acct.exitReason /\ acct'.exitSince = acct.exitSince
  <2> DEFINE q == call[w].quote
  <2>1. CASE Read(w) \/ Abandon(w)
    BY <2>1 DEF Read, Abandon
  <2>2. ASSUME NEW t \in 0..clock, Evaluate(w, t)
        PROVE  /\ acct'.qty = acct.qty
               /\ acct.exitReason # "none" =>
                    acct'.exitReason = acct.exitReason /\ acct'.exitSince = acct.exitSince
    <3>1. q \in Quotes
      BY DEF TypeOK
    <3>2. CASE EvaluateFlat(t)
      BY <1>1, <3>2 DEF EvaluateFlat, Open, Accounts
    <3>3. CASE EvaluateQuiet(q, t)
      BY <3>1, <3>3, EvaluationTypes DEF EvaluateQuiet
    <3>4. CASE EvaluateExit(q, t)
      <4> DEFINE ev == Evaluation(q, t)
      <4>1. /\ ev.acct \in Accounts /\ ev.acct.qty = acct.qty /\ acct.qty \in Int
            /\ ev.acct.exitSince = acct.exitSince
            /\ acct.exitReason # "none" => ev.reason = acct.exitReason
        BY <1>1, <3>1, EvaluationTypes, HoldingsType DEF Accounts
      <4>2. CASE acct' = [ev.acct EXCEPT
                            !.exitReason = ev.reason,
                            !.exitSince = IF acct.exitReason = "none" THEN t ELSE @]
        <5> HIDE DEF ev
        <5> QED
          BY <4>1, <4>2 DEF Accounts
      <4>3. CASE Fill(ev.acct, ev.daily, -acct.qty, q, t, "exit")
        <5>1. acct' = ApplyDelta(ev.acct, -acct.qty, q, t)
          BY <4>3 DEF Fill
        <5>2. acct'.qty = ev.acct.qty + (-acct.qty)
          BY <5>1, ApplyDeltaFields
        <5> QED
          BY <4>1, <5>2
      <4> QED
        BY <3>4, <4>2, <4>3 DEF EvaluateExit
    <3> QED
      BY <2>2, <3>2, <3>3, <3>4 DEF Evaluate
  <2>3. ASSUME NEW t \in 0..clock, FillPending(w, t) PROVE acct' = acct
    BY <2>3 DEF FillPending, FillNothing
  <2> QED
    BY <1>5, <2>1, <2>2, <2>3 DEF LedgerWorker
<1>6. CASE Shutdown
  BY <1>1, <1>6 DEF Shutdown, CancelOnStop, RequestExit, Accounts
<1>7. CASE UNCHANGED vars
  BY <1>7 DEF vars
<1> QED
  BY <1>2, <1>3, <1>4, <1>5, <1>6, <1>7 DEF Next

\* A target that does not increase risk leads to the position held or to a
\* smaller one on the same side.
LEMMA UncheckedFillShrinks ==
    ASSUME TypeOK, NEW o \in Orders, NEW q \in Quotes,
           ~TargetIncreasesRisk(acct, orders[o].weight, q)
    PROVE  LET x == DesiredQuantity(acct, orders[o].weight, q)
           IN  x # 0 => SameSide(acct.qty, x) /\ Abs(x) <= Abs(acct.qty)
<1>1. /\ orders[o].weight \in Int /\ acct \in Accounts /\ acct.qty \in Int
  BY ConstantTypes, HoldingsType DEF TypeOK, OrderRows, Accounts
<1>2. Equity(acct, q) \in Int /\ Mid2(q) \in Nat
  BY <1>1, EquityTypes, PriceTypes
<1> DEFINE x == quantize_target_quantity_eur(Policy.sizing, Equity(acct, q), Mid2(q),
                                             orders[o].weight)
<1>3. ~IncreasesRisk(Policy.sizing, acct.qty, Equity(acct, q), Mid2(q), orders[o].weight)
  BY DEF TargetIncreasesRisk
<1>4. x \in Int
  BY <1>1, <1>2, ConstantTypes, DesiredQuantityBounds
<1>5. Abs(x) <= Abs(acct.qty) /\ (x # 0 => (x > 0) = (acct.qty > 0))
  BY <1>1, <1>2, <1>3, ConstantTypes, UncheckedChangeBounds
<1> HIDE DEF x
<1>6. x # 0 => SameSide(acct.qty, x) /\ Abs(x) <= Abs(acct.qty)
  BY <1>1, <1>4, <1>5 DEF SameSide, Abs
<1> QED
  BY <1>6 DEF DesiredQuantity, x

\* Unless a fill may be delayed past the daily close window, one that runs on a
\* day already over runs inside that day's window.
LEMMA LateTimesAreInTheWindow ==
    ASSUME MaxLag <= CloseLength, clock \in Nat, NEW since \in Nat, NEW t \in Nat,
           t \in ReadTimes(since), DayOf(t) # DayOf(clock)
    PROVE  InCloseWindow(t)
<1>1. t <= clock /\ clock - MaxLag <= t
  BY ConstantTypes DEF ReadTimes, Greatest
<1> DEFINE day == t \div DayLength
           today == clock \div DayLength
<1>2. day \in Nat /\ today \in Nat /\ day < today /\ today * DayLength <= clock
  BY <1>1, ConstantTypes DEF DayOf
<1>3. (day + 1) * DayLength <= today * DayLength
  BY <1>2, ConstantTypes, ProductMonotone
<1>4. (day + 1) * DayLength \in Nat /\ today * DayLength \in Nat
  BY <1>2, ConstantTypes
<1> HIDE DEF day, today
<1>5. (day + 1) * DayLength - CloseLength <= t
  BY <1>1, <1>2, <1>3, <1>4, ConstantTypes
<1> QED
  BY <1>5 DEF InCloseWindow, CloseAt, DayOf, day

\* No step adds risk while the kill switch or a stop is active, an exit is due or
\* the day's loss limit is reached, provided no operation waits for the ledger's
\* lock longer than the daily close window lasts.
THEOREM NoNewRisk ==
    ASSUME MaxLag <= CloseLength PROVE Spec => NoNewRiskWhileBlocked
<1>1. ASSUME TypeOK, [Next]_vars, ExposureGrows
      PROVE  ~killSwitch /\ ~Stopping /\ acct.exitReason = "none" /\ ~daily[DayOf(clock)].hit
  <2>1. acct'.qty # 0 /\ acct.qty \in Int /\ clock \in Nat
    BY <1>1, HoldingsType, ConstantTypes DEF ExposureGrows, TypeOK, Accounts
  <2>2. acct'.qty # acct.qty
    BY <1>1, <2>1 DEF ExposureGrows, SameSide, Abs
  <2>3. PICK w \in Workers, t \in 0..clock, o \in Orders :
           FillPending(w, t) /\ FillOne(o, call[w].quote, t)
    BY <1>1, <2>1, <2>2, OtherStepsKeepPosition
  <2>4. call[w].quote \in Quotes /\ call[w].since \in Nat
    BY <1>1, ConstantTypes DEF TypeOK
  <2>5. acct'.qty = DesiredQuantity(acct, orders[o].weight, call[w].quote)
    BY <1>1, <2>2, <2>3, <2>4, FillOneMoves
  <2>6. TargetIncreasesRisk(acct, orders[o].weight, call[w].quote)
    BY <1>1, <2>1, <2>4, <2>5, UncheckedFillShrinks DEF ExposureGrows
  <2>7. /\ ~Stopping /\ ~killSwitch /\ acct.exitReason = "none"
        /\ ~InCloseWindow(t) /\ ~daily[DayOf(t)].hit
    BY <1>1, <2>2, <2>3, <2>4, <2>6, FillOneMoves
  <2>8. DayOf(t) = DayOf(clock)
    <3>1. t \in Nat /\ t \in ReadTimes(call[w].since)
      BY <2>1, <2>3 DEF FillPending
    <3> QED
      BY <2>1, <2>4, <2>7, <3>1, LateTimesAreInTheWindow
  <2> QED
    BY <2>7, <2>8
<1>2. TypeOK /\ [Next]_vars =>
        [ExposureGrows => /\ ~killSwitch
                          /\ ~Stopping
                          /\ acct.exitReason = "none"
                          /\ ~daily[DayOf(clock)].hit]_vars
  BY <1>1
<1> QED
  BY <1>2, TypeCorrect, PTL DEF Spec, NoNewRiskWhileBlocked

\* An exit that is due stays due, for its first reason and since its first time,
\* until the position is flat.
THEOREM ExitStaysDueAlways == Spec => ExitStaysDue
<1>1. ASSUME TypeOK, [Next]_vars, acct.exitReason # "none", acct'.qty # 0
      PROVE  /\ acct'.exitReason = acct.exitReason
             /\ acct'.exitSince = acct.exitSince
             /\ SameSide(acct.qty, acct'.qty)
  <2>1. acct.qty \in Int
    BY <1>1, HoldingsType DEF TypeOK, Accounts
  <2>2. ASSUME NEW w \in Workers, NEW t \in 0..clock, NEW o \in Orders,
               FillPending(w, t), FillOne(o, call[w].quote, t)
        PROVE  /\ acct'.exitReason = acct.exitReason
               /\ acct'.exitSince = acct.exitSince
               /\ SameSide(acct.qty, acct'.qty)
    <3>1. call[w].quote \in Quotes
      BY <1>1 DEF TypeOK
    <3>2. CASE acct'.qty = acct.qty /\ acct'.exitReason = acct.exitReason
                 /\ acct'.exitSince = acct.exitSince
      BY <1>1, <2>1, <3>2 DEF SameSide
    <3>3. CASE /\ acct'.qty = DesiredQuantity(acct, orders[o].weight, call[w].quote)
               /\ acct'.exitReason = IF acct'.qty = 0 THEN "none" ELSE acct.exitReason
               /\ acct'.exitSince = IF acct'.qty = 0 THEN 0 ELSE acct.exitSince
               /\ ~TargetIncreasesRisk(acct, orders[o].weight, call[w].quote)
      BY <1>1, <3>1, <3>3, UncheckedFillShrinks
    <3> QED
      BY <1>1, <2>2, <3>1, <3>2, <3>3, FillOneMoves
  <2>3. CASE \A w \in Workers, t \in 0..clock, o \in Orders :
                ~(FillPending(w, t) /\ FillOne(o, call[w].quote, t))
    BY <1>1, <2>1, <2>3, OtherStepsKeepPosition DEF SameSide
  <2> QED
    BY <2>2, <2>3
<1>2. TypeOK /\ [Next]_vars =>
        [acct.exitReason # "none" /\ acct'.qty # 0 =>
           /\ acct'.exitReason = acct.exitReason
           /\ acct'.exitSince = acct.exitSince
           /\ SameSide(acct.qty, acct'.qty)]_vars
  BY <1>1
<1> QED
  BY <1>2, TypeCorrect, PTL DEF Spec, ExitStaysDue
-----------------------------------------------------------------------------
(***************************************************************************)
(* The Shadow ledger implements OrderLifecycle: every step of the ledger   *)
(* is a step of the abstract life of its orders, or changes neither them   *)
(* nor the position.  PendingOrderIsCurrent is what makes the orders       *)
(* outstanding one at a time.                                              *)
(***************************************************************************)

\* An order keeps its abstract state, or ends without a fill.
StaysOrDrops(o) ==
    \/ LifeOfOrders'[o] = LifeOfOrders[o]
    \/ LifeOfOrders[o] \in {"new", "outstanding"} /\ LifeOfOrders'[o] = "dropped"

\* The abstract state of one order, and which orders are outstanding.
LEMMA LifeOfOne ==
    /\ LifeOfOrders = [o \in Orders |-> LifeOf(orders[o].status)]
    /\ LifeOfOrders' = [o \in Orders |-> LifeOf(orders'[o].status)]
    /\ \A o \in Orders : LifeOfOrders[o] = LifeOf(orders[o].status)
    /\ \A o \in Orders : LifeOfOrders'[o] = LifeOf(orders'[o].status)
    /\ Lifecycle!Outstanding = Pending
<1>1. /\ LifeOfOrders = [o \in Orders |-> LifeOf(orders[o].status)]
      /\ LifeOfOrders' = [o \in Orders |-> LifeOf(orders'[o].status)]
  BY DEF LifeOfOrders, LifeOf
<1>2. \A s : LifeOf(s) = "outstanding" <=> s = "pending"
  BY DEF LifeOf
<1> QED
  BY <1>1, <1>2 DEF Lifecycle!Outstanding, Pending

\* A step in which each order stays or drops, and the position stays, is a Drop.
LEMMA StayingDrops ==
    ASSUME \A o \in Orders : StaysOrDrops(o), acct'.qty = acct.qty
    PROVE  Lifecycle!Drop
<1> DEFINE D == {o \in Orders : LifeOfOrders'[o] # LifeOfOrders[o]}
<1>1. D \in SUBSET {o \in Orders : LifeOfOrders[o] \in {"new", "outstanding"}}
  BY DEF StaysOrDrops
<1>2. LifeOfOrders' = [o \in Orders |-> IF o \in D THEN "dropped" ELSE LifeOfOrders[o]]
  BY LifeOfOne DEF StaysOrDrops
<1> HIDE DEF D
<1> QED
  BY <1>1, <1>2 DEF Lifecycle!Drop, Lifecycle!Dropping

\* The abstract state that each status stands for.
LEMMA LifeOfStatus ==
    /\ LifeOf("idle") = "new" /\ LifeOf("decided") = "new" /\ LifeOf("approved") = "new"
    /\ LifeOf("pending") = "outstanding" /\ LifeOf("filled") = "filled"
    /\ \A s \in {"refused", "rejected", "expired", "cancelled"} : LifeOf(s) = "dropped"
BY DEF LifeOf

\* Statuses after an operation's prologue, an exit or a snapshot: what was not
\* pending is untouched, what was pending is dropped if it does not stay.
LEMMA RetiringDrops ==
    ASSUME NEW t
    PROVE  /\ \A o \in Orders, b \in BOOLEAN :
                \/ Retired(o, t, b) = orders[o].status
                \/ o \in Pending /\ Retired(o, t, b) \in {"expired", "cancelled"}
           /\ \A o \in Orders :
                \/ AfterPrologue(t)[o] = orders[o].status
                \/ o \in Pending /\ AfterPrologue(t)[o] \in {"expired", "cancelled"}
           /\ \A o \in Orders :
                \/ AfterExit(t)[o] = orders[o].status /\ o \notin Pending
                \/ o \in Pending /\ AfterExit(t)[o] \in {"expired", "cancelled"}
           /\ \A o \in Orders :
                \/ SnapshotOrders[o].status = orders[o].status
                \/ o \in Pending /\ SnapshotOrders[o].status = "cancelled"
<1>1. \A o \in Orders, b \in BOOLEAN :
        \/ Retired(o, t, b) = orders[o].status
        \/ o \in Pending /\ Retired(o, t, b) \in {"expired", "cancelled"}
  BY DEF Retired, Pending
<1>2. Stopping \in BOOLEAN
  BY DEF Stopping
<1>3. \A o \in Orders : \/ SnapshotOrders[o].status = orders[o].status
                        \/ o \in Pending /\ SnapshotOrders[o].status = "cancelled"
  BY DEF SnapshotOrders, Ended, NoOrder
<1> QED
  BY <1>1, <1>2, <1>3 DEF AfterPrologue, AfterExit, Pending

\* A transaction that only retires orders, the position untouched, is a Drop.
LEMMA RetiringStepDrops ==
    ASSUME TypeOK, acct'.qty = acct.qty, NEW f \in [Orders -> Statuses],
           \A o \in Orders : \/ f[o] = orders[o].status
                             \/ o \in Pending /\ f[o] \in {"expired", "cancelled", "rejected"},
           orders' = WithStatus(f)
    PROVE  Lifecycle!Drop
<1>1. \A o \in Orders : f[o] = "pending" => o \in Pending
  BY DEF Pending
<1>2. \A o \in Orders : orders'[o].status = f[o]
  BY <1>1, WithStatusRetires
<1>3. ASSUME NEW o \in Orders PROVE StaysOrDrops(o)
  BY <1>2, LifeOfOne, LifeOfStatus DEF StaysOrDrops, Pending
<1> QED
  BY <1>3, StayingDrops

\* The event worker decides and assesses (nothing is outstanding yet), and submits.
LEMMA EventWorkerSubmitsOrDrops ==
    ASSUME TypeOK, EventWorker PROVE Lifecycle!Next
<1>1. ASSUME NEW o \in Orders, NEW w \in Weights, Decide(o, w) PROVE Lifecycle!Drop
  <2>1. acct'.qty = acct.qty
    BY <1>1, SnapshotTypes DEF Decide
  <2>2. /\ orders[o].status = "idle" /\ orders'[o].status = "decided"
        /\ \A p \in Orders : p # o => orders'[p] = SnapshotOrders[p]
    BY <1>1, SnapshotTypes DEF Decide, NoOrder
  <2>3. StaysOrDrops(o)
    BY <2>2, LifeOfOne, LifeOfStatus DEF StaysOrDrops
  <2>4. ASSUME NEW p \in Orders, p # o PROVE StaysOrDrops(p)
    <3>1. orders'[p].status = SnapshotOrders[p].status
      BY <2>2, <2>4
    <3> QED
      BY <3>1, LifeOfOne, LifeOfStatus, RetiringDrops DEF StaysOrDrops, Pending
  <2> QED
    BY <2>1, <2>3, <2>4, StayingDrops
<1>2. ASSUME NEW o \in Orders, Assess(o) PROVE Lifecycle!Drop
  <2>1. acct'.qty = acct.qty
    BY <1>2, SnapshotTypes DEF Assess
  <2>2. /\ orders[o].status = "decided" /\ orders'[o].status \in {"approved", "refused"}
        /\ \A p \in Orders : p # o => orders'[p] = SnapshotOrders[p]
    BY <1>2, SnapshotTypes DEF Assess, Ended, NoOrder, OrderRows
  <2>3. StaysOrDrops(o)
    BY <2>2, LifeOfOne, LifeOfStatus DEF StaysOrDrops
  <2>4. ASSUME NEW p \in Orders, p # o PROVE StaysOrDrops(p)
    <3>1. orders'[p].status = SnapshotOrders[p].status
      BY <2>2, <2>4
    <3> QED
      BY <3>1, LifeOfOne, LifeOfStatus, RetiringDrops DEF StaysOrDrops, Pending
  <2> QED
    BY <2>1, <2>3, <2>4, StayingDrops
<1>3. ASSUME NEW o \in Orders, NEW t \in 0..clock, Record(o, t)
      PROVE  Lifecycle!Drop \/ Lifecycle!Submit(o)
  <2> DEFINE after == WithStatus(AfterPrologue(t))
  <2>1. t \in Nat /\ orders \in [Orders -> OrderRows] /\ acct' = acct
    BY <1>3, ConstantTypes DEF TypeOK, Record
  <2>2. AfterPrologue(t) \in [Orders -> Statuses]
    BY <2>1, AfterTypes
  <2>3. /\ \A p \in Orders : p # o => orders'[p].status = AfterPrologue(t)[p]
        /\ orders[o].status = "approved"
        /\ orders'[o].status = IF Recordable(o, t) THEN "pending" ELSE "rejected"
    <3>1. \A p \in Orders : after[p].status = AfterPrologue(t)[p]
      BY <2>1 DEF WithStatus, Ended, NoOrder, OrderRows
    <3>2. orders' = [after EXCEPT ![o] =
                       IF Recordable(o, t)
                       THEN [orders[o] EXCEPT !.status = "pending", !.assessedAt = 0,
                                              !.recordedAt = t]
                       ELSE Ended("rejected")]
      BY <1>3 DEF Record
    <3>3. DOMAIN after = Orders /\ after = [p \in Orders |-> after[p]]
      BY DEF WithStatus
    <3>4. orders[o].status = "approved"
      BY <1>3 DEF Record
    <3> HIDE DEF after
    <3>5. \A p \in Orders : p # o => orders'[p] = after[p]
      BY <3>2, <3>3
    <3>6. orders'[o] = IF Recordable(o, t)
                       THEN [orders[o] EXCEPT !.status = "pending", !.assessedAt = 0,
                                              !.recordedAt = t]
                       ELSE Ended("rejected")
      BY <3>2, <3>3
    <3>7. Ended("rejected").status = "rejected"
      BY DEF Ended, NoOrder
    <3> QED
      BY <2>1, <3>1, <3>4, <3>5, <3>6, <3>7 DEF OrderRows
  <2>4. CASE Recordable(o, t)
    <3>1. \A p \in Orders : AfterPrologue(t)[p] # "pending"
      BY <2>4 DEF Recordable
    <3>2. \A p \in Orders :
            LifeOfOrders'[p] = IF p = o THEN "outstanding"
                               ELSE IF p \in Pending THEN "dropped" ELSE LifeOfOrders[p]
      BY <2>3, <2>4, <3>1, LifeOfOne, LifeOfStatus, RetiringDrops DEF Pending
    <3>3. LifeOfOrders' = [Lifecycle!Dropping(Lifecycle!Outstanding) EXCEPT ![o] = "outstanding"]
      BY <3>2, LifeOfOne DEF Lifecycle!Dropping
    <3> QED
      BY <2>1, <2>3, <3>3, LifeOfOne, LifeOfStatus DEF Lifecycle!Submit
  <2>5. CASE ~Recordable(o, t)
    <3>1. \A p \in Orders : StaysOrDrops(p)
      BY <2>3, <2>5, LifeOfOne, LifeOfStatus, RetiringDrops DEF StaysOrDrops, Pending
    <3> QED
      BY <2>1, <3>1, StayingDrops
  <2> QED
    BY <2>4, <2>5
<1> QED
  BY <1>1, <1>2, <1>3 DEF EventWorker, Lifecycle!Next

\* An evaluation of exits drops what is due, or closes the position and drops all.
LEMMA EvaluateDropsOrCloses ==
    ASSUME TypeOK, NEW w \in Workers, NEW t \in 0..clock, Evaluate(w, t)
    PROVE  Lifecycle!Next
<1> DEFINE q == call[w].quote
           kept == [o \in Orders |-> Retired(o, t, FALSE)]
           ev == Evaluation(q, t)
<1>1. q \in Quotes /\ t \in Nat /\ acct \in Accounts /\ acct.qty \in Int
  BY ConstantTypes, HoldingsType DEF TypeOK, Accounts
<1>2. kept \in [Orders -> Statuses] /\ AfterExit(t) \in [Orders -> Statuses]
  BY <1>1, AfterTypes
<1>3. /\ ev.acct \in Accounts /\ ev.acct.qty = acct.qty
  BY <1>1, EvaluationTypes
<1>4. CASE EvaluateFlat(t) \/ EvaluateQuiet(q, t)
  <2>1. acct'.qty = acct.qty /\ orders' = WithStatus(kept)
    BY <1>1, <1>3, <1>4 DEF EvaluateFlat, EvaluateQuiet, Accounts
  <2>2. \A o \in Orders : \/ kept[o] = orders[o].status
                          \/ o \in Pending /\ kept[o] \in {"expired", "cancelled", "rejected"}
    BY RetiringDrops
  <2> QED
    BY <1>2, <2>1, <2>2, RetiringStepDrops DEF Lifecycle!Next
<1>5. CASE EvaluateExit(q, t)
  <2>1. orders' = WithStatus(AfterExit(t)) /\ acct.qty # 0
    BY <1>5 DEF EvaluateExit, Open
  <2>2. CASE acct' = [ev.acct EXCEPT
                        !.exitReason = ev.reason,
                        !.exitSince = IF acct.exitReason = "none" THEN t ELSE @]
    <3>1. acct'.qty = acct.qty
      <4> HIDE DEF ev
      <4> QED
        BY <1>3, <2>2 DEF Accounts
    <3> QED
      BY <1>2, <2>1, <3>1, RetiringDrops, RetiringStepDrops DEF Lifecycle!Next
  <2>3. CASE Fill(ev.acct, ev.daily, -acct.qty, q, t, "exit")
    <3>1. acct'.qty = ev.acct.qty + (-acct.qty)
      BY <2>3, ApplyDeltaFields DEF Fill
    <3>2. acct'.qty = 0
      BY <1>1, <1>3, <3>1
    <3>3. \A o \in Orders : orders'[o].status = AfterExit(t)[o]
      BY <1>2, <2>1, PrologueRetires, WithStatusRetires
    <3>4. \A o \in Orders :
            LifeOfOrders'[o] = IF o \in Pending THEN "dropped" ELSE LifeOfOrders[o]
      BY <3>3, LifeOfOne, LifeOfStatus, RetiringDrops DEF Pending
    <3>5. LifeOfOrders' = Lifecycle!Dropping(Lifecycle!Outstanding)
      BY <3>4, LifeOfOne DEF Lifecycle!Dropping
    <3> QED
      BY <2>1, <3>2, <3>5 DEF Lifecycle!Close, Lifecycle!Next
  <2> QED
    BY <1>5, <2>2, <2>3 DEF EvaluateExit
<1> QED
  BY <1>4, <1>5 DEF Evaluate

\* The order that an attempt fills was pending, and no other order fills with it.
LEMMA FilledOne ==
    ASSUME TypeOK, PendingOrderIsCurrent, NEW q \in Quotes, NEW t \in 0..clock,
           NEW o \in Orders, FillOne(o, q, t),
           Outcome(o, q, t, EnsureDaily(acct, daily, t, Equity(acct, q), TRUE)[DayOf(t)])
             = "filled"
    PROVE  /\ Pending = {o}
           /\ \A p \in Orders : orders'[p].status = IF p = o THEN "filled"
                                                    ELSE orders[p].status
<1> DEFINE after == AfterAttempt(o, t, "filled")
<1>1. t \in Nat /\ AfterPrologue(t) \in [Orders -> Statuses]
  <2>1. t \in Nat
    BY ConstantTypes DEF TypeOK
  <2> QED
    BY <2>1, AfterTypes
<1>2. o \in Pending /\ Pending = {o}
  BY PrologueRetires, ZenonT(40) DEF FillOne, Survivors, Stopping, PendingOrderIsCurrent
<1>3. orders' = WithStatus(after)
  BY DEF FillOne
<1>4. /\ after \in [Orders -> Statuses]
      /\ after[o] = "filled"
      /\ \A p \in Orders : p # o => after[p] = AfterPrologue(t)[p]
  BY <1>1 DEF AfterAttempt, Statuses
<1> HIDE DEF after
<1>5. \A p \in Orders : after[p] = "pending" => p \in Pending
  BY <1>4, PrologueRetires
<1>6. \A p \in Orders : orders'[p].status = after[p]
  BY <1>3, <1>4, <1>5, WithStatusRetires
<1> QED
  BY <1>2, <1>4, <1>6, RetiringDrops

\* An attempt to fill drops orders, or fills the one that is outstanding.
LEMMA FillPendingDropsOrFills ==
    ASSUME TypeOK, PendingOrderIsCurrent, NEW w \in Workers, NEW t \in 0..clock,
           FillPending(w, t)
    PROVE  Lifecycle!Next
<1> DEFINE q == call[w].quote
<1>1. q \in Quotes /\ t \in Nat /\ acct \in Accounts /\ acct.qty \in Int
  BY ConstantTypes, HoldingsType DEF TypeOK, Accounts
<1>2. AfterPrologue(t) \in [Orders -> Statuses]
  BY <1>1, AfterTypes
<1>3. CASE FillNothing(q, t)
  BY <1>2, <1>3, RetiringDrops, RetiringStepDrops DEF FillNothing, Lifecycle!Next
<1>4. ASSUME NEW o \in Orders, FillOne(o, q, t) PROVE Lifecycle!Drop \/ Lifecycle!FillOrder(o)
  <2> DEFINE e == Equity(acct, q)
             a == Valued(acct, e, TRUE)
             d == EnsureDaily(acct, daily, t, e, TRUE)
             outcome == Outcome(o, q, t, d[DayOf(t)])
             delta == Delta(acct, orders[o].weight, q)
             after == AfterAttempt(o, t, outcome)
  <2>1. o \in Pending /\ Pending = {o}
    BY <1>4, PrologueRetires DEF FillOne, Survivors, Stopping, PendingOrderIsCurrent
  <2>2. outcome \in {"cancelled", "rejected", "filled"}
    BY DEF Outcome
  <2>3. orders' = WithStatus(after)
    BY <1>4 DEF FillOne
  <2>4. /\ after \in [Orders -> Statuses]
        /\ after[o] = outcome
        /\ \A p \in Orders : p # o => after[p] = AfterPrologue(t)[p]
    BY <1>2, <2>2 DEF AfterAttempt, Statuses
  <2>5. CASE outcome # "filled"
    <3>1. acct' \in {acct, a}
      BY <1>4, <2>5 DEF FillOne
    <3>2. e \in Int /\ a.qty = acct.qty
      BY <1>1, EquityTypes, ViewTypes
    <3>3. acct'.qty = acct.qty
      BY <3>1, <3>2
    <3> HIDE DEF outcome, after
    <3>4. \A p \in Orders : \/ after[p] = orders[p].status
                            \/ p \in Pending /\ after[p] \in {"expired", "cancelled", "rejected"}
      BY <2>1, <2>2, <2>4, <2>5, RetiringDrops
    <3> QED
      BY <2>3, <2>4, <3>3, <3>4, RetiringStepDrops
  <2>6. CASE outcome = "filled"
    <3>1. delta # 0 /\ delta \in Int
      <4>1. delta \in Int
        BY <1>1, DesiredQuantityType
      <4>2. outcome = "filled" => delta # 0
        BY DEF Outcome
      <4> QED
        BY <2>6, <4>1, <4>2
    <3>2. acct'.qty = a.qty + delta
      <4>1. acct' = ApplyDelta(a, delta, q, t)
        BY <1>4, <2>6 DEF FillOne, Fill
      <4> HIDE DEF a, delta
      <4> QED
        BY <4>1, ApplyDeltaFields
    <3>3. e \in Int /\ a.qty = acct.qty
      BY <1>1, EquityTypes, ViewTypes
    <3> HIDE DEF outcome, after, a, delta
    <3>4. acct'.qty \in Int \ {acct.qty}
      BY <1>1, <3>1, <3>2, <3>3
    <3>5. \A p \in Orders : orders'[p].status = IF p = o THEN "filled" ELSE orders[p].status
      BY <1>1, <1>4, <2>6, FilledOne DEF outcome
    <3>6. LifeOfOrders' = [LifeOfOrders EXCEPT ![o] = "filled"]
      BY <3>5, LifeOfOne, LifeOfStatus
    <3> QED
      BY <2>1, <3>4, <3>6, LifeOfOne DEF Lifecycle!FillOrder
  <2> QED
    BY <2>5, <2>6
<1> QED
  BY <1>3, <1>4 DEF FillPending, Lifecycle!Next

\* A step of the ledger is one of the abstract life of its orders, or a stutter.
LEMMA LifecycleStep ==
    ASSUME TypeOK, PendingOrderIsCurrent, [Next]_vars
    PROVE  Lifecycle!Next \/ UNCHANGED <<LifeOfOrders, acct.qty>>
<1>1. CASE Environment
  <2>1. acct' = acct
    BY <1>1 DEF Environment, Tick, Publish, Halt, Pause, Resume, Restart
  <2>2. CASE Restart
    <3>1. ASSUME NEW o \in Orders PROVE StaysOrDrops(o)
      <4>1. orders'[o].status = IF orders[o].status = "approved" THEN "decided"
                                ELSE orders[o].status
        BY <2>2 DEF Restart, TypeOK, OrderRows
      <4> QED
        BY <4>1, LifeOfOne, LifeOfStatus DEF StaysOrDrops
    <3> QED
      BY <2>1, <3>1, StayingDrops DEF Lifecycle!Next
  <2>3. CASE ~Restart
    <3>1. orders' = orders
      BY <1>1, <2>3 DEF Environment, Tick, Publish, Halt, Pause, Resume
    <3> QED
      BY <2>1, <3>1, LifeOfOne
  <2> QED
    BY <2>2, <2>3
<1>2. CASE EventWorker
  BY <1>2, EventWorkerSubmitsOrDrops
<1>3. CASE ExpireOrders
  <2> DEFINE kept == [o \in Orders |-> Retired(o, clock, FALSE)]
  <2>1. clock \in Nat
    BY ConstantTypes DEF TypeOK
  <2>2. kept \in [Orders -> Statuses] /\ orders' = WithStatus(kept) /\ acct' = acct
    BY <1>3, <2>1, AfterTypes DEF ExpireOrders
  <2>3. \A o \in Orders : \/ kept[o] = orders[o].status
                          \/ o \in Pending /\ kept[o] \in {"expired", "cancelled", "rejected"}
    BY RetiringDrops
  <2> QED
    BY <2>2, <2>3, RetiringStepDrops DEF Lifecycle!Next
<1>4. ASSUME NEW w \in Workers, LedgerWorker(w)
      PROVE  Lifecycle!Next \/ UNCHANGED <<LifeOfOrders, acct.qty>>
  <2>1. CASE Read(w) \/ Abandon(w)
    BY <2>1, LifeOfOne DEF Read, Abandon
  <2> QED
    BY <1>4, <2>1, EvaluateDropsOrCloses, FillPendingDropsOrFills DEF LedgerWorker
<1>5. CASE Shutdown
  <2>1. acct'.qty = acct.qty
    BY <1>5 DEF Shutdown, CancelOnStop, RequestExit, TypeOK, Accounts
  <2>2. CASE orders' = orders
    BY <2>1, <2>2, LifeOfOne
  <2>3. CASE orders' = SnapshotOrders
    <3>1. ASSUME NEW o \in Orders PROVE StaysOrDrops(o)
      BY <2>3, LifeOfOne, LifeOfStatus, RetiringDrops DEF StaysOrDrops, Pending
    <3> QED
      BY <2>1, <3>1, StayingDrops DEF Lifecycle!Next
  <2> QED
    BY <1>5, <2>2, <2>3 DEF Shutdown, CancelOnStop, RequestExit
<1>6. CASE UNCHANGED vars
  BY <1>6, LifeOfOne DEF vars
<1> QED
  BY <1>1, <1>2, <1>3, <1>4, <1>5, <1>6 DEF Next

\* Every behaviour of the ledger is one of OrderLifecycle, for any number of
\* workers and orders: an order is outstanding alone, ends once, and the position
\* moves only by it or by a protective exit that ends it.
THEOREM ImplementsOrderLifecycle == Spec => ImplementsLifecycle
<1>1. Init => Lifecycle!Init
  BY LifeOfOne, LifeOfStatus DEF Init, InitialAccount, NoOrder, Lifecycle!Init
<1>2. TypeOK /\ PendingOrderIsCurrent /\ [Next]_vars
        => [Lifecycle!Next]_<<LifeOfOrders, acct.qty>>
  BY LifecycleStep
<1> QED
  BY <1>1, <1>2, TypeCorrect, PendingOrderStaysCurrent, PTL
     DEF Spec, ImplementsLifecycle, Lifecycle!Spec
-----------------------------------------------------------------------------
(***************************************************************************)
(* What the protective exits measure from only tightens: the peak          *)
(* favourable mark of the trailing stop, and the daily loss baseline.      *)
(***************************************************************************)

(***************************************************************************)
(* The peak favourable mark                                                *)
(***************************************************************************)
\* The peak of a held position is no worse than its entry.
PeakIsFavourable ==
    acct.qty # 0 => Better(acct.qty, acct.peak, acct.entry) = acct.peak

\* The peak has followed the account from a to b as PeakNeverRetreats asks.
PeakHeld(a, b) ==
    b.qty # 0 =>
      /\ Better(b.qty, b.peak, b.entry) = b.peak
      /\ SameSide(a.qty, b.qty) => Better(a.qty, a.peak, b.peak) = b.peak

\* The fields of an account that the peak depends on are integers.
LEMMA PeakFields ==
    ASSUME NEW a \in Accounts
    PROVE  a.qty \in Int /\ a.peak \in Int /\ a.entry \in Int
BY HoldingsType DEF Accounts

\* An account with the same holding, whose peak moved to a better mark or not.
LEMMA SameHolding ==
    ASSUME NEW a \in Accounts, NEW b \in Accounts, NEW mark \in Int,
           b.qty = a.qty, b.entry = a.entry,
           \/ b.peak = a.peak /\ (a.qty # 0 => Better(a.qty, a.peak, a.entry) = a.peak)
           \/ b.peak = Better(a.qty, a.peak, Better(a.qty, a.entry, mark))
    PROVE  PeakHeld(a, b)
BY PeakFields DEF PeakHeld, Better, Greatest, Least, SameSide

\* A fill moves the peak to a better mark, or starts it anew.
LEMMA FilledHolding ==
    ASSUME NEW a \in Accounts, NEW delta \in Int, NEW q \in Quotes, NEW t \in Nat
    PROVE  PeakHeld(a, ApplyDelta(a, delta, q, t))
<1> DEFINE price == FillPrice(delta, q)
           held == a.qty + delta
           entry == EntryAfter(a, delta, price)
           mark == Mark(held, q)
           b == ApplyDelta(a, delta, q, t)
           peak == IF SameSide(a.qty, held)
                   THEN Better(held, a.peak, Better(held, entry, mark))
                   ELSE Better(held, entry, mark)
<1>1. a.qty \in Int /\ a.peak \in Int /\ held \in Int
  BY PeakFields
<1>2. entry \in Int /\ mark \in Int
  <2>1. price \in Int
    BY FillPriceType
  <2>2. entry \in Int
    BY <2>1, TradeTypes
  <2>3. \A n \in Int : Mark(n, q) \in Int
    BY PriceTypes
  <2> QED
    BY <1>1, <2>2, <2>3
<1>3. b.qty = held /\ b.entry = entry /\ (held # 0 => b.peak = peak)
  BY DEF ApplyDelta
<1> HIDE DEF b, held, entry, mark
<1>4. b.qty # 0 => Better(b.qty, b.peak, b.entry) = b.peak
  BY <1>1, <1>2, <1>3 DEF Better, Greatest, Least
<1>5. b.qty # 0 /\ SameSide(a.qty, b.qty) => Better(a.qty, a.peak, b.peak) = b.peak
  BY <1>1, <1>2, <1>3 DEF Better, Greatest, Least, SameSide
<1> QED
  BY <1>4, <1>5 DEF PeakHeld, b

\* Following the peak leaves it at the better of itself, entry and mark.
LEMMA EvaluationPeak ==
    ASSUME TypeOK, NEW q \in Quotes, NEW t \in 0..clock
    PROVE  /\ Evaluation(q, t).acct.entry = acct.entry
           /\ Evaluation(q, t).acct.peak
                \in {acct.peak,
                     Better(acct.qty, acct.peak,
                            Better(acct.qty, acct.entry, Mark(acct.qty, q)))}
<1> DEFINE seen == IF QuoteValid(q, t) THEN Peaked(acct, q) ELSE acct
           worth == IF QuoteValid(q, t) THEN Equity(acct, q) ELSE acct.cash
<1>1. acct \in Accounts /\ acct.cash \in Int /\ worth \in Int
  BY EquityTypes DEF TypeOK, Accounts
<1>2. seen \in Accounts /\ seen.entry = acct.entry
      /\ seen.peak \in {acct.peak, Better(acct.qty, acct.peak,
                                     Better(acct.qty, acct.entry, Mark(acct.qty, q)))}
  <2>1. Peaked(acct, q) \in Accounts /\ Peaked(acct, q).entry = acct.entry
    BY <1>1, ViewTypes
  <2>2. Peaked(acct, q).peak
          = Better(acct.qty, acct.peak, Better(acct.qty, acct.entry, Mark(acct.qty, q)))
    BY <1>1 DEF Peaked, Accounts
  <2> QED
    BY <1>1, <2>1, <2>2
<1>3. Evaluation(q, t).acct = Valued(seen, worth, QuoteValid(q, t))
  BY DEF Evaluation
<1> HIDE DEF seen, worth
<1>4. /\ Valued(seen, worth, QuoteValid(q, t)).entry = seen.entry
      /\ Valued(seen, worth, QuoteValid(q, t)).peak = seen.peak
  BY <1>2 DEF Valued, Accounts
<1> QED
  BY <1>2, <1>3, <1>4

\* Valuing an account keeps its holding and its peak.
LEMMA ValuedPeak ==
    ASSUME NEW a \in Accounts, NEW e \in Int, NEW valid \in BOOLEAN
    PROVE  LET b == Valued(a, e, valid)
           IN  b \in Accounts /\ b.qty = a.qty /\ b.entry = a.entry /\ b.peak = a.peak
<1> DEFINE b == Valued(a, e, valid)
<1>1. b \in Accounts
  BY ValuedType
<1>2. CASE valid
  <2>1. b = [a EXCEPT !.lastEquity = e]
    BY <1>2 DEF Valued
  <2>2. b.qty = a.qty /\ b.entry = a.entry /\ b.peak = a.peak
    BY <2>1 DEF Accounts
  <2> QED
    BY <1>1, <2>2
<1>3. CASE ~valid
  BY <1>1, <1>3 DEF Valued
<1> QED
  BY <1>1, <1>2, <1>3

\* Every step keeps the peak.
LEMMA PeakStep ==
    ASSUME TypeOK, PeakIsFavourable, [Next]_vars
    PROVE  PeakHeld(acct, acct')
<1>1. acct \in Accounts /\ acct' \in Accounts /\ clock \in Nat
  BY NextType, ConstantTypes DEF TypeOK
<1>2. ASSUME acct'.qty = acct.qty, acct'.entry = acct.entry, acct'.peak = acct.peak
      PROVE  PeakHeld(acct, acct')
  <2>1. 0 \in Int
    OBVIOUS
  <2> QED
    BY <1>1, <1>2, <2>1, SameHolding DEF PeakIsFavourable
<1>3. CASE Environment \/ ExpireOrders \/ UNCHANGED vars
  <2>1. acct' = acct
    BY <1>3 DEF Environment, Tick, Publish, Halt, Pause, Resume, Restart, ExpireOrders, vars
  <2> QED
    BY <1>2, <2>1
<1>4. CASE EventWorker
  <2>1. SnapshotEquity \in Int /\ SnapshotValid \in BOOLEAN
    BY <1>1, EquityTypes DEF SnapshotEquity, SnapshotValid, QuoteValid, TypeOK, Accounts, Quotes
  <2>2. acct' \in {acct, SnapshotAccount}
    BY <1>4 DEF EventWorker, Decide, Assess, Record
  <2>3. /\ SnapshotAccount.qty = acct.qty /\ SnapshotAccount.entry = acct.entry
        /\ SnapshotAccount.peak = acct.peak
    BY <1>1, <2>1, ValuedPeak DEF SnapshotAccount
  <2> QED
    BY <1>2, <2>2, <2>3
<1>5. ASSUME NEW w \in Workers, LedgerWorker(w) PROVE PeakHeld(acct, acct')
  <2> DEFINE q == call[w].quote
  <2>1. q \in Quotes
    BY DEF TypeOK
  <2>2. CASE Read(w) \/ Abandon(w)
    BY <1>2, <2>2 DEF Read, Abandon
  <2>3. ASSUME NEW t \in 0..clock, Evaluate(w, t) PROVE PeakHeld(acct, acct')
    <3> DEFINE ev == Evaluation(q, t)
               mark == Mark(acct.qty, q)
    <3>1. /\ ev.acct \in Accounts /\ ev.acct.qty = acct.qty /\ ev.acct.entry = acct.entry
          /\ ev.acct.peak \in {acct.peak, Better(acct.qty, acct.peak,
                                                 Better(acct.qty, acct.entry, mark))}
      BY <2>1, EvaluationTypes, EvaluationPeak
    <3>2. mark \in Int /\ acct.qty \in Int
      BY <1>1, <2>1, PeakFields, PriceTypes
    <3> HIDE DEF ev, mark
    <3>3. ASSUME acct'.qty = ev.acct.qty, acct'.entry = ev.acct.entry, acct'.peak = ev.acct.peak
          PROVE  PeakHeld(acct, acct')
      BY <1>1, <3>1, <3>2, <3>3, SameHolding DEF PeakIsFavourable
    <3>4. CASE EvaluateFlat(t)
      BY <1>1, <3>4 DEF EvaluateFlat, Open, Accounts, PeakHeld
    <3>5. CASE EvaluateQuiet(q, t)
      BY <3>3, <3>5 DEF EvaluateQuiet, ev
    <3>6. CASE EvaluateExit(q, t)
      <4>1. CASE acct' = [ev.acct EXCEPT
                            !.exitReason = ev.reason,
                            !.exitSince = IF acct.exitReason = "none" THEN t ELSE @]
        BY <3>1, <3>3, <4>1 DEF Accounts
      <4>2. CASE Fill(ev.acct, ev.daily, -acct.qty, q, t, "exit")
        <5>1. acct'.qty = ev.acct.qty + (-acct.qty)
          BY <4>2, ApplyDeltaFields DEF Fill
        <5> QED
          BY <3>1, <3>2, <5>1 DEF PeakHeld
      <4> QED
        BY <3>6, <4>1, <4>2 DEF EvaluateExit, ev
    <3> QED
      BY <2>3, <3>4, <3>5, <3>6 DEF Evaluate
  <2>4. ASSUME NEW t \in 0..clock, FillPending(w, t) PROVE PeakHeld(acct, acct')
    <3>1. CASE FillNothing(q, t)
      BY <1>2, <3>1 DEF FillNothing
    <3>2. ASSUME NEW o \in Orders, FillOne(o, q, t) PROVE PeakHeld(acct, acct')
      <4> DEFINE e == Equity(acct, q)
                 a == Valued(acct, e, TRUE)
                 d == EnsureDaily(acct, daily, t, e, TRUE)
                 outcome == Outcome(o, q, t, d[DayOf(t)])
                 delta == Delta(acct, orders[o].weight, q)
      <4>1. e \in Int /\ delta \in Int /\ t \in Nat
        BY <1>1, <2>1, EquityTypes, DesiredQuantityType
      <4>2. a \in Accounts /\ a.qty = acct.qty /\ a.entry = acct.entry /\ a.peak = acct.peak
        BY <1>1, <4>1, ValuedPeak
      <4>3. CASE outcome = "filled"
        <5>1. acct' = ApplyDelta(a, delta, q, t)
          BY <3>2, <4>3 DEF FillOne, Fill
        <5> HIDE DEF a, delta
        <5>2. PeakHeld(a, acct')
          BY <2>1, <4>1, <4>2, <5>1, FilledHolding
        <5> QED
          BY <4>2, <5>2 DEF PeakHeld
      <4>4. CASE outcome # "filled"
        <5>1. acct' \in {acct, a}
          BY <3>2, <4>4 DEF FillOne
        <5> QED
          BY <1>2, <4>2, <5>1
      <4> QED
        BY <4>3, <4>4
    <3> QED
      BY <2>4, <3>1, <3>2 DEF FillPending
  <2> QED
    BY <1>5, <2>2, <2>3, <2>4 DEF LedgerWorker
<1>6. CASE Shutdown
  BY <1>1, <1>2, <1>6 DEF Shutdown, CancelOnStop, RequestExit, Accounts
<1> QED
  BY <1>3, <1>4, <1>5, <1>6 DEF Next

\* The peak favourable mark never retreats while a position is held on one side,
\* and is never worse than its entry.
THEOREM PeakHoldsGround == Spec => PeakNeverRetreats
<1>1. Init => PeakIsFavourable
  BY DEF Init, InitialAccount, PeakIsFavourable
<1>2. TypeOK /\ PeakIsFavourable /\ [Next]_vars => PeakIsFavourable'
  BY PeakStep DEF PeakHeld, PeakIsFavourable
<1>3. TypeOK /\ PeakIsFavourable /\ [Next]_vars =>
        [acct'.qty # 0 =>
           /\ Better(acct'.qty, acct'.peak, acct'.entry) = acct'.peak
           /\ SameSide(acct.qty, acct'.qty) =>
                Better(acct.qty, acct.peak, acct'.peak) = acct'.peak]_vars
  BY PeakStep DEF PeakHeld
<1> QED
  BY <1>1, <1>2, <1>3, TypeCorrect, PTL DEF Spec, PeakNeverRetreats
-----------------------------------------------------------------------------
(***************************************************************************)
(* The daily loss baseline                                                 *)
(***************************************************************************)
\* A day without a row has no loss limit hit.
AbsentIsBlank == \A e \in Days : daily[e].state = "absent" => ~daily[e].hit

\* The row of day e has changed from r to s as BaselineNeverMasksLoss asks, where
\* floor is what a baseline confirmed now must reach.
RowHeld(r, s, open, floor) ==
    /\ r.state = "confirmed" => s.state = "confirmed" /\ s.baseline = r.baseline
    /\ r.state # "confirmed" /\ s.state = "confirmed" /\ open => s.baseline >= floor
    /\ r.hit => s.hit
    /\ s.state = "absent" => ~s.hit

\* What a baseline of day e must reach while account a is carried into it.
Floor(a, d, e) == CarriedReference(a, d, e)

\* The daily rows d become d2 and no loss is masked.
RowsHeld(d, d2) ==
    \A e \in Days : RowHeld(d[e], d2[e], Open(acct), Floor(acct, d, e))

\* One evaluation of the account's day masks no loss.
LEMMA EnsureHeld ==
    ASSUME acct \in Accounts, NEW d \in [Days -> DailyRows],
           \A x \in Days : d[x].state = "absent" => ~d[x].hit,
           NEW t \in Nat, t <= MaxClock, NEW e \in Int, NEW valid \in BOOLEAN
    PROVE  /\ RowsHeld(d, EnsureDaily(acct, d, t, e, valid))
           /\ valid => EnsureDaily(acct, d, t, e, valid)[DayOf(t)].state = "confirmed"
<1> DEFINE D == DayOf(t)
           row == EnsureDailyRow(acct, d, D, e, valid)
           floor == CarriedReference(acct, d, D)
<1>1. D \in Days
  BY DayOfType
<1>2. floor \in Int /\ d[D] \in DailyRows
  BY <1>1, CarriedReferenceType
<1>3. RowHeld(d[D], row, Open(acct), floor)
  <2>1. CASE valid /\ d[D].state = "absent"
    BY <1>1, <1>2, <2>1 DEF EnsureDailyRow, RowHeld, DailyRows, Greatest
  <2>2. CASE valid /\ d[D].state = "unconfirmed"
    BY <1>1, <1>2, <2>2 DEF EnsureDailyRow, RowHeld, DailyRows, Greatest
  <2>3. CASE valid /\ d[D].state = "confirmed"
    BY <1>1, <1>2, <2>3 DEF EnsureDailyRow, RowHeld, DailyRows
  <2>4. CASE ~valid
    BY <1>1, <1>2, <2>4 DEF EnsureDailyRow, RowHeld, DailyRows
  <2> QED
    BY <1>2, <2>1, <2>2, <2>3, <2>4 DEF DailyRows
<1>4. valid => row.state = "confirmed"
  BY DEF EnsureDailyRow
<1> HIDE DEF row
<1>5. EnsureDaily(acct, d, t, e, valid) = [d EXCEPT ![D] = row]
  BY DEF EnsureDaily, row
<1>6. \A x \in Days : x # D => RowHeld(d[x], d[x], Open(acct), Floor(acct, d, x))
  BY DEF RowHeld, DailyRows
<1> QED
  BY <1>1, <1>3, <1>4, <1>5, <1>6 DEF RowsHeld, Floor

\* A second evaluation, by the equity a fill leaves, changes nothing of a confirmed
\* day but the limit it may hit.
LEMMA EnsureAgain ==
    ASSUME NEW b, NEW d \in [Days -> DailyRows], NEW d2 \in [Days -> DailyRows],
           NEW t \in Nat, t <= MaxClock, NEW e \in Int,
           d2[DayOf(t)].state = "confirmed", RowsHeld(d, d2)
    PROVE  RowsHeld(d, EnsureDaily(b, d2, t, e, TRUE))
<1> DEFINE D == DayOf(t)
           row == EnsureDailyRow(b, d2, D, e, TRUE)
<1>1. D \in Days
  BY DayOfType
<1>2. row.state = "confirmed" /\ row.baseline = d2[D].baseline /\ (d2[D].hit => row.hit)
  BY DEF EnsureDailyRow
<1> HIDE DEF row
<1>3. EnsureDaily(b, d2, t, e, TRUE) = [d2 EXCEPT ![D] = row]
  BY DEF EnsureDaily, row
<1> QED
  BY <1>1, <1>2, <1>3 DEF RowsHeld, RowHeld

\* Every step keeps the loss state.
LEMMA DailyStep ==
    ASSUME TypeOK, AbsentIsBlank, [Next]_vars
    PROVE  RowsHeld(daily, daily')
<1>1. /\ acct \in Accounts /\ daily \in [Days -> DailyRows] /\ clock \in Nat
      /\ clock <= MaxClock /\ acct.cash \in Int
  BY ConstantTypes DEF TypeOK, Accounts
<1>2. \A e \in Days : daily[e].state = "absent" => ~daily[e].hit
  BY DEF AbsentIsBlank
<1>3. ASSUME daily' = daily PROVE RowsHeld(daily, daily')
  BY <1>2, <1>3 DEF RowsHeld, RowHeld
<1>4. CASE Environment \/ ExpireOrders \/ Shutdown \/ UNCHANGED vars
  BY <1>3, <1>4 DEF Environment, Tick, Publish, Halt, Pause, Resume, Restart, ExpireOrders,
                    Shutdown, CancelOnStop, RequestExit, vars
<1>5. CASE EventWorker
  <2>1. SnapshotEquity \in Int /\ SnapshotValid \in BOOLEAN
    BY <1>1, EquityTypes DEF SnapshotEquity, SnapshotValid, QuoteValid, TypeOK, Quotes
  <2>2. RowsHeld(daily, SnapshotDaily)
    BY <1>1, <1>2, <2>1, EnsureHeld DEF SnapshotDaily
  <2>3. daily' \in {daily, SnapshotDaily}
    BY <1>5 DEF EventWorker, Decide, Assess, Record
  <2> QED
    BY <1>3, <2>2, <2>3
<1>6. ASSUME NEW w \in Workers, LedgerWorker(w) PROVE RowsHeld(daily, daily')
  <2> DEFINE q == call[w].quote
  <2>1. q \in Quotes
    BY DEF TypeOK
  <2>2. CASE Read(w) \/ Abandon(w)
    BY <1>3, <2>2 DEF Read, Abandon
  <2>3. ASSUME NEW t \in 0..clock, Evaluate(w, t) PROVE RowsHeld(daily, daily')
    <3> DEFINE ev == Evaluation(q, t)
               valid == QuoteValid(q, t)
               worth == IF valid THEN Equity(acct, q) ELSE acct.cash
    <3>1. t \in Nat /\ t <= MaxClock /\ worth \in Int /\ valid \in BOOLEAN
      <4>1. t \in Nat /\ t <= MaxClock
        BY <1>1, ConstantTypes
      <4>2. valid \in BOOLEAN
        BY <2>1 DEF QuoteValid, Quotes
      <4>3. worth \in Int
        BY <1>1, <2>1, EquityTypes
      <4> QED
        BY <4>1, <4>2, <4>3
    <3>2. ev.daily = EnsureDaily(acct, daily, t, worth, valid)
      BY DEF Evaluation
    <3> HIDE DEF ev, worth
    <3>3. /\ RowsHeld(daily, ev.daily)
          /\ valid => ev.daily[DayOf(t)].state = "confirmed"
      BY <1>1, <1>2, <3>1, <3>2, EnsureHeld
    <3>4. CASE Fill(ev.acct, ev.daily, -acct.qty, q, t, "exit") /\ valid
      <4> DEFINE b == ApplyDelta(ev.acct, -acct.qty, q, t)
      <4>1. daily' = EnsureDaily(b, ev.daily, t, b.lastEquity, TRUE)
        BY <3>4 DEF Fill
      <4>2. b.lastEquity \in Int
        <5>1. ev.acct \in Accounts /\ ev.acct.qty = acct.qty /\ acct.qty \in Int
          BY <1>1, <2>1, EvaluationTypes, HoldingsType DEF ev, Accounts
        <5>2. -acct.qty \in Int /\ ev.acct.qty + (-acct.qty) = 0
          BY <5>1
        <5>3. b \in Accounts
          BY <2>1, <3>1, <5>1, <5>2, HoldingsType, ApplyDeltaType
        <5> QED
          BY <5>3 DEF Accounts
      <4>3. ev.daily \in [Days -> DailyRows]
        BY <2>1, EvaluationTypes DEF ev
      <4> HIDE DEF b
      <4> QED
        BY <1>1, <3>1, <3>3, <3>4, <4>1, <4>2, <4>3, EnsureAgain
    <3>5. CASE daily' \in {daily, ev.daily}
      BY <1>3, <3>3, <3>5
    <3>6. EvaluateFlat(t) \/ EvaluateQuiet(q, t) \/ EvaluateExit(q, t)
      BY <2>3 DEF Evaluate
    <3> QED
      BY <3>4, <3>5, <3>6 DEF EvaluateFlat, EvaluateQuiet, EvaluateExit, ev
  <2>4. ASSUME NEW t \in 0..clock, FillPending(w, t) PROVE RowsHeld(daily, daily')
    <3>1. CASE FillNothing(q, t)
      BY <1>3, <3>1 DEF FillNothing
    <3>2. ASSUME NEW o \in Orders, FillOne(o, q, t) PROVE RowsHeld(daily, daily')
      <4> DEFINE e == Equity(acct, q)
                 a == Valued(acct, e, TRUE)
                 d == EnsureDaily(acct, daily, t, e, TRUE)
                 outcome == Outcome(o, q, t, d[DayOf(t)])
                 delta == Delta(acct, orders[o].weight, q)
                 b == ApplyDelta(a, delta, q, t)
      <4>1. e \in Int /\ t \in Nat /\ t <= MaxClock
        <5>1. t \in Nat /\ t <= MaxClock
          BY <1>1, ConstantTypes
        <5>2. e \in Int
          BY <1>1, <2>1, EquityTypes
        <5> QED
          BY <5>1, <5>2
      <4>2. RowsHeld(daily, d) /\ d[DayOf(t)].state = "confirmed"
        BY <1>1, <1>2, <4>1, EnsureHeld
      <4>3. d \in [Days -> DailyRows]
        BY <1>1, <4>1, EnsureDailyType
      <4>4. CASE outcome = "filled"
        <5>1. daily' = EnsureDaily(b, d, t, b.lastEquity, TRUE)
          BY <3>2, <4>4 DEF FillOne, Fill
        <5>2. b.lastEquity \in Int
          <6>1. a \in Accounts /\ a.qty = acct.qty
            BY <1>1, <2>1, <4>1, ViewTypes, ValuedType
          <6>2. delta \in Int /\ acct.qty + delta \in Holdings
            BY <2>1, DesiredQuantityType
          <6>3. b \in Accounts
            <7> HIDE DEF a, delta
            <7> QED
              BY <2>1, <4>1, <6>1, <6>2, ApplyDeltaType
          <6> QED
            BY <6>3 DEF Accounts
        <5> HIDE DEF b, d
        <5> QED
          BY <1>1, <4>1, <4>2, <4>3, <5>1, <5>2, EnsureAgain
      <4>5. CASE outcome # "filled"
        <5>1. daily' \in {daily, d}
          BY <3>2, <4>5 DEF FillOne
        <5> QED
          BY <1>3, <4>2, <5>1
      <4> QED
        BY <4>4, <4>5
    <3> QED
      BY <2>4, <3>1, <3>2 DEF FillPending
  <2> QED
    BY <1>6, <2>2, <2>3, <2>4 DEF LedgerWorker
<1> QED
  BY <1>4, <1>5, <1>6 DEF Next

\* A day's loss baseline is confirmed once, while a position is carried never below
\* the last valid equity nor the previous baseline, and a limit hit stays hit.
THEOREM BaselineHoldsLoss == Spec => BaselineNeverMasksLoss
<1>1. Init => AbsentIsBlank
  <2> SUFFICES ASSUME Init PROVE AbsentIsBlank
    OBVIOUS
  <2>1. \A e \in Days : daily[e] = Absent \/ daily[e].state = "confirmed"
    BY DEF Init, EnsureDaily, EnsureDailyRow
  <2> QED
    BY <2>1 DEF AbsentIsBlank, Absent
<1>2. TypeOK /\ AbsentIsBlank /\ [Next]_vars => AbsentIsBlank'
  BY DailyStep DEF RowsHeld, RowHeld, AbsentIsBlank
<1>3. ASSUME TypeOK, AbsentIsBlank, [Next]_vars, NEW d \in Days
      PROVE  /\ daily[d].state = "confirmed" => /\ daily'[d].state = "confirmed"
                                                /\ daily'[d].baseline = daily[d].baseline
             /\ daily[d].state # "confirmed" /\ daily'[d].state = "confirmed" /\ Open(acct) =>
                  /\ daily'[d].baseline >= acct.lastEquity
                  /\ PriorDays(daily, d) # {} => daily'[d].baseline >= LatestEarlier(d)
             /\ daily[d].hit => daily'[d].hit
  <2> DEFINE last == LatestEarlier(d)
  <2>1. RowHeld(daily[d], daily'[d], Open(acct), CarriedReference(acct, daily, d))
    BY <1>3, DailyStep DEF RowsHeld, Floor
  <2>2. acct.lastEquity \in Int /\ daily \in [Days -> DailyRows] /\ daily'[d].baseline \in Int
    BY <1>3, NextType DEF TypeOK, Accounts, DailyRows
  <2>3. PriorDays(daily, d) # {} => last \in Int
    <3>1. PriorDays(daily, d) \subseteq Days
      BY DEF PriorDays
    <3> QED
      BY <2>2, <3>1, LastDayExists DEF LatestEarlier, DailyRows
  <2>4. CarriedReference(acct, daily, d) =
          IF PriorDays(daily, d) = {} THEN acct.lastEquity ELSE Greatest(acct.lastEquity, last)
    BY DEF CarriedReference, LatestEarlier
  <2>5. CarriedReference(acct, daily, d) >= acct.lastEquity
    <3> HIDE DEF last
    <3> QED
      BY <2>2, <2>3, <2>4 DEF Greatest
  <2>6. PriorDays(daily, d) # {} => CarriedReference(acct, daily, d) >= last
    <3> HIDE DEF last
    <3> QED
      BY <2>2, <2>3, <2>4 DEF Greatest
  <2>7. CarriedReference(acct, daily, d) \in Int
    <3> HIDE DEF last
    <3> QED
      BY <2>2, <2>3, <2>4 DEF Greatest
  <2>8. ASSUME daily[d].state # "confirmed", daily'[d].state = "confirmed", Open(acct)
        PROVE  /\ daily'[d].baseline >= acct.lastEquity
               /\ PriorDays(daily, d) # {} => daily'[d].baseline >= last
    <3>1. daily'[d].baseline >= CarriedReference(acct, daily, d)
      BY <2>1, <2>8 DEF RowHeld
    <3> HIDE DEF last
    <3> QED
      BY <2>2, <2>3, <2>5, <2>6, <2>7, <3>1
  <2> QED
    BY <2>1, <2>8 DEF RowHeld
<1>4. TypeOK /\ AbsentIsBlank /\ [Next]_vars =>
        [\A d \in Days :
           /\ daily[d].state = "confirmed" => /\ daily'[d].state = "confirmed"
                                              /\ daily'[d].baseline = daily[d].baseline
           /\ daily[d].state # "confirmed" /\ daily'[d].state = "confirmed" /\ Open(acct) =>
                /\ daily'[d].baseline >= acct.lastEquity
                /\ PriorDays(daily, d) # {} => daily'[d].baseline >= LatestEarlier(d)
           /\ daily[d].hit => daily'[d].hit]_vars
  BY <1>3
<1> QED
  BY <1>1, <1>2, <1>4, TypeCorrect, PTL DEF Spec, BaselineNeverMasksLoss
-----------------------------------------------------------------------------
(***************************************************************************)
(* The books: what the fills say of position, orders and cash.  The sums   *)
(* over the fills are taken apart fill by fill, and the cash moves with    *)
(* them except for the rounding of averages and of realized profit.        *)
(***************************************************************************)
\* Twice what rounding may shift by when delta is filled on a position of held.
RoundingOn(held, delta) == IF SameSide(held, delta) THEN Abs(held + delta)
                          ELSE IF held # 0 THEN Cent ELSE 0

\* What a fill realizes, pays and leaves at cost balances, but for the rounding of
\* an average entry or of a profit.
LEMMA FillBalances ==
    ASSUME NEW a \in Accounts, NEW delta \in Int, NEW price \in Int
    PROVE  LET held == a.qty + delta
               entry == EntryAfter(a, delta, price)
               drift == RealizedBy(a, delta, price) + delta * price - held * entry + a.qty * a.entry
           IN  /\ drift \in Int
               /\ 2 * Abs(drift) <= RoundingOn(a.qty, delta)
<1> DEFINE q == a.qty
           e == a.entry
           held == q + delta
           entry == EntryAfter(a, delta, price)
           r == RealizedBy(a, delta, price)
           drift == r + delta * price - held * entry + q * e
<1>1. q \in Int /\ e \in Int
  BY HoldingsType DEF Accounts
<1>2. CASE SameSide(q, delta)
  <2> DEFINE cost == Abs(q) * e + Abs(delta) * price
             size == Abs(q) + Abs(delta)
  <2>1. size \in Nat \ {0} /\ cost \in Int /\ Abs(held) = size /\ held # 0 /\ SameSide(q, held)
    BY <1>1, <1>2 DEF SameSide, Abs
  <2>2. r = 0 /\ entry = RoundHalfUp(cost, size)
    BY <1>2, <2>1 DEF RealizedBy, EntryAfter, AverageEntry
  <2> HIDE DEF cost, size
  <2>3. entry \in Int /\ 2 * Abs(cost - size * entry) <= size
    <3>1. entry = (2 * cost + size) \div (2 * size)
      BY <2>2 DEF RoundHalfUp
    <3>2. entry \in Int /\ entry * (2 * size) <= 2 * cost + size
            /\ 2 * cost + size < (entry + 1) * (2 * size)
      BY <2>1, <3>1
    <3> HIDE DEF entry
    <3>3. size * entry \in Int /\ entry * (2 * size) = 2 * (size * entry)
            /\ (entry + 1) * (2 * size) = 2 * (size * entry) + 2 * size
      BY <2>1, <3>2
    <3> DEFINE part == size * entry
    <3>4. part \in Int /\ 2 * part <= 2 * cost + size /\ 2 * cost + size < 2 * part + 2 * size
      BY <3>2, <3>3
    <3> HIDE DEF part
    <3>5. 2 * Abs(cost - part) <= size
      BY <2>1, <3>4 DEF Abs
    <3> QED
      BY <3>2, <3>5 DEF part
  <2>4. drift = cost - size * entry \/ drift = -(cost - size * entry)
    <3> HIDE DEF entry, r
    <3>1. CASE q > 0
      <4>1. delta > 0 /\ cost = q * e + delta * price /\ size = q + delta
        BY <1>1, <1>2, <3>1 DEF SameSide, Abs, cost, size
      <4> QED
        BY <1>1, <2>2, <2>3, <4>1
    <3>2. CASE q < 0
      <4>1. delta < 0 /\ cost = (-q) * e + (-delta) * price /\ size = -q - delta
        BY <1>1, <1>2, <3>2 DEF SameSide, Abs, cost, size
      <4> QED
        BY <1>1, <2>2, <2>3, <4>1
    <3> QED
      BY <1>1, <1>2, <3>1, <3>2 DEF SameSide
  <2>5. cost - size * entry \in Int
    BY <2>1, <2>3
  <2> HIDE DEF drift, entry
  <2> QED
    BY <1>2, <2>1, <2>3, <2>4, <2>5 DEF Abs, drift, entry, RoundingOn
<1>3. CASE ~SameSide(q, delta) /\ q = 0
  <2>1. r = 0
    BY <1>3 DEF RealizedBy
  <2>2. (held = 0 /\ entry = 0) \/ entry = price
    BY <1>1, <1>3 DEF EntryAfter, SameSide
  <2>3. drift = 0
    <3> HIDE DEF r, entry
    <3> QED
      BY <1>1, <1>3, <2>1, <2>2
  <2> HIDE DEF drift
  <2> QED
    BY <1>3, <2>3 DEF Abs, drift, RoundingOn
<1>4. CASE ~SameSide(q, delta) /\ q # 0
  <2> DEFINE profit == (IF q > 0 THEN Least(Abs(q), Abs(delta)) ELSE -Least(Abs(q), Abs(delta)))
                         * (price - e)
  <2>1. r = ToCents(profit)
    BY <1>4 DEF RealizedBy
  <2>2. profit \in Int
    BY <1>1 DEF Least, Abs
  <2>3. drift = r - profit
    <3>0. r \in Int
      BY <2>1, <2>2, ToCentsRounds
    <3>1. CASE Abs(delta) <= Abs(q)
      <4>1. profit = (-delta) * (price - e)
        BY <1>1, <1>4, <3>1 DEF Least, Abs, SameSide
      <4>2. held * entry = held * e
        <5>1. held = 0 \/ entry = e
          BY <1>1, <1>4, <3>1 DEF EntryAfter, SameSide, Abs
        <5>2. held = 0 => entry = 0
          BY <1>1 DEF EntryAfter, SameSide
        <5>3. held \in Int /\ 0 * entry = 0 /\ 0 * e = 0
          BY <1>1, <5>1, <5>2
        <5> HIDE DEF entry, held
        <5> QED
          BY <1>1, <5>1, <5>2, <5>3
      <4>3. held * e = q * e + delta * e /\ profit = delta * e - delta * price
        BY <1>1, <4>1
      <4> HIDE DEF r, entry, profit
      <4> QED
        BY <1>1, <3>0, <4>2, <4>3
    <3>2. CASE Abs(delta) > Abs(q)
      <4>1. profit = q * (price - e)
        BY <1>1, <1>4, <3>2 DEF Least, Abs, SameSide
      <4>2. entry = price
        BY <1>1, <1>4, <3>2 DEF EntryAfter, SameSide, Abs
      <4>3. held * price = q * price + delta * price /\ profit = q * price - q * e
        BY <1>1, <4>1
      <4> HIDE DEF r, entry, profit
      <4> QED
        BY <1>1, <3>0, <4>2, <4>3
    <3> QED
      BY <1>1, <3>1, <3>2 DEF Abs
  <2>4. r \in Int /\ 2 * Abs(r - profit) <= Cent
    BY <2>1, <2>2, ToCentsRounds
  <2> HIDE DEF r, profit
  <2>5. r - profit \in Int
    BY <2>2, <2>4
  <2> HIDE DEF drift
  <2> QED
    BY <1>4, <2>3, <2>4, <2>5 DEF drift, r, RoundingOn
<1> QED
  BY <1>2, <1>3, <1>4

\* The position after the first i of the fills f, what the fills paid and cost, and
\* what rounding may have shifted.
HeldIn(f, i) == SumFunction([j \in 1..i |-> f[j].delta])
PaidIn(f) == SumFunction([i \in DOMAIN f |-> f[i].delta * f[i].price])
FeesIn(f) == SumFunction([i \in DOMAIN f |-> Fee(f[i].delta, f[i].price)])
RoundingIn(f, i) == IF SameSide(HeldIn(f, i - 1), f[i].delta) THEN Abs(HeldIn(f, i))
                    ELSE IF HeldIn(f, i - 1) # 0 THEN Cent ELSE 0
RoundedIn(f) == SumFunction([i \in DOMAIN f |-> RoundingIn(f, i)])

\* What is held is a quantity.
LEMMA HeldType ==
    ASSUME NEW f \in Seq(FillRows), NEW i \in 0..Len(f)
    PROVE  HeldIn(f, i) \in Int
<1> DEFINE S == 1..i
           d == [j \in S |-> f[j].delta]
<1>1. IsFiniteSet(S)
  BY FS_Interval
<1>2. S \subseteq DOMAIN f
  OBVIOUS
<1>3. \A j \in S : f[j] \in FillRows
  BY <1>2
<1> HIDE DEF S
<1>4. \A j \in S : d[j] \in Int
  BY <1>3 DEF FillRows
<1>5. DOMAIN d = S
  OBVIOUS
<1> HIDE DEF d
<1>6. SumFunctionOnSet(d, S) \in Int
  BY <1>1, <1>4, SumTakesFirst
<1> QED
  BY <1>5, <1>6 DEF HeldIn, SumFunction, d, S

\* What one more fill adds.
LEMMA OneMoreFill ==
    ASSUME NEW f \in Seq(FillRows), NEW r \in FillRows
    PROVE  LET g == Append(f, r)
               n == Len(f)
           IN  /\ \A i \in 0..n : HeldIn(g, i) = HeldIn(f, i)
               /\ HeldIn(g, n + 1) = HeldIn(f, n) + r.delta
               /\ PaidIn(f) \in Int /\ PaidIn(g) = PaidIn(f) + r.delta * r.price
               /\ FeesIn(f) \in Int /\ FeesIn(g) = FeesIn(f) + Fee(r.delta, r.price)
               /\ RoundedIn(f) \in Int
               /\ RoundedIn(g) = RoundedIn(f) + RoundingOn(HeldIn(f, n), r.delta)
<1> DEFINE g == Append(f, r)
           n == Len(f)
           S == 1..n
           e == n + 1
           T == S \cup {e}
<1>1. n \in Nat /\ IsFiniteSet(S)
  BY FS_Interval
<1>2. IsFiniteSet(T) /\ e \in T /\ T \ {e} = S
  BY <1>1, FS_AddElement
<1>3. e \notin S /\ 1..e = T /\ DOMAIN f = S /\ DOMAIN g = T
  BY <1>1
<1>4. g[e] = r /\ \A i \in S : g[i] = f[i] /\ f[i] \in FillRows
  OBVIOUS
<1>5. \A i \in 0..n : 1..i \subseteq S
  OBVIOUS
<1> HIDE DEF g
<1>6. \A i \in 0..n : HeldIn(g, i) = HeldIn(f, i)
  <2> SUFFICES ASSUME NEW i \in 0..n PROVE HeldIn(g, i) = HeldIn(f, i)
    OBVIOUS
  <2>1. [j \in 1..i |-> g[j].delta] = [j \in 1..i |-> f[j].delta]
    BY <1>4, <1>5
  <2> QED
    BY <2>1 DEF HeldIn
<1>7. HeldIn(g, e) = HeldIn(f, n) + r.delta
  <2> DEFINE df == [j \in S |-> f[j].delta]
             dg == [j \in T |-> g[j].delta]
  <2> HIDE DEF S, e, T
  <2>1. /\ DOMAIN df = T \ {e} /\ DOMAIN dg = T
        /\ \A j \in T : dg[j] \in Int
        /\ \A j \in T \ {e} : df[j] = dg[j]
    BY <1>2, <1>4 DEF FillRows, T
  <2>2. dg[e] = r.delta
    BY <1>2, <1>4
  <2> HIDE DEF df, dg
  <2>3. IsWithout(df, dg, e)
    BY <1>2, <2>1 DEF IsWithout
  <2>4. SumFunction(dg) = SumFunction(df) + dg[e]
    BY <2>3, SumTakesValue
  <2> QED
    BY <1>3, <2>2, <2>4 DEF HeldIn, df, dg, S
<1>8. PaidIn(f) \in Int /\ PaidIn(g) = PaidIn(f) + r.delta * r.price
  <2> DEFINE df == [j \in S |-> f[j].delta * f[j].price]
             dg == [j \in T |-> g[j].delta * g[j].price]
  <2> HIDE DEF S, e, T
  <2>1. /\ DOMAIN df = T \ {e} /\ DOMAIN dg = T
        /\ \A j \in T : dg[j] \in Int
        /\ \A j \in T \ {e} : df[j] = dg[j]
    <3>1. DOMAIN df = T \ {e} /\ DOMAIN dg = T
      BY <1>2
    <3>2. \A j \in T : g[j] \in FillRows
      BY <1>4 DEF T
    <3>3. \A j \in T : g[j].delta * g[j].price \in Int
      BY <3>2 DEF FillRows
    <3>4. \A j \in S : df[j] = dg[j]
      BY <1>2, <1>4
    <3> QED
      BY <1>2, <3>1, <3>3, <3>4
  <2>2. dg[e] = r.delta * r.price
    BY <1>2, <1>4
  <2>3. PaidIn(f) = SumFunction(df) /\ PaidIn(g) = SumFunction(dg)
    BY <1>3 DEF PaidIn
  <2> HIDE DEF df, dg
  <2>4. IsWithout(df, dg, e)
    BY <1>2, <2>1 DEF IsWithout
  <2>5. SumFunction(df) \in Int /\ SumFunction(dg) = SumFunction(df) + dg[e]
    BY <2>4, SumTakesValue
  <2> QED
    BY <2>2, <2>3, <2>5
<1>9. FeesIn(f) \in Int /\ FeesIn(g) = FeesIn(f) + Fee(r.delta, r.price)
  <2> DEFINE df == [j \in S |-> Fee(f[j].delta, f[j].price)]
             dg == [j \in T |-> Fee(g[j].delta, g[j].price)]
  <2> HIDE DEF S, e, T
  <2>1. /\ DOMAIN df = T \ {e} /\ DOMAIN dg = T
        /\ \A j \in T : dg[j] \in Int
        /\ \A j \in T \ {e} : df[j] = dg[j]
    <3>1. DOMAIN df = T \ {e} /\ DOMAIN dg = T
      BY <1>2
    <3>2. \A j \in T : g[j].delta \in Int /\ g[j].price \in Int
      BY <1>4 DEF T, FillRows
    <3>3. \A j \in T : Fee(g[j].delta, g[j].price) \in Int
      BY <3>2, FeeType
    <3>4. \A j \in S : df[j] = dg[j]
      BY <1>2, <1>4
    <3> QED
      BY <1>2, <3>1, <3>3, <3>4
  <2>2. dg[e] = Fee(r.delta, r.price)
    BY <1>2, <1>4
  <2>3. FeesIn(f) = SumFunction(df) /\ FeesIn(g) = SumFunction(dg)
    BY <1>3 DEF FeesIn
  <2> HIDE DEF df, dg
  <2>4. IsWithout(df, dg, e)
    BY <1>2, <2>1 DEF IsWithout
  <2>5. SumFunction(df) \in Int /\ SumFunction(dg) = SumFunction(df) + dg[e]
    BY <2>4, SumTakesValue
  <2> QED
    BY <2>2, <2>3, <2>5
<1>10. /\ RoundedIn(f) \in Int
       /\ RoundedIn(g) = RoundedIn(f) + RoundingOn(HeldIn(f, n), r.delta)
  <2> DEFINE hf == [i \in S |-> RoundingIn(f, i)]
             hg == [i \in T |-> RoundingIn(g, i)]
  <2>1. \A i \in S : /\ i \in 0..n /\ i - 1 \in 0..n
                     /\ HeldIn(f, i) \in Int /\ HeldIn(g, i) = HeldIn(f, i)
                     /\ HeldIn(g, i - 1) = HeldIn(f, i - 1)
    BY <1>1, <1>6, HeldType
  <2>2. e - 1 = n /\ HeldIn(g, n) = HeldIn(f, n) /\ HeldIn(f, n) \in Int /\ r.delta \in Int
    <3>1. e - 1 = n /\ n \in 0..n
      BY <1>1
    <3>2. HeldIn(f, n) \in Int /\ HeldIn(g, n) = HeldIn(f, n)
      BY <1>6, <3>1, HeldType
    <3> QED
      BY <3>1, <3>2 DEF FillRows
  <2>3. \A x \in Int : Abs(x) \in Int
    BY DEF Abs
  <2>4. Cent \in Int
    BY ConstantTypes
  <2> HIDE DEF S, e, T, n
  <2>5. \A i \in S : RoundingIn(f, i) \in Int /\ RoundingIn(g, i) = RoundingIn(f, i)
    <3> SUFFICES ASSUME NEW i \in S
                 PROVE  RoundingIn(f, i) \in Int /\ RoundingIn(g, i) = RoundingIn(f, i)
      OBVIOUS
    <3>1. HeldIn(f, i) \in Int /\ HeldIn(g, i) = HeldIn(f, i)
          /\ HeldIn(g, i - 1) = HeldIn(f, i - 1) /\ g[i] = f[i]
      BY <1>4, <2>1
    <3>2. Abs(HeldIn(f, i)) \in Int
      BY <2>3, <3>1
    <3> QED
      BY <2>4, <3>1, <3>2 DEF RoundingIn
  <2>6. RoundingIn(g, e) = RoundingOn(HeldIn(f, n), r.delta) /\ RoundingIn(g, e) \in Int
    <3>1. /\ HeldIn(g, e - 1) = HeldIn(f, n) /\ HeldIn(g, e) = HeldIn(f, n) + r.delta
          /\ g[e] = r
      BY <1>4, <1>7, <2>2
    <3>2. Abs(HeldIn(f, n) + r.delta) \in Int
      BY <2>2, <2>3
    <3> QED
      BY <2>4, <3>1, <3>2 DEF RoundingIn, RoundingOn
  <2>7. /\ DOMAIN hf = T \ {e} /\ DOMAIN hg = T
        /\ \A j \in T : hg[j] \in Int
        /\ \A j \in T \ {e} : hf[j] = hg[j]
    <3>1. \A j \in T : j \in S \/ j = e
      BY <1>2
    <3> QED
      BY <1>2, <2>5, <2>6, <3>1
  <2>8. hg[e] = RoundingOn(HeldIn(f, n), r.delta)
    BY <1>2, <2>6
  <2>9. RoundedIn(f) = SumFunction(hf) /\ RoundedIn(g) = SumFunction(hg)
    BY <1>3 DEF RoundedIn
  <2> HIDE DEF hf, hg
  <2>10. IsWithout(hf, hg, e)
    BY <1>2, <2>7 DEF IsWithout
  <2>11. SumFunction(hf) \in Int /\ SumFunction(hg) = SumFunction(hf) + hg[e]
    BY <2>10, SumTakesValue
  <2> QED
    BY <2>8, <2>9, <2>11
<1> QED
  BY <1>6, <1>7, <1>8, <1>9, <1>10 DEF g

\* The books balance when the fills f account for account a and the filled orders.
BooksOf(a, f, filled) ==
    /\ a.qty = HeldIn(f, Len(f))
    /\ a.snapshot = Len(f)
    /\ \A o \in Orders : Cardinality({i \in DOMAIN f : f[i].order = o})
                           = IF o \in filled THEN 1 ELSE 0
    /\ a.cash = InitialCash + a.realized - a.fees
    /\ a.fees = FeesIn(f)
    /\ 2 * Abs(a.cash - (InitialCash - PaidIn(f) - a.fees + a.qty * a.entry)) <= RoundedIn(f)

Filled == {o \in Orders : orders[o].status = "filled"}
BooksBalance == BooksOf(acct, fills, Filled)

\* The accounts a and b show the same books.
SameBooks(a, b) ==
    /\ b.qty = a.qty /\ b.snapshot = a.snapshot /\ b.entry = a.entry
    /\ b.cash = a.cash /\ b.realized = a.realized /\ b.fees = a.fees

LEMMA SameBooksBalance ==
    ASSUME NEW a, NEW b, NEW f, NEW filled, SameBooks(a, b), BooksOf(a, f, filled)
    PROVE  BooksOf(b, f, filled)
BY DEF SameBooks, BooksOf

\* That is what BooksReconcile says.
LEMMA BalancedBooksReconcile ==
    ASSUME TypeOK, BooksBalance
    PROVE  BooksReconcile
<1>1. DOMAIN fills = 1..Len(fills)
  BY DEF TypeOK
<1>2. \A i : Rounding(i) = RoundingIn(fills, i)
  BY DEF Rounding, RoundingIn, Held, HeldIn
<1>3. SumFunction([i \in DOMAIN fills |-> fills[i].delta]) = HeldIn(fills, Len(fills))
  BY <1>1 DEF HeldIn
<1>4. SumFunction([i \in DOMAIN fills |-> Rounding(i)]) = RoundedIn(fills)
  BY <1>2 DEF RoundedIn
<1>5. \A o \in Orders : FillsOf(o) = {i \in DOMAIN fills : fills[i].order = o}
                        /\ (o \in Filled <=> orders[o].status = "filled")
  BY DEF FillsOf, Filled
<1>6. FillsExplainPosition
  BY <1>3, <1>5 DEF FillsExplainPosition, BooksBalance, BooksOf
<1>7. CashReconciles
  BY <1>4 DEF CashReconciles, BooksBalance, BooksOf, PaidIn, FeesIn
<1> QED
  BY <1>6, <1>7 DEF BooksReconcile

\* A fill keeps the books balanced: it is the one fill of the order it fills, and
\* pays what the account shows.
LEMMA FillKeepsBooks ==
    ASSUME NEW a \in Accounts, NEW delta \in Int, NEW q \in Quotes, NEW t \in Nat,
           NEW f \in Seq(FillRows), NEW filled \in SUBSET Orders,
           NEW who \in (Orders \cup {"exit"}) \ filled, BooksOf(a, f, filled)
    PROVE  BooksOf(ApplyDelta(a, delta, q, t),
                   Append(f, [order |-> who, delta |-> delta, price |-> FillPrice(delta, q)]),
                   filled \cup {who})
<1> DEFINE price == FillPrice(delta, q)
           row == [order |-> who, delta |-> delta, price |-> price]
           g == Append(f, row)
           n == Len(f)
           b == ApplyDelta(a, delta, q, t)
           r == RealizedBy(a, delta, price)
           entry == EntryAfter(a, delta, price)
           fee == Fee(delta, price)
<1>1. price \in Int /\ row \in FillRows
  BY FillPriceType DEF FillRows
<1>2. r \in Int /\ entry \in Int /\ fee \in Int
  BY <1>1, TradeTypes
<1>3. /\ a.qty \in Int /\ a.cash \in Int /\ a.realized \in Int /\ a.fees \in Int
      /\ a.entry \in Int /\ n \in Nat
  BY HoldingsType DEF Accounts
<1>4. /\ b.qty = a.qty + delta /\ b.snapshot = a.snapshot + 1 /\ b.entry = entry
      /\ b.cash = a.cash + r - fee /\ b.realized = a.realized + r /\ b.fees = a.fees + fee
  BY DEF ApplyDelta
<1>5. Len(g) = n + 1 /\ row.order = who /\ row.delta = delta /\ row.price = price
  OBVIOUS
<1> DEFINE moved == a.qty + delta
           drift == r + delta * price - moved * entry + a.qty * a.entry
           old == a.cash - (InitialCash - PaidIn(f) - a.fees + a.qty * a.entry)
           new == b.cash - (InitialCash - PaidIn(g) - b.fees + b.qty * b.entry)
           slack == RoundingOn(a.qty, delta)
<1>6. drift \in Int /\ 2 * Abs(drift) <= slack
  BY <1>1, FillBalances
<1>7. /\ HeldIn(g, n + 1) = HeldIn(f, n) + delta
      /\ PaidIn(f) \in Int /\ PaidIn(g) = PaidIn(f) + delta * price
      /\ FeesIn(f) \in Int /\ FeesIn(g) = FeesIn(f) + fee
      /\ RoundedIn(f) \in Int
      /\ RoundedIn(g) = RoundedIn(f) + RoundingOn(HeldIn(f, n), delta)
  BY <1>1, <1>5, OneMoreFill
<1>8. /\ a.qty = HeldIn(f, n) /\ a.snapshot = n
      /\ a.cash = InitialCash + a.realized - a.fees /\ a.fees = FeesIn(f)
      /\ 2 * Abs(old) <= RoundedIn(f)
  BY DEF BooksOf
<1>9. \A o \in Orders : Cardinality({i \in DOMAIN g : g[i].order = o})
                          = IF o \in filled \cup {who} THEN 1 ELSE 0
  <2> SUFFICES ASSUME NEW o \in Orders
               PROVE  Cardinality({i \in DOMAIN g : g[i].order = o})
                        = IF o \in filled \cup {who} THEN 1 ELSE 0
    OBVIOUS
  <2> DEFINE A == {i \in DOMAIN f : f[i].order = o}
             B == {i \in DOMAIN g : g[i].order = o}
  <2>1. Cardinality(A) = IF o \in filled THEN 1 ELSE 0
    BY DEF BooksOf
  <2>2. /\ DOMAIN f = 1..n /\ DOMAIN g = 1..(n + 1)
        /\ g[n + 1] = row /\ \A i \in 1..n : g[i] = f[i]
    BY <1>1
  <2>3. IsFiniteSet(A) /\ n + 1 \notin A
    <3>1. IsFiniteSet(1..n)
      BY <1>3, FS_Interval
    <3> QED
      BY <1>3, <2>2, <3>1, FS_Subset
  <2>4. B = IF o = who THEN A \cup {n + 1} ELSE A
    <3> HIDE DEF g, row, n
    <3> QED
      BY <1>3, <1>5, <2>2
  <2> HIDE DEF A, B
  <2>5. o = who => Cardinality(B) = Cardinality(A) + 1 /\ o \notin filled
    BY <2>3, <2>4, FS_AddElement
  <2>6. o # who => Cardinality(B) = Cardinality(A) /\ (o \in filled \cup {who} <=> o \in filled)
    BY <2>4
  <2>7. Cardinality(B) = IF o \in filled \cup {who} THEN 1 ELSE 0
    BY <2>1, <2>5, <2>6
  <2> QED
    BY <2>7 DEF B
<1> HIDE DEF g, row, b, r, entry, fee, price, n
<1>10. b.qty = HeldIn(g, Len(g)) /\ b.snapshot = Len(g)
  BY <1>4, <1>5, <1>7, <1>8
<1>11. b.cash = InitialCash + b.realized - b.fees
  <2>1. InitialCash \in Int
    BY ConstantTypes
  <2> DEFINE c == a.cash
             x == a.realized
             y == a.fees
  <2>2. c \in Int /\ x \in Int /\ y \in Int /\ c = InitialCash + x - y
    BY <1>3, <1>8
  <2>3. b.cash = c + r - fee /\ b.realized = x + r /\ b.fees = y + fee
    BY <1>4
  <2> HIDE DEF c, x, y
  <2> QED
    BY <1>2, <2>1, <2>2, <2>3
<1>12. RoundedIn(g) = RoundedIn(f) + slack
  BY <1>7, <1>8
<1>13. new = old + drift /\ old \in Int
  <2> DEFINE u == delta * price
             v == moved * entry
             w == a.qty * a.entry
             c == a.cash
             y == a.fees
             paid == PaidIn(f)
  <2>1. /\ u \in Int /\ v \in Int /\ w \in Int
        /\ c \in Int /\ y \in Int /\ paid \in Int /\ InitialCash \in Int
    <3>1. u \in Int
      BY <1>1
    <3>2. moved \in Int /\ w \in Int
      BY <1>3
    <3>3. v \in Int
      BY <1>2, <3>2
    <3> QED
      BY <1>3, <1>7, <3>1, <3>2, <3>3, ConstantTypes
  <2> DEFINE z == b.qty * b.entry
             bc == b.cash
             by == b.fees
             bp == PaidIn(g)
  <2>2. z = v /\ bc = c + r - fee /\ by = y + fee /\ bp = paid + u
    BY <1>4, <1>7
  <2>6. new = bc - (InitialCash - bp - by + z)
    OBVIOUS
  <2>3. old = c - (InitialCash - paid - y + w)
    OBVIOUS
  <2>4. drift = r + u - v + w
    OBVIOUS
  <2> HIDE DEF u, v, w, c, y, paid, z, bc, by, bp
  <2> HIDE DEF new, old, drift
  <2> QED
    BY <1>2, <2>1, <2>2, <2>3, <2>4, <2>6
<1> HIDE DEF moved, drift, old, new, slack
<1>14. 2 * Abs(new) <= RoundedIn(g)
  <2>1. slack \in Int
    BY <1>1, <1>3, ConstantTypes DEF slack, RoundingOn, Abs
  <2> QED
    BY <1>6, <1>7, <1>8, <1>12, <1>13, <2>1 DEF Abs
<1>15. b.fees = FeesIn(g)
  BY <1>4, <1>7, <1>8
<1>16. BooksOf(b, g, filled \cup {who})
  BY <1>9, <1>10, <1>11, <1>14, <1>15 DEF BooksOf, new
<1> QED
  BY <1>16 DEF b, g, row, price

\* Valuing an account keeps its books, and so does evaluating exits.
LEMMA ValuedBooks ==
    ASSUME NEW a \in Accounts, NEW e \in Int, NEW valid \in BOOLEAN
    PROVE  SameBooks(a, Valued(a, e, valid))
BY DEF SameBooks, Valued, Accounts

LEMMA EvaluationBooks ==
    ASSUME TypeOK, NEW q \in Quotes, NEW t \in 0..clock
    PROVE  SameBooks(acct, Evaluation(q, t).acct)
<1> DEFINE seen == IF QuoteValid(q, t) THEN Peaked(acct, q) ELSE acct
           worth == IF QuoteValid(q, t) THEN Equity(acct, q) ELSE acct.cash
           valid == QuoteValid(q, t)
<1>1. acct \in Accounts /\ acct.cash \in Int /\ worth \in Int /\ valid \in BOOLEAN
  BY EquityTypes DEF TypeOK, Accounts, QuoteValid, Quotes
<1>2. seen \in Accounts /\ SameBooks(acct, seen)
  BY <1>1, ViewTypes DEF Peaked, SameBooks, Accounts
<1>3. Evaluation(q, t).acct = Valued(seen, worth, valid)
  BY DEF Evaluation
<1> HIDE DEF seen, worth, valid
<1>4. SameBooks(seen, Valued(seen, worth, valid))
  BY <1>1, <1>2, ValuedBooks
<1> QED
  BY <1>2, <1>3, <1>4 DEF SameBooks

\* A step that leaves the position alone fills no order.
LEMMA StillPositionFillsNone ==
    ASSUME TypeOK, PendingOrderIsCurrent, [Next]_vars, acct'.qty = acct.qty
    PROVE  Filled' = Filled
<1>1. \A x : LifeOf(x) = "filled" <=> x = "filled"
  BY DEF LifeOf
<1>2. /\ Filled = {o \in Orders : LifeOfOrders[o] = "filled"}
      /\ Filled' = {o \in Orders : LifeOfOrders'[o] = "filled"}
  BY <1>1, LifeOfOne DEF Filled
<1>3. \A D \in SUBSET {o \in Orders : LifeOfOrders[o] \in {"new", "outstanding"}} :
        /\ Lifecycle!Dropping(D) \in [Orders -> {"dropped"} \cup {LifeOfOrders[o] : o \in Orders}]
        /\ \A o \in Orders : Lifecycle!Dropping(D)[o] = "filled" <=> LifeOfOrders[o] = "filled"
  BY DEF Lifecycle!Dropping
<1>4. Lifecycle!Next \/ UNCHANGED <<LifeOfOrders, acct.qty>>
  BY LifecycleStep
<1>5. CASE Lifecycle!Drop
  BY <1>2, <1>3, <1>5 DEF Lifecycle!Drop
<1>6. ASSUME NEW o \in Orders, Lifecycle!Submit(o) PROVE Filled' = Filled
  BY <1>2, <1>3, <1>6 DEF Lifecycle!Submit, Lifecycle!Outstanding
<1>7. ASSUME NEW o \in Orders, Lifecycle!FillOrder(o) PROVE FALSE
  BY <1>7 DEF Lifecycle!FillOrder
<1>8. CASE Lifecycle!Close
  BY <1>8 DEF Lifecycle!Close
<1>9. CASE UNCHANGED <<LifeOfOrders, acct.qty>>
  BY <1>2, <1>9
<1> QED
  BY <1>4, <1>5, <1>6, <1>7, <1>8, <1>9 DEF Lifecycle!Next

\* A fill keeps the books balanced.
LEMMA BalancedFill ==
    ASSUME TypeOK, BooksBalance, NEW a \in Accounts, SameBooks(acct, a), NEW d,
           NEW delta \in Int, NEW q \in Quotes, NEW t \in Nat,
           NEW who \in (Orders \cup {"exit"}) \ Filled,
           Fill(a, d, delta, q, t, who),
           \A o \in Orders : o \in Filled' <=> o \in Filled \/ o = who
    PROVE  BooksBalance'
<1>1. BooksOf(a, fills, Filled)
  BY SameBooksBalance DEF BooksBalance
<1>2. fills \in Seq(FillRows) /\ Filled \in SUBSET Orders
  BY DEF TypeOK, Filled
<1> DEFINE row == [order |-> who, delta |-> delta, price |-> FillPrice(delta, q)]
<1>3. BooksOf(ApplyDelta(a, delta, q, t), Append(fills, row), Filled \cup {who})
  BY <1>1, <1>2, FillKeepsBooks
<1>4. acct' = ApplyDelta(a, delta, q, t) /\ fills' = Append(fills, row)
  BY DEF Fill
<1> HIDE DEF row
<1>5. BooksOf(acct', fills', Filled \cup {who})
  BY <1>3, <1>4
<1>6. BooksOf(acct', fills', Filled')
  BY <1>5 DEF BooksOf
<1> QED
  BY <1>6 DEF BooksBalance

\* Every step keeps the books balanced.
LEMMA BooksStep ==
    ASSUME TypeOK, PendingOrderIsCurrent, BooksBalance, [Next]_vars
    PROVE  BooksBalance'
<1>1. acct \in Accounts /\ clock \in Nat
  BY ConstantTypes DEF TypeOK
<1>2. ASSUME SameBooks(acct, acct'), fills' = fills
      PROVE  BooksBalance'
  <2>1. Filled' = Filled
    BY <1>2, StillPositionFillsNone DEF SameBooks
  <2>2. BooksOf(acct', fills, Filled)
    BY <1>2, SameBooksBalance DEF BooksBalance
  <2> QED
    BY <1>2, <2>1, <2>2 DEF BooksBalance
<1>3. CASE Environment \/ ExpireOrders \/ UNCHANGED vars
  <2>1. acct' = acct /\ fills' = fills
    BY <1>3 DEF Environment, Tick, Publish, Halt, Pause, Resume, Restart, ExpireOrders, vars
  <2> QED
    BY <1>2, <2>1 DEF SameBooks
<1>4. CASE EventWorker
  <2>1. SnapshotEquity \in Int /\ SnapshotValid \in BOOLEAN
    BY <1>1, EquityTypes DEF SnapshotEquity, SnapshotValid, QuoteValid, TypeOK, Accounts, Quotes
  <2>2. acct' \in {acct, SnapshotAccount} /\ fills' = fills
    BY <1>4 DEF EventWorker, Decide, Assess, Record
  <2>3. SameBooks(acct, SnapshotAccount)
    BY <1>1, <2>1, ValuedBooks DEF SnapshotAccount
  <2> QED
    BY <1>2, <2>2, <2>3 DEF SameBooks
<1>5. ASSUME NEW w \in Workers, LedgerWorker(w) PROVE BooksBalance'
  <2> DEFINE q == call[w].quote
  <2>1. q \in Quotes
    BY DEF TypeOK
  <2>2. CASE Read(w) \/ Abandon(w)
    BY <1>2, <2>2 DEF Read, Abandon, SameBooks
  <2>3. ASSUME NEW t \in 0..clock, Evaluate(w, t) PROVE BooksBalance'
    <3> DEFINE ev == Evaluation(q, t)
    <3>1. t \in Nat /\ ev.acct \in Accounts /\ SameBooks(acct, ev.acct)
      BY <1>1, <2>1, EvaluationTypes, EvaluationBooks
    <3>2. CASE EvaluateFlat(t)
      <4>1. SameBooks(acct, acct') /\ fills' = fills
        BY <1>1, <3>2 DEF EvaluateFlat, SameBooks, Accounts
      <4> QED
        BY <1>2, <4>1
    <3>3. CASE EvaluateQuiet(q, t)
      BY <1>2, <3>1, <3>3 DEF EvaluateQuiet
    <3>4. CASE EvaluateExit(q, t)
      <4>1. CASE /\ acct' = [ev.acct EXCEPT
                               !.exitReason = ev.reason,
                               !.exitSince = IF acct.exitReason = "none" THEN t ELSE @]
                 /\ fills' = fills
        <5> HIDE DEF ev
        <5>1. SameBooks(ev.acct, acct')
          BY <3>1, <4>1 DEF SameBooks, Accounts
        <5>2. SameBooks(acct, acct')
          BY <3>1, <5>1 DEF SameBooks
        <5> QED
          BY <1>2, <4>1, <5>2
      <4>2. CASE Fill(ev.acct, ev.daily, -acct.qty, q, t, "exit")
        <5>1. AfterExit(t) \in [Orders -> Statuses] /\ orders' = WithStatus(AfterExit(t))
          BY <3>1, <3>4, AfterTypes DEF EvaluateExit
        <5>2. \A o \in Orders : orders'[o].status = AfterExit(t)[o]
          BY <5>1, PrologueRetires, WithStatusRetires
        <5>3. Filled' = Filled
          BY <5>2, RetiringDrops DEF Filled, Pending
        <5>4. "exit" \in (Orders \cup {"exit"}) \ Filled /\ "exit" \notin Orders
          BY LedgerAssumption DEF LedgerAssumption, Filled
        <5>5. -acct.qty \in Int
          BY <1>1, HoldingsType DEF Accounts
        <5>6. \A o \in Orders : o \in Filled' <=> o \in Filled \/ o = "exit"
          BY <5>3, <5>4
        <5> HIDE DEF ev, q
        <5> QED
          BY <2>1, <3>1, <4>2, <5>4, <5>5, <5>6, BalancedFill
      <4> QED
        BY <3>4, <4>1, <4>2 DEF EvaluateExit
    <3> QED
      BY <2>3, <3>2, <3>3, <3>4 DEF Evaluate
  <2>4. ASSUME NEW t \in 0..clock, FillPending(w, t) PROVE BooksBalance'
    <3>1. CASE FillNothing(q, t)
      BY <1>2, <3>1 DEF FillNothing, SameBooks
    <3>2. ASSUME NEW o \in Orders, FillOne(o, q, t) PROVE BooksBalance'
      <4> DEFINE e == Equity(acct, q)
                 a == Valued(acct, e, TRUE)
                 d == EnsureDaily(acct, daily, t, e, TRUE)
                 outcome == Outcome(o, q, t, d[DayOf(t)])
                 delta == Delta(acct, orders[o].weight, q)
      <4>1. e \in Int /\ delta \in Int /\ t \in Nat
        BY <1>1, <2>1, EquityTypes, DesiredQuantityType
      <4>2. a \in Accounts /\ SameBooks(acct, a)
        BY <1>1, <4>1, ValuedType, ValuedBooks
      <4>3. CASE outcome = "filled"
        <5>1. Fill(a, d, delta, q, t, o)
          BY <3>2, <4>3 DEF FillOne
        <5>2. /\ Pending = {o}
              /\ \A p \in Orders : orders'[p].status = IF p = o THEN "filled"
                                                       ELSE orders[p].status
          BY <2>1, <3>2, <4>3, FilledOne
        <5>3. o \in (Orders \cup {"exit"}) \ Filled
          BY <5>2 DEF Pending, Filled
        <5>4. \A p \in Orders : p \in Filled' <=> p \in Filled \/ p = o
          BY <5>2 DEF Filled
        <5> HIDE DEF a, d, delta, q
        <5> QED
          BY <2>1, <4>1, <4>2, <5>1, <5>3, <5>4, BalancedFill
      <4>4. CASE outcome # "filled"
        <5>1. acct' \in {acct, a} /\ fills' = fills
          BY <3>2, <4>4 DEF FillOne
        <5> QED
          BY <1>2, <4>2, <5>1 DEF SameBooks
      <4> QED
        BY <4>3, <4>4
    <3> QED
      BY <2>4, <3>1, <3>2 DEF FillPending
  <2> QED
    BY <1>5, <2>2, <2>3, <2>4 DEF LedgerWorker
<1>6. CASE Shutdown
  <2>1. SameBooks(acct, acct') /\ fills' = fills
    BY <1>1, <1>6 DEF Shutdown, CancelOnStop, RequestExit, SameBooks, Accounts
  <2> QED
    BY <1>2, <2>1
<1> QED
  BY <1>3, <1>4, <1>5, <1>6 DEF Next

\* The books balance before the first fill.
LEMMA BooksOpenBalanced == Init => BooksBalance
<1> SUFFICES ASSUME Init PROVE BooksBalance
  OBVIOUS
<1>1. fills = <<>> /\ Len(fills) = 0 /\ DOMAIN fills = {}
  BY DEF Init
<1>2. \A f : DOMAIN f = {} => SumFunction(f) = 0
  <2> SUFFICES ASSUME NEW f, DOMAIN f = {} PROVE SumFunction(f) = 0
    OBVIOUS
  <2>1. IsFiniteSet({}) /\ \A x \in {} : f[x] = 0
    BY FS_EmptySet
  <2>2. SumFunctionOnSet(f, {}) = 0
    BY <2>1, SumOfZeros
  <2> QED
    BY <2>2 DEF SumFunction
<1>3. 1..0 = {}
  OBVIOUS
<1>4. HeldIn(fills, 0) = 0
  BY <1>2, <1>3 DEF HeldIn
<1>5. PaidIn(fills) = 0 /\ FeesIn(fills) = 0
  BY <1>1, <1>2 DEF PaidIn, FeesIn
<1>6. RoundedIn(fills) = 0
  BY <1>1, <1>2 DEF RoundedIn
<1>7. \A o \in Orders : Cardinality({i \in DOMAIN fills : fills[i].order = o}) = 0
                        /\ o \notin Filled
  BY <1>1, FS_EmptySet DEF Init, NoOrder, Filled
<1>8. InitialCash \in Int
  BY ConstantTypes
<1>9. /\ acct.qty = 0 /\ acct.snapshot = 0 /\ acct.entry = 0 /\ acct.realized = 0
      /\ acct.fees = 0 /\ acct.cash = InitialCash
  BY DEF Init, InitialAccount
<1>10. 2 * Abs(InitialCash - (InitialCash - 0 - 0 + 0 * 0)) <= 0
  BY <1>8 DEF Abs
<1> QED
  BY <1>1, <1>4, <1>5, <1>6, <1>7, <1>8, <1>9, <1>10 DEF BooksBalance, BooksOf

\* The books agree with the fills for every market, policy and number of workers,
\* whatever is retried, cancelled, closed or restarted in between: the fills add up
\* to the position, an order has one fill when it is filled and none otherwise, the
\* fees are those of the fills, and the cash is what the fills paid, up to half a
\* price unit for each unit held when a fill averaged the entry and half a cent when
\* a fill realized a profit.
THEOREM BooksStayReconciled == Spec => []BooksReconcile
<1>1. TypeOK /\ PendingOrderIsCurrent /\ BooksBalance /\ [Next]_vars => BooksBalance'
  BY BooksStep
<1>2. TypeOK /\ BooksBalance => BooksReconcile
  BY BalancedBooksReconcile
<1> QED
  BY <1>1, <1>2, BooksOpenBalanced, TypeCorrect, PendingOrderStaysCurrent, PTL DEF Spec
-----------------------------------------------------------------------------
(***************************************************************************)
(* The quotes that orders fill at                                          *)
(***************************************************************************)
\* Only the workers that may fill orders go on to fill them.
FillersFill == \A w \in Workers : call[w].phase = "fill" => w \in FillWorkers

LEMMA FillersFillStep ==
    ASSUME TypeOK, FillersFill, [Next]_vars
    PROVE  FillersFill'
<1>1. ASSUME call' = call PROVE FillersFill'
  BY <1>1 DEF FillersFill
<1>2. CASE Environment \/ EventWorker \/ ExpireOrders \/ Shutdown \/ UNCHANGED vars
  <2>1. CASE Restart
    BY <2>1, SMTT(25) DEF Restart, Idle, FillersFill
  <2>2. CASE ~Restart
    BY <1>1, <1>2, <2>2
       DEF Environment, Tick, Publish, Halt, Pause, Resume, EventWorker, Decide, Assess, Record,
           ExpireOrders, Shutdown, CancelOnStop, RequestExit, vars
  <2> QED
    BY <2>1, <2>2
<1>3. ASSUME NEW w \in Workers, LedgerWorker(w) PROVE FillersFill'
  <2>1. call \in [Workers -> [phase : {"idle", "exit", "fill"}, quote : Quotes,
                              since : 0..MaxClock]]
    BY DEF TypeOK
  <2>2. ASSUME NEW c, call' = [call EXCEPT ![w] = c], c.phase = "fill" => w \in FillWorkers
        PROVE  FillersFill'
    BY <2>1, <2>2 DEF FillersFill
  <2>3. Idle.phase # "fill"
    BY DEF Idle
  <2>4. CASE Read(w) \/ Abandon(w)
    BY <2>2, <2>3, <2>4 DEF Read, Abandon
  <2>5. ASSUME NEW t, Leave(w, t) PROVE FillersFill'
    <3> DEFINE c == IF w \in FillWorkers /\ call[w].phase = "exit"
                    THEN [call[w] EXCEPT !.phase = "fill", !.since = t] ELSE Idle
    <3>1. call' = [call EXCEPT ![w] = c]
      BY <2>5 DEF Leave
    <3>2. c.phase = "fill" => w \in FillWorkers
      BY <2>3
    <3> HIDE DEF c
    <3> QED
      BY <2>2, <3>1, <3>2
  <2> QED
    BY <1>3, <2>4, <2>5 DEF LedgerWorker, Evaluate, FillPending
<1> QED
  BY <1>2, <1>3 DEF Next

\* An order is filled by an attempt to fill it and by nothing else.
LEMMA OnlyFillsFill ==
    ASSUME TypeOK, PendingOrderIsCurrent, [Next]_vars,
           NEW o \in Orders, o \in Pending, o \in Filled'
    PROVE  \E w \in Workers, t \in 0..clock :
             /\ FillPending(w, t) /\ FillOne(o, call[w].quote, t)
             /\ acct'.qty = acct.qty + Delta(acct, orders[o].weight, call[w].quote)
<1>1. acct'.qty # acct.qty
  BY StillPositionFillsNone DEF Pending, Filled
<1>2. acct \in Accounts /\ clock \in Nat
  BY ConstantTypes DEF TypeOK
<1>3. orders'[o].status = "filled"
  BY DEF Filled
<1>4. ~Environment /\ ~EventWorker /\ ~ExpireOrders /\ ~Shutdown /\ ~UNCHANGED vars
  <2>1. ~Environment
    BY <1>1 DEF Environment, Tick, Publish, Halt, Pause, Resume, Restart
  <2>2. ~EventWorker
    BY <1>1, SnapshotTypes DEF EventWorker, Decide, Assess, Record
  <2>3. ~ExpireOrders /\ ~Shutdown /\ ~UNCHANGED vars
    BY <1>1, <1>2 DEF ExpireOrders, Shutdown, CancelOnStop, RequestExit, Accounts, vars
  <2> QED
    BY <2>1, <2>2, <2>3
<1>5. PICK w \in Workers : LedgerWorker(w)
  BY <1>4 DEF Next
<1> DEFINE q == call[w].quote
<1>6. q \in Quotes
  BY DEF TypeOK
<1>7. ASSUME NEW f \in [Orders -> Statuses], orders' = WithStatus(f),
             \A p \in Orders : \/ f[p] = orders[p].status
                               \/ p \in Pending /\ f[p] \in {"expired", "cancelled"}
      PROVE  FALSE
  <2>1. \A p \in Orders : f[p] = "pending" => p \in Pending
    BY <1>7 DEF Pending
  <2>2. orders'[o].status = f[o]
    BY <1>7, <2>1, WithStatusRetires
  <2> QED
    BY <1>3, <1>7, <2>2 DEF Pending
<1>8. ASSUME NEW t \in 0..clock, Evaluate(w, t) PROVE FALSE
  <2> DEFINE kept == [p \in Orders |-> Retired(p, t, FALSE)]
  <2>1. t \in Nat
    BY <1>2
  <2>2. kept \in [Orders -> Statuses] /\ AfterExit(t) \in [Orders -> Statuses]
    BY <2>1, AfterTypes
  <2>3. orders' = WithStatus(kept) \/ orders' = WithStatus(AfterExit(t))
    BY <1>8 DEF Evaluate, EvaluateFlat, EvaluateQuiet, EvaluateExit
  <2>4. \A p \in Orders : \/ kept[p] = orders[p].status
                          \/ p \in Pending /\ kept[p] \in {"expired", "cancelled"}
    BY RetiringDrops
  <2>5. \A p \in Orders : \/ AfterExit(t)[p] = orders[p].status
                          \/ p \in Pending /\ AfterExit(t)[p] \in {"expired", "cancelled"}
    BY RetiringDrops
  <2> HIDE DEF kept
  <2> QED
    BY <1>7, <2>2, <2>3, <2>4, <2>5
<1>9. PICK t \in 0..clock : FillPending(w, t)
  <2>1. ~(Read(w) \/ Abandon(w))
    BY <1>1 DEF Read, Abandon
  <2> QED
    BY <1>5, <1>8, <2>1 DEF LedgerWorker
<1>10. PICK p \in Orders : FillOne(p, q, t)
  BY <1>1, <1>9 DEF FillPending, FillNothing
<1> DEFINE e == Equity(acct, q)
           a == Valued(acct, e, TRUE)
           d == EnsureDaily(acct, daily, t, e, TRUE)
           outcome == Outcome(p, q, t, d[DayOf(t)])
           delta == Delta(acct, orders[p].weight, q)
<1>11. e \in Int /\ a.qty = acct.qty
  BY <1>2, <1>6, EquityTypes, ViewTypes
<1>12. outcome = "filled"
  <2>1. ASSUME outcome # "filled" PROVE acct' \in {acct, a}
    BY <1>10, <2>1 DEF FillOne
  <2> HIDE DEF outcome, a
  <2> QED
    BY <1>1, <1>11, <2>1
<1>13. p = o
  BY <1>6, <1>10, <1>12, FilledOne, ZenonT(40)
<1>14. acct'.qty = acct.qty + delta
  <2>1. acct' = ApplyDelta(a, delta, q, t)
    BY <1>10, <1>12 DEF FillOne, Fill
  <2> HIDE DEF a, delta
  <2>2. acct'.qty = a.qty + delta
    BY <2>1, ApplyDeltaFields
  <2> QED
    BY <1>11, <2>2
<1> QED
  BY <1>9, <1>10, <1>13, <1>14

\* What FillsUseLaterQuotes says of one order and one step.
FilledAtLaterQuote(o) ==
    /\ clock - MaxLag < Least(orders[o].validUntil, orders[o].approvedUntil)
    /\ \E w \in FillWorkers :
         LET q == call[w].quote
         IN  /\ call'[w] # call[w] /\ q.good
             /\ q.at >= Greatest(orders[o].completedAt, orders[o].recordedAt)
             /\ acct'.qty = acct.qty + Delta(acct, orders[o].weight, q)

LEMMA FilledAtLaterQuoteStep ==
    ASSUME TypeOK, PendingOrderIsCurrent, FillersFill, [Next]_vars,
           NEW o \in Orders, orders[o].status = "pending", orders'[o].status = "filled"
    PROVE  FilledAtLaterQuote(o)
<1>1. PICK w \in Workers, t \in 0..clock :
        /\ FillPending(w, t) /\ FillOne(o, call[w].quote, t)
        /\ acct'.qty = acct.qty + Delta(acct, orders[o].weight, call[w].quote)
  BY OnlyFillsFill DEF Pending, Filled
<1> DEFINE q == call[w].quote
<1>2. w \in FillWorkers
  BY <1>1 DEF FillPending, FillersFill
<1>3. call'[w] # call[w]
  <2>1. call[w].phase = "fill" /\ call'[w] = Idle
    BY <1>1 DEF FillPending, Leave, TypeOK
  <2> QED
    BY <2>1 DEF Idle
<1>4. q.good /\ q.at >= Greatest(orders[o].completedAt, orders[o].recordedAt)
  BY <1>1 DEF FillOne, QuoteValid, Causal
<1>5. clock - MaxLag < Least(orders[o].validUntil, orders[o].approvedUntil)
  <2>1. t >= clock - MaxLag
    <3>1. t \in ReadTimes(call[w].since) /\ call[w].since \in Int
      BY <1>1, ConstantTypes DEF FillPending, TypeOK
    <3>2. clock \in Int /\ MaxLag \in Int /\ t \in Int
      BY ConstantTypes DEF TypeOK
    <3> QED
      BY <3>1, <3>2 DEF ReadTimes, Greatest
  <2>2. ~Expired(o, t)
    BY <1>1 DEF FillOne, Survivors, Retired, Pending
  <2>3. orders[o].validUntil \in Int /\ orders[o].approvedUntil \in Int
    BY DEF TypeOK, OrderRows
  <2>4. clock \in Int /\ MaxLag \in Int /\ t \in Int
    BY ConstantTypes DEF TypeOK
  <2> QED
    BY <2>1, <2>2, <2>3, <2>4 DEF Expired, Least
<1> QED
  BY <1>1, <1>2, <1>3, <1>4, <1>5 DEF FilledAtLaterQuote

\* An order never fills at a price the market showed before the decision was
\* complete or the order recorded, however old the quote its worker had read, nor
\* later than the lag of the clock after it ran out.
THEOREM FillsUseLaterQuotesAlways == Spec => FillsUseLaterQuotes
<1>1. Init => FillersFill
  BY DEF Init, Idle, FillersFill
<1>2. TypeOK /\ FillersFill /\ [Next]_vars => FillersFill'
  BY FillersFillStep
<1>3. TypeOK /\ PendingOrderIsCurrent /\ FillersFill /\ [Next]_vars =>
        [\A o \in Orders :
           orders[o].status = "pending" /\ orders'[o].status = "filled" =>
             /\ clock - MaxLag < Least(orders[o].validUntil, orders[o].approvedUntil)
             /\ \E w \in FillWorkers :
                  LET q == call[w].quote
                  IN  /\ call'[w] # call[w] /\ q.good
                      /\ q.at >= Greatest(orders[o].completedAt, orders[o].recordedAt)
                      /\ acct'.qty = acct.qty + Delta(acct, orders[o].weight, q)]_vars
  BY FilledAtLaterQuoteStep DEF FilledAtLaterQuote
<1> QED
  BY <1>1, <1>2, <1>3, TypeCorrect, PendingOrderStaysCurrent, PTL DEF Spec, FillsUseLaterQuotes
-----------------------------------------------------------------------------
(***************************************************************************)
(* The retargeted account                                                  *)
(***************************************************************************)
\* The state keeps its type: in particular no sequence of targets and market
\* moves takes the position beyond the volume limit of the policy.
THEOREM PositionStaysInLimits == AccountSpec => []AccountTypeOK
<1>1. AccountInit => AccountTypeOK
  BY RetargetingAssumption DEF AccountInit, AccountTypeOK, SizingPolicy
<1>2. AccountTypeOK /\ [AccountNext]_accountVars => AccountTypeOK'
  <2> SUFFICES ASSUME AccountTypeOK, [AccountNext]_accountVars PROVE AccountTypeOK'
    OBVIOUS
  <2>1. CASE Move
    BY <2>1 DEF Move, AccountTypeOK
  <2>2. ASSUME NEW w \in Targets, Retarget(w) PROVE AccountTypeOK'
    <3>1. policy \in SizingPolicy /\ equity \in Int /\ mid2 \in Nat /\ w \in Int
      BY RetargetingAssumption DEF AccountTypeOK
    <3>2. Desired(w) \in -policy.maxVolume .. policy.maxVolume
      BY <3>1, DesiredQuantityBounds DEF Desired
    <3> QED
      BY <2>2, <3>2 DEF Retarget, AccountTypeOK
  <2>3. CASE UNCHANGED accountVars
    BY <2>3 DEF accountVars, AccountTypeOK
  <2> QED
    BY <2>1, <2>2, <2>3 DEF AccountNext
<1> QED
  BY <1>1, <1>2, PTL DEF AccountSpec

\* A change that is not classified as increasing risk neither adds to the
\* position nor reverses it, for every policy, position, equity, price and weight.
THEOREM UncheckedChangesStaySafe == AccountSpec => []UncheckedChangesAreSafe
<1>1. AccountTypeOK => UncheckedChangesAreSafe
  <2> SUFFICES ASSUME AccountTypeOK, NEW w \in Targets,
                      ~IncreasesRisk(policy, qty, equity, mid2, w)
               PROVE  /\ Abs(Desired(w)) <= Abs(qty)
                      /\ Desired(w) # 0 => (Desired(w) > 0) = (qty > 0)
                      /\ Kind(w) = "no_change" => Desired(w) = qty
    BY DEF UncheckedChangesAreSafe
  <2>1. policy \in SizingPolicy /\ equity \in Int /\ mid2 \in Nat /\ w \in Int
    BY RetargetingAssumption DEF AccountTypeOK
  <2>2. qty \in Int
    BY <2>1 DEF AccountTypeOK, SizingPolicy
  <2> QED
    BY <2>1, <2>2, UncheckedChangeBounds DEF Desired, Kind
<1> QED
  BY <1>1, PositionStaysInLimits, PTL

\* In every state a larger target weight asks for at least as large a position.
THEOREM SizeAlwaysFollowsWeight == AccountSpec => []SizeFollowsWeight
<1>1. AccountTypeOK => SizeFollowsWeight
  <2> SUFFICES ASSUME AccountTypeOK, NEW v \in Targets, NEW w \in Targets, v <= w
               PROVE  Desired(v) <= Desired(w)
    BY DEF SizeFollowsWeight
  <2>1. /\ policy \in SizingPolicy /\ equity \in Int /\ mid2 \in Nat
        /\ v \in Int /\ w \in Int
    BY RetargetingAssumption DEF AccountTypeOK
  <2> QED
    BY <2>1, DesiredQuantityMonotone DEF Desired
<1> QED
  BY <1>1, PositionStaysInLimits, PTL

\* In unit mode every target gets the largest size its equity affords, up to the
\* volume limit, for every equity and price.
THEOREM UnitsStayAffordable == AccountSpec => []UnitsAreAffordable
<1>1. AccountTypeOK => UnitsAreAffordable
  <2> SUFFICES ASSUME AccountTypeOK, NEW w \in Targets, IsLegacy(policy), mid2 > 0, equity > 0
               PROVE  LET size == Abs(Desired(w))
                      IN  /\ size <= policy.maxVolume /\ Notional(size) <= Requested(w)
                          /\ size < policy.maxVolume => Notional(size + 1) > Requested(w)
    BY DEF UnitsAreAffordable
  <2>1. /\ policy \in SizingPolicy /\ w \in Int /\ Abs(w) \in Nat
        /\ equity \in Nat \ {0} /\ mid2 \in Nat \ {0}
    BY RetargetingAssumption DEF AccountTypeOK, Abs
  <2> DEFINE n == 2 * equity * Abs(w)
             d == policy.scale * mid2
             k == RoundDown(n, d)
  <2>2. n \in Nat /\ d \in Nat \ {0} /\ policy.scale \in Nat \ {0}
        /\ policy.maxVolume \in Nat \ {0} /\ policy.leverage = 1
    <3>1. Abs(w) <= Abs(w)
      BY <2>1
    <3> QED
      BY <2>1, <3>1, CapTerms, SizingTerms DEF SizingPolicy, IsLegacy
  <2>3. k \in Nat /\ k * d <= n /\ n < (k + 1) * d
    BY <2>2, RoundDownBounds
  <2>4. Requested(w) = n
    BY <2>1, <2>2 DEF Requested
  <2>5. \A x \in Nat : Notional(x) = x * d
    BY <2>1, <2>2 DEF Notional
  <2>6. Abs(Desired(w)) = Least(k, policy.maxVolume)
    <3>1. CASE w = 0
      <4>1. n = 0
        BY <2>1, <3>1 DEF Abs
      <4>2. k = 0
        BY <2>2, <4>1 DEF RoundDown
      <4> QED
        BY <2>2, <3>1, <4>2 DEF Desired, quantize_target_quantity_eur, Abs, Least
    <3>2. CASE w # 0
      <4>1. Desired(w) = Signed(w, LegacySize(policy, equity, mid2, w))
        BY <2>1, <3>2 DEF Desired, quantize_target_quantity_eur
      <4>2. LegacySize(policy, equity, mid2, w) = Least(k, policy.maxVolume)
        BY DEF LegacySize
      <4>3. Least(k, policy.maxVolume) \in Nat
        BY <2>2, <2>3 DEF Least
      <4> QED
        BY <2>1, <4>1, <4>2, <4>3 DEF Signed, Abs
    <3> QED
      BY <3>1, <3>2
  <2> DEFINE size == Least(k, policy.maxVolume)
  <2>7. size \in Nat /\ size <= policy.maxVolume /\ size <= k
        /\ (size < policy.maxVolume => size = k)
    BY <2>2, <2>3 DEF Least
  <2>8. size * d <= k * d
    BY <2>2, <2>3, <2>7, ProductMonotone
  <2>9. Notional(size) = size * d /\ Notional(size + 1) = (size + 1) * d
    BY <2>5, <2>7
  <2> HIDE DEF size, n, d, k
  <2>10. Notional(size) <= n /\ (size < policy.maxVolume => Notional(size + 1) > n)
    <3>1. size * d \in Nat /\ k * d \in Nat /\ (size + 1) * d \in Nat
      BY <2>2, <2>3, <2>7
    <3> QED
      BY <2>2, <2>3, <2>7, <2>8, <2>9, <3>1
  <2> QED
    BY <2>4, <2>6, <2>7, <2>10 DEF size
<1> QED
  BY <1>1, PositionStaysInLimits, PTL

\* A volume that is a multiple of the step is a whole number of lots.
LEMMA WholeLots ==
    ASSUME NEW step \in Nat \ {0}, NEW s \in Nat, s % step = 0
    PROVE  \E j \in Nat : s = step * j
<1>1. s \div step \in Nat /\ s = step * (s \div step) + (s % step)
  OBVIOUS
<1> QED
  BY <1>1

\* Lots compare as their volumes do, and a whole number of lots is a multiple.
LEMMA LotsCompare ==
    ASSUME NEW step \in Nat \ {0}, NEW x \in Nat, NEW y \in Nat
    PROVE  /\ step * x \in Nat /\ step * y \in Nat
           /\ (step * x <= step * y) <=> (x <= y)
           /\ (step * x) % step = 0
OBVIOUS

\* Among the whole numbers from least to most, the half-up rounding of n / d, cut
\* to that range, is the one whose multiple of d is nearest to n, the larger of two.
LEMMA RoundingIsNearest ==
    ASSUME NEW n \in Nat, NEW d \in Nat \ {0}, NEW least \in Nat, NEW most \in Nat,
           least <= most, NEW j \in least .. most
    PROVE  LET z == Least(Greatest(RoundHalfUp(n, d), least), most)
           IN  /\ z \in least .. most
               /\ \/ Abs(z * d - n) < Abs(j * d - n)
                  \/ Abs(z * d - n) = Abs(j * d - n) /\ j <= z
<1> DEFINE k == RoundHalfUp(n, d)
           z == Least(Greatest(k, least), most)
           Nearer == \/ Abs(z * d - n) < Abs(j * d - n)
                     \/ Abs(z * d - n) = Abs(j * d - n) /\ j <= z
<1>1. k \in Nat /\ 2 * (k * d) <= 2 * n + d /\ 2 * n + d < 2 * (k * d) + 2 * d
  <2>1. 2 * n + d \in Nat /\ 2 * d \in Nat \ {0}
    OBVIOUS
  <2>2. k = RoundDown(2 * n + d, 2 * d)
    BY DEF RoundHalfUp, RoundDown
  <2> HIDE DEF k
  <2>3. k \in Nat /\ k * (2 * d) <= 2 * n + d /\ 2 * n + d < (k + 1) * (2 * d)
    BY <2>1, <2>2, RoundDownBounds
  <2> QED
    BY <2>3
<1> HIDE DEF k
<1>2. z \in least .. most /\ (least < z => z <= k) /\ (z < most => k <= z)
  BY <1>1 DEF Least, Greatest
<1> HIDE DEF z
<1>3. j \in Nat /\ z \in Nat /\ k * d \in Nat /\ j * d \in Nat /\ z * d \in Nat
  BY <1>1, <1>2
<1>4. ASSUME j < z PROVE Nearer
  <2>1. z <= k /\ j + 1 <= z
    BY <1>2, <1>3, <1>4
  <2>2. z * d <= k * d /\ (j + 1) * d <= z * d
    BY <1>1, <1>3, <2>1
  <2>3. (j + 1) * d = j * d + d
    BY <1>3
  <2>4. 2 * (z * d) <= 2 * n + d /\ 2 * (j * d) + d <= 2 * n
    BY <1>1, <1>3, <2>2, <2>3
  <2> QED
    BY <1>2, <1>3, <1>4, <2>2, <2>3, <2>4 DEF Abs
<1>5. ASSUME z < j PROVE Nearer
  <2>1. k <= z /\ z + 1 <= j
    BY <1>2, <1>3, <1>5
  <2>2. k * d <= z * d /\ (z + 1) * d <= j * d
    BY <1>1, <1>3, <2>1
  <2>3. (z + 1) * d = z * d + d
    BY <1>3
  <2>4. 2 * n < 2 * (z * d) + d /\ 2 * n + d < 2 * (j * d)
    BY <1>1, <1>3, <2>2, <2>3
  <2> QED
    BY <1>2, <1>3, <1>5, <2>2, <2>3, <2>4 DEF Abs
<1>6. ASSUME j = z PROVE Nearer
  BY <1>3, <1>6
<1> QED
  <2>1. z \in least .. most /\ Nearer
    BY <1>2, <1>3, <1>4, <1>5, <1>6
  <2> QED
    BY <2>1 DEF z, k

\* Where the volume limits are whole lots, the size in lot mode is a whole number
\* of lots: the nearest, cut to the lots the volume limits and the cap leave.
LEMMA LotSizeInLots ==
    ASSUME NEW p \in SizingPolicy, NEW e \in Nat \ {0}, NEW m \in Nat \ {0},
           NEW w \in Int, NEW least \in Nat, NEW most \in Nat,
           p.minVolume = p.step * least, p.maxVolume = p.step * most
    PROVE  LET near == NearestLots(p, e, m, w)
               room == RoundDown(2 * e * p.leverage * p.maxWeight, p.scale * m * p.step)
               top == Least(most, room)
           IN  LotSize(p, e, m, w) =
                 IF top < least THEN 0
                 ELSE p.step * Least(Greatest(near, least), top)
<1> DEFINE near == NearestLots(p, e, m, w)
           room == RoundDown(2 * e * p.leverage * p.maxWeight, p.scale * m * p.step)
           top == Least(most, room)
           step == p.step
           sized == Greatest(step * near, p.minVolume)
<1>1. near \in Nat /\ room \in Nat /\ step \in Nat \ {0}
  <2>1. Abs(w) <= Abs(w)
    BY DEF Abs
  <2>2. /\ 2 * e * p.leverage * Abs(w) \in Nat
        /\ 2 * e * p.leverage * p.maxWeight \in Nat
        /\ p.scale * m * p.step \in Nat \ {0}
    BY <2>1, CapTerms, SizingTerms
  <2> QED
    BY <2>2, RoundDownBounds, RoundHalfUpIsNatural DEF NearestLots, SizingPolicy
<1>2. /\ HardCap(p, e, m) = Least(step * most, step * room)
      /\ LotSize(p, e, m, w) =
           IF HardCap(p, e, m) < p.minVolume THEN 0 ELSE Least(sized, HardCap(p, e, m))
  BY DEF HardCap, LotSize
<1> HIDE DEF near, room, step
<1>3. p.minVolume = step * least
  BY DEF step
<1>4. top \in Nat /\ HardCap(p, e, m) = step * top
  BY <1>1, <1>2, LotsCompare DEF Least
<1> HIDE DEF top
<1> DEFINE mid == Greatest(near, least)
<1>5. mid \in Nat /\ sized = step * mid
  BY <1>1, <1>3, LotsCompare DEF Greatest
<1> HIDE DEF mid, sized
<1>6. Least(sized, HardCap(p, e, m)) = step * Least(mid, top)
  BY <1>1, <1>4, <1>5, LotsCompare DEF Least
<1>7. HardCap(p, e, m) < p.minVolume <=> top < least
  <2>1. step * least <= step * top <=> least <= top
    BY <1>1, <1>4, LotsCompare
  <2>2. step * least \in Nat /\ step * top \in Nat
    BY <1>1, <1>4, LotsCompare
  <2> QED
    BY <1>3, <1>4, <2>1, <2>2
<1>8. LotSize(p, e, m, w) = IF top < least THEN 0 ELSE step * Least(mid, top)
  BY <1>2, <1>6, <1>7
<1> QED
  BY <1>8 DEF near, room, top, step, mid

\* The lots whose notional respects a bound are those its rounding down counts.
LEMMA RoomInLots ==
    ASSUME NEW n \in Nat, NEW d \in Nat \ {0}, NEW j \in Nat
    PROVE  j * d <= n <=> j <= RoundDown(n, d)
<1> DEFINE k == RoundDown(n, d)
<1>1. k \in Nat /\ k * d <= n /\ n < (k + 1) * d
  BY RoundDownBounds
<1> HIDE DEF k
<1>2. j <= k => j * d <= k * d
  BY <1>1
<1>3. k + 1 <= j => (k + 1) * d <= j * d
  BY <1>1
<1>4. j * d \in Nat /\ k * d \in Nat /\ (k + 1) * d \in Nat
  BY <1>1
<1>5. j * d <= n <=> j <= k
  BY <1>1, <1>2, <1>3, <1>4
<1> QED
  BY <1>5 DEF k

\* Every target gets its right size, in lot mode the permitted size nearest to the
\* request and in unit mode the largest affordable one, for every policy whose
\* volume limits are whole lots, every equity, price and weight.
THEOREM SizesStayRight == AccountSpec => []SizesAreRight
<1>1. AccountTypeOK => SizeIsNearestPermitted
  <2> SUFFICES ASSUME AccountTypeOK, NEW w \in Targets,
                      ~IsLegacy(policy), w # 0, mid2 > 0, equity > 0
               PROVE  LET size == Abs(Desired(w))
                      IN  IF Permitted = {} THEN size = 0
                          ELSE /\ size \in Permitted
                               /\ \A s \in Permitted :
                                    \/ Miss(size, w) < Miss(s, w)
                                    \/ Miss(size, w) = Miss(s, w) /\ s <= size
    BY DEF SizeIsNearestPermitted
  <2>1. /\ policy \in SizingPolicy /\ w \in Int /\ Abs(w) \in Nat
        /\ equity \in Nat \ {0} /\ mid2 \in Nat \ {0}
        /\ policy.minVolume % policy.step = 0 /\ policy.maxVolume % policy.step = 0
    BY RetargetingAssumption DEF AccountTypeOK, Abs
  <2> DEFINE step == policy.step
             n == 2 * equity * policy.leverage * Abs(w)
             limit == 2 * equity * policy.leverage * policy.maxWeight
             d == policy.scale * mid2 * policy.step
             room == RoundDown(limit, d)
             near == RoundHalfUp(n, d)
  <2>2. /\ n \in Nat /\ limit \in Nat /\ d \in Nat \ {0} /\ step \in Nat \ {0}
        /\ policy.minVolume \in Nat \ {0} /\ policy.maxVolume \in Nat
        /\ policy.maxWeight \in Nat /\ policy.scale \in Nat
    <3>1. Abs(w) <= Abs(w)
      BY <2>1
    <3> QED
      BY <2>1, <3>1, CapTerms, SizingTerms DEF SizingPolicy
  <2>3. PICK least \in Nat : policy.minVolume = step * least
    BY <2>1, <2>2, WholeLots
  <2>4. PICK most \in Nat : policy.maxVolume = step * most
    BY <2>1, <2>2, WholeLots
  <2> DEFINE top == Least(most, room)
             best == Least(Greatest(near, least), top)
  <2>5. Abs(Desired(w)) = IF top < least THEN 0 ELSE step * best
    <3>1. Desired(w) = Signed(w, LotSize(policy, equity, mid2, w))
      BY <2>1 DEF Desired, quantize_target_quantity_eur
    <3>2. LotSize(policy, equity, mid2, w) \in Nat
      BY <2>1, <2>2, LotSizeBounds
    <3>3. Abs(Desired(w)) = LotSize(policy, equity, mid2, w)
      BY <2>1, <3>1, <3>2 DEF Signed, Abs
    <3> QED
      BY <2>1, <2>3, <2>4, <3>3, LotSizeInLots DEF NearestLots
  <2>6. room \in Nat /\ near \in Nat
    BY <2>2, RoundDownBounds, RoundHalfUpIsNatural
  <2>7. top \in Nat /\ \A j \in Nat : j <= top <=> j <= most /\ j <= room
    BY <2>6 DEF Least
  <2>8. Requested(w) = n /\ Requested(policy.maxWeight) = limit
    BY <2>2 DEF Requested, Abs
  <2>9. \A j \in Nat : Notional(step * j) = j * d
    BY <2>1, <2>2 DEF Notional
  <2>10. \A j \in Nat : j * d <= limit <=> j <= room
    BY <2>2, RoomInLots
  <2>11. ASSUME NEW j \in least .. top
         PROVE  /\ best \in least .. top
                /\ \/ Abs(best * d - n) < Abs(j * d - n)
                   \/ Abs(best * d - n) = Abs(j * d - n) /\ j <= best
    <3>1. least <= top /\ top \in Nat
      BY <2>7
    <3> HIDE DEF n, d, top
    <3> QED
      BY <2>2, <3>1, RoundingIsNearest
  <2> HIDE DEF step, n, limit, d, room, near, top, best
  <2>12. \A j \in Nat : step * j \in Permitted <=> j \in least .. top
    <3> SUFFICES ASSUME NEW j \in Nat
                 PROVE  step * j \in Permitted <=> j \in least .. top
      OBVIOUS
    <3>1. /\ step * j \in Nat /\ (step * j) % step = 0
          /\ (step * least <= step * j <=> least <= j)
          /\ (step * j <= step * most <=> j <= most)
      BY <2>2, LotsCompare
    <3>2. step * j \in policy.minVolume .. policy.maxVolume <=> least <= j /\ j <= most
      BY <2>2, <2>3, <2>4, <3>1
    <3>3. Notional(step * j) <= Requested(policy.maxWeight) <=> j <= room
      BY <2>8, <2>9, <2>10
    <3>4. step * j \in Permitted <=> (least <= j /\ j <= most) /\ j <= room
      BY <3>1, <3>2, <3>3 DEF Permitted, step
    <3> QED
      BY <2>7, <3>4
  <2>13. \A s \in Permitted : \E j \in least .. top : s = step * j
    <3> SUFFICES ASSUME NEW s \in Permitted
                 PROVE  \E j \in least .. top : s = step * j
      OBVIOUS
    <3>1. s \in Nat /\ s % step = 0
      BY <2>2 DEF Permitted, step
    <3>2. PICK j \in Nat : s = step * j
      BY <2>2, <3>1, WholeLots
    <3> QED
      BY <2>12, <3>2
  <2>14. CASE top < least
    <3>1. Permitted = {}
      BY <2>7, <2>13, <2>14
    <3> QED
      BY <2>5, <2>14, <3>1
  <2>15. CASE least <= top
    <3>1. best \in least .. top /\ best \in Nat
      BY <2>7, <2>11, <2>15
    <3>2. Abs(Desired(w)) = step * best
      BY <2>5, <2>7, <2>15
    <3>3. step * best \in Permitted
      BY <2>12, <3>1
    <3>4. ASSUME NEW s \in Permitted
          PROVE  \/ Miss(step * best, w) < Miss(s, w)
                 \/ Miss(step * best, w) = Miss(s, w) /\ s <= step * best
      <4>1. PICK j \in least .. top : s = step * j
        BY <2>13
      <4>2. j \in Nat
        BY <4>1
      <4>3. Miss(step * best, w) = Abs(best * d - n) /\ Miss(s, w) = Abs(j * d - n)
        BY <2>8, <2>9, <3>1, <4>1, <4>2 DEF Miss
      <4>4. step * j <= step * best <=> j <= best
        BY <2>2, <3>1, <4>2, LotsCompare
      <4> QED
        BY <2>11, <4>1, <4>3, <4>4
    <3> QED
      BY <3>2, <3>3, <3>4
  <2> QED
    BY <2>7, <2>14, <2>15
<1> QED
  BY <1>1, PositionStaysInLimits, UnitsStayAffordable, PTL DEF SizesAreRight
=============================================================================
