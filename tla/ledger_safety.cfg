SPECIFICATION Spec
CONSTANTS
    pw = pw
    Orders = {o1, o2}
    Workers = {qw, pw}
    FillWorkers = {qw}
    Weights <- MCWeights
    Bids = {7, 10, 13}
    Spread = 1
    Slippage = 0
    Cent = 2
    FeeRate = 1
    FeeScale = 10
    FixedFee = 0
    InitialCash = 42
    Policy <- MCPolicy
    Exit <- MCExit
    MaxQuoteAge = 1
    DecisionTTL = 2
    AssessmentTTL = 1
    MaxLag = 1
    DayLength = 2
    CloseLength = 1
    StopReasons = {"pause"}
    KillSwitchAtStart = FALSE
    KillSwitchAtRestart = {TRUE}
    MaxClock = 2

SYMMETRY Symmetry
CONSTRAINT Focus
INVARIANTS TypeOK PendingOrderIsCurrent BooksReconcile
PROPERTIES BaselineNeverMasksLoss ImplementsLifecycle NoNewRiskWhileBlocked PeakNeverRetreats ExitStaysDue FillsUseLaterQuotes
