SPECIFICATION TimerSpec
CONSTANTS
    pw = pw
    Orders = {o1}
    Workers = {qw}
    FillWorkers = {qw}
    Weights = {2}
    Bids = {10}
    Spread = 1
    Slippage = 0
    Cent = 2
    FeeRate = 1
    FeeScale = 10
    FixedFee = 0
    InitialCash = 42
    Policy <- MCPolicy
    Exit <- MCExit
    MaxQuoteAge = 1
    DecisionTTL = 3
    AssessmentTTL = 1
    MaxLag = 1
    DayLength = 3
    CloseLength = 1
    StopReasons = {"halt"}
    KillSwitchAtStart = FALSE
    KillSwitchAtRestart = {FALSE}
    MaxClock = 3
PROPERTIES PendingOrdersEnd PositionsClose
