SPECIFICATION FairSpec
CONSTANTS
    e1 = e1
    Events = {e1}
    MaxAttempts = 2
    MaxQuoteWait = 1
    MaxRecoveryAge = 1
    DailyCalls = 3
    DecisionTTL = 1
    ApprovalTTL = 1
    MaxClock = 2
    MaxCrashes = 1
    MaxErrors = 1
PROPERTIES EventsConclude
CHECK_DEADLOCK FALSE
