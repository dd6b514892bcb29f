SPECIFICATION Spec
CONSTANTS
    e1 = e1
    e2 = e2
    Events = {e1, e2}
    MaxAttempts = 2
    MaxQuoteWait = 1
    MaxRecoveryAge = 0
    DailyCalls = 4
    DecisionTTL = 1
    ApprovalTTL = 1
    MaxClock = 1
    MaxCrashes = 1
    MaxErrors = 1
SYMMETRY EventSymmetry
PROPERTIES StaleEventsAreNotRevived
CHECK_DEADLOCK FALSE
