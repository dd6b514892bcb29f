SPECIFICATION Spec
CONSTANTS
    e1 = e1
    e2 = e2
    Events = {e1, e2}
    MaxAttempts = 2
    MaxQuoteWait = 0
    MaxRecoveryAge = 0
    DailyCalls = 3
    DecisionTTL = 1
    ApprovalTTL = 1
    MaxClock = 1
    MaxCrashes = 2
    MaxErrors = 1
SYMMETRY EventSymmetry
CONSTRAINT Focus
INVARIANTS RowsAreSound CallsAreBounded
PROPERTIES HistoryIsFinal
CHECK_DEADLOCK FALSE
