SPECIFICATION FairSpec
CONSTANTS
    Durations <- MCDurations
    Weekend <- MCWeekend
    Required = 1
    Settings <- MCSettings
    MaxClock = 3
    MaxRuns = 2
    MaxFaults = 1
INVARIANTS RunsAreAccountedFor
PROPERTIES StopIsFinal StopIsHeeded
CHECK_DEADLOCK FALSE
