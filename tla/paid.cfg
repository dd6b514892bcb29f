SPECIFICATION MCSpec
CONSTANTS
    w1 = w1
    w2 = w2
    a = a
    b = b
    c = c
    Watchers = {w1, w2}
    Items = {a, b, c}
    None = None
    Spoofed = {c}
    ClientRetries = 1
    MaxStarts = 2
    MaxCrashes = 1
    MaxFaults = 2
    Runners = {w1, w2}
    Nobody = None
    Episodes = 3
    Available = {1, 3}
    MaxCalls = 5
    MaxRetries = 1
    MaxRuns = 3
INVARIANTS InboxPaysOnce JournalAddsUp
PROPERTIES ItemsSettleForGood
CHECK_DEADLOCK FALSE
