SPECIFICATION MCSpec
CONSTANTS
    desk = desk
    press = press
    wire = wire
    calendar = calendar
    t1 = t1
    t2 = t2
    Streams = {desk, press}
    None = None
    Depth = 1
    MaxItems = 3
    MaxVersion = 2
    MaxNow = 3
    MaxBack = 1
    MaxErrors = 2
    MaxCrashes = 1
    MaxViews = 1
    Feeds = {desk, press}
    Addresses = {1, 2}
    Unknown = Unknown
    Bare = Bare
    MaxEdition = 3
    MaxFailures = 3
    MaxCuts = 2
    Polled = {desk, press, wire, calendar}
    Dated = {calendar}
    Tasks = {t1, t2}
    Deduplicated = {desk, press}
    MaxDay = 2
    MaxFaults = 3
    MaxRestarts = 1
INVARIANTS ViewsAreFinal CapturesTellTruth GateFollowsHealth
PROPERTIES RecordedBecomesVisible TextIsKept FullTextArrives GateOpensAgain
CHECK_DEADLOCK FALSE
