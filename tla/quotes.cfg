SPECIFICATION MCSpec
CONSTANTS
    BridgeRuns = {1, 2, 3}
    Duration = 2
    StartAge = 2
    QuoteAge = 2
    MaxFiles = 2
    MaxQuotes = 2
    MaxTime = 3
    MaxStarts = 2
    MaxFailures = 1
    RotateAfter = 2
    MaxInstant = 4
    MaxSequence = 2
    MaxConnections = 3
    MaxTroubles = 2
INVARIANTS StreamAddsUp
PROPERTIES FeedMovesForward BackCarriesOn
CHECK_DEADLOCK FALSE
