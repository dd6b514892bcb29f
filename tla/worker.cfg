SPECIFICATION MCSpec
CONSTANTS
    Items = {1, 2, 3}
    Key <- TwoAtOnce
    Window = 2
    MaxAttempts = 2
    MaxStarts = 2
    MaxFaults = 2
    Theses = {t1, t2}
    Horizon = 1
    Period = 2
    Cooldown = 1
    MaxPerThesis = 2
    MaxTotal = 3
    MaxTries = 1
    MaxRevisions = 2
    MaxAge = 2
    MaxSessions = 2
    MaxTrouble = 1
INVARIANTS ItemsSpeakOnce ReviewsAreBounded
PROPERTIES EveryItemConcludes DueReviewHappens
CHECK_DEADLOCK FALSE
