SPECIFICATION Spec
CONSTANTS
    Events = {e1, e2}
    agent = agent
    keeper = keeper
    Reasoners <- MCReasoners
    Traders <- MCTraders
    Arrivals = {1}
    Ttl = 1
    Horizon = 1
    MaxClock = 3
    MaxSteps = 1
    MaxCalls = 2
CONSTRAINT OneCommit
SYMMETRY Symmetry
INVARIANTS MemoryIsCausal
PROPERTIES IsThesisLog

CHECK_DEADLOCK FALSE
