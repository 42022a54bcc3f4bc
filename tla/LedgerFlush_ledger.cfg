CONSTANTS
    Name <- MCName
    Path <- MCPath
    Rank <- MCRank
    Seed <- MCSeed
    Session = {"s", "t"}
    Flusher = {"f1", "f2", "g1"}
    Owner <- MCOwner
    Tree <- MCTree
    Asked <- MCAsked
    Wanted <- MCWanted
    Edited <- MCEdited
    None = None
    MaxSteps = 3
    MaxFaults = 1
SPECIFICATION Spec
INVARIANTS LedgersIndexed NothingHidden PlanReaches WaitersAreWoken
CHECK_DEADLOCK FALSE
