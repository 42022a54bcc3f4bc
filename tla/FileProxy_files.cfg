CONSTANTS
    Name <- MCName
    Path <- MCPath
    Rank <- MCRank
    None = None
    Thread = {"t1", "t2"}
    Wanted <- MCWanted
    Tree <- MCTree
    Home <- MCHome
    Kept <- MCKept
    Ledgers <- MCLedgers
    KnownMissing <- MCKnownMissing
    Edited <- MCEdited
    MaxCalls = 3
    MaxFaults = 1
SPECIFICATION Spec
\* Deadlock is checked: the system stops only where AtRest allows it.
INVARIANTS EachIsAnswered NothingDenied MemoryIsTrue
PROPERTY ChangeIsSeen
