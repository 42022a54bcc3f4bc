CONSTANTS
    File = {"f", "s"}
    Start = {{"f", "s"}, {"f"}}
    Wanted <- MCWanted
    RECENT_MUTATION_ID_CAP = 1
    None = None
    MaxOps = 3
    MaxTrouble = 1
SPECIFICATION ReadSpec
\* Deadlock is checked: the system stops only where AtRest allows it.
CONSTRAINT Unharmed
INVARIANTS ReadTypeOK ReadsOwnWrites StoreFollows
