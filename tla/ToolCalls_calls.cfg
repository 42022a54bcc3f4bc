\* A hooked tool with a replacement, one without, and a call by MCP.
CONSTANTS
    bash = bash
    fetch = fetch
    mcp = mcp
    Call = {bash, fetch, mcp}
    Hooked = {bash, fetch}
    Shadowed = {bash}
SPECIFICATION FairSpec
\* The system stops once every call is answered and the session is over.
CHECK_DEADLOCK FALSE
INVARIANTS
    ClosedLeavesNone
    TimelyResultKept
PROPERTIES
    CallsAnswered
    ContractSpec
