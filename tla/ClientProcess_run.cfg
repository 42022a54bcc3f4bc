CONSTANTS
    MaxOut = 2
    MaxRoles = 2
SPECIFICATION FairSpec
\* Deadlock is checked: the system stops only where AtRest allows it.
INVARIANTS TypeOK OutputIsWhole TerminalIsBack RevokedIsSilent
PROPERTY ProcessEnds
