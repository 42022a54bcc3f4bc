CONSTANTS
    p1 = p1
    p2 = p2
    p3 = p3
    Paths = {p1, p2, p3}
    MaxChanges = 1
    MaxRemoves = 1
    MaxInflight = 1
    MaxOther = 1
    MaxTimeouts = 1
    Hits = {p1}
    Faults = TRUE
SPECIFICATION RoughSpec
\* A client that has pushed every change may rest for good.
CHECK_DEADLOCK FALSE
INVARIANTS
    TypeOK
    RevisionsAgree
PROPERTIES
    SyncSettles
    GivingUpIsNoticed
