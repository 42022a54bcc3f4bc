CONSTANTS
    p1 = p1
    p2 = p2
    p3 = p3
    Paths = {p1, p2, p3}
    MaxChanges = 3
    MaxRemoves = 0
    MaxInflight = 2
    MaxOther = 0
    MaxTimeouts = 1
    Hits = {}
    Faults = FALSE
SYMMETRY Symmetry
SPECIFICATION Spec
\* A client that has pushed every change may rest for good.
CHECK_DEADLOCK FALSE
INVARIANTS
    
    NeverRefused
