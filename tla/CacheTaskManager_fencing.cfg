\* Three clients contend for one task, and one assignment replaces another.
CONSTANTS
    c1 = c1
    c2 = c2
    c3 = c3
    None = None
    Conns = {c1, c2, c3}
    Capable = {c1, c2, c3}
    MaxQueue = 2
    MaxRequests = 2
    MaxAsg = 2
    MaxRev = 1
SPECIFICATION Spec
SYMMETRY Symmetry
CONSTRAINT TwoAssignments
\* The system stops once every connection is gone.
CHECK_DEADLOCK FALSE
INVARIANTS
    WriteFenced
    RevisionOnDisk
    StandbyPromoted
    NoFalseExecutor
PROPERTIES
    ReadyIsNotInherited
