\* No symmetry: the property is a leads-to.
CONSTANTS
    c1 = c1
    c2 = c2
    None = None
    Conns = {c1, c2}
    Capable = {c1, c2}
    MaxQueue = 4
    MaxRequests = 1
    MaxAsg = 1
    MaxRev = 0
SPECIFICATION FairSpec
\* The system stops once every connection is gone.
CHECK_DEADLOCK FALSE
PROPERTIES
    DeadExecutorReplaced
