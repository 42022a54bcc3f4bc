CONSTANTS
    c1 = c1
    Client = {c1}
    Session = {s1}
    Owner <- MCOwner
    MaxTries = 2
    MaxFaults = 0
SPECIFICATION Spec
\* The system stops once every session is over.
CHECK_DEADLOCK FALSE
INVARIANT
    NoOrphan
