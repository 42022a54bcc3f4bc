\* One session: sessions meet in the handler of a closed connection only.
CONSTANTS
    c1 = c1
    Client = {c1}
    Session = {s1}
    Owner <- MCOwner
    MaxTries = 3
    MaxFaults = 4
SPECIFICATION FairSpec
\* The system stops once every session is over.
CHECK_DEADLOCK FALSE
INVARIANTS
    HostClosedFirst
PROPERTIES
    Released
    ExitedLeaves
