--------------------------- MODULE MCCacheTaskSync --------------------------
EXTENDS CacheTaskSync, TLC

CONSTANT p3  \* one of Paths

Symmetry == Permutations(Paths)

\* The manifest knows none of the three files, or one of them is not there.
RoughInit ==
    /\ Init
    /\ \/ \A p \in Paths : local[p] = 1 /\ entries[p] = NoEntry
       \/ local[p3] = 0 /\ entries[p3] = NoEntry

RoughSpec == RoughInit /\ [][Next]_vars /\ WF_vars(Client) /\ WF_vars(Server) /\ WF_vars(Sweep)
=============================================================================
