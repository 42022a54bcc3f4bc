------------------------ MODULE MCCacheTaskManager ------------------------
EXTENDS CacheTaskManager, TLC

Symmetry == Permutations(Capable) \cup Permutations(Conns \ Capable)

\* Two assignments are followed, one and the one that replaces it; a manifest
\* that was written is followed for the length of the first.
TwoAssignments ==
    /\ Len(owner) <= 2
    /\ storeRev = 0 \/ Len(owner) <= 1
=============================================================================
