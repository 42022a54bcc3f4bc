----------------------------- MODULE MCSessions -----------------------------
EXTENDS Sessions

CONSTANT c1

MCOwner == [s \in Session |-> c1]
=============================================================================
