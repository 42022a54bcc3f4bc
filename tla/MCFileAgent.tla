---------------------------- MODULE MCFileAgent ----------------------------
EXTENDS FileAgent

CONSTANTS p1, p2, c1, c2

(* A new file, and a delta that rewrites it, which leaves its content without *)
(* a use, and deletes a file that only readers have heard of.                 *)
MCDelta == {[p \in {p1} |-> c1],
            [p \in {p1, p2} |-> IF p = p1 THEN c2 ELSE Absent]}
=============================================================================
