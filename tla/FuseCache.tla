----------------------------- MODULE FuseCache -----------------------------
(* What the FUSE daemon of a session remembers of the client's disk           *)
(* (server/src/fuse-host-script.ts, classes NegativeCache and Cache): the     *)
(* paths that are not there, what the start-up snapshot said, for ever, and   *)
(* what an answer said, for ten seconds.                                      *)
(*                                                                            *)
(* The negative cache is a sorted array searched by bisection.  It denies a   *)
(* path through the element just before it only, so it may fail to deny; it   *)
(* must never deny what no element covers.                                    *)
EXTENDS SortedPaths

CONSTANT None               \* nothing is remembered

What == {"stat", "list", "read"}

Nothing == [w \in What |-> [p \in Path |-> None]]

Parent(p) == SubSeq(p, 1, Len(p) - 1)

-----------------------------------------------------------------------------
(* NegativeCache.                                                             *)

(* contains *)
Denies(N, p) == UpTo(N, p) # {} /\ Covers(Pred(N, p), p)

(* put: nothing new below a missing directory; what follows the path in the   *)
(* array and lies below it is absorbed.                                       *)
Deny(N, p) == IF Denies(N, p) THEN N ELSE (N \ Run(N, p)) \cup {p}

(* invalidate_prefix: the path, all it lies in, and then what follows it in   *)
(* the array and lies below it.                                               *)
Allow(N, p) ==
    LET rest == {q \in N : ~Covers(q, p)}
    IN  rest \ Run(rest, p)

-----------------------------------------------------------------------------
(* Cache.                                                                     *)

(* get_stat, get_readdir, get_read: the snapshot's layer comes first.         *)
Recall(c, w, p) == IF c.perm[w][p] # None THEN c.perm[w][p] ELSE c.fresh[w][p]

(* put_stat, put_readdir, put_read_full *)
Remember(c, w, p, v) == [neg |-> c.neg, perm |-> c.perm,
                         fresh |-> [c.fresh EXCEPT ![w][p] = v]]

(* put_negative, put_negative_perm; invalidate_negative                       *)
WithNegative(c, p) == [neg |-> Deny(c.neg, p), perm |-> c.perm, fresh |-> c.fresh]

WithoutNegative(c, p) == [neg |-> Allow(c.neg, p), perm |-> c.perm, fresh |-> c.fresh]

(* (slip) The list of the directory the path lies in stays.                   *)
WithoutPath(f, p) == [w \in What |->
                        [q \in Path |-> IF q = p THEN None ELSE f[w][q]]]

Without(f, p) == [w \in What |->
    [q \in Path |-> IF q = p \/ (w = "list" /\ q = Parent(p)) THEN None ELSE f[w][q]]]

(* (slip) The snapshot's layer stays.                                         *)
InvalidatedFresh(c, p) == [neg |-> Allow(c.neg, p), perm |-> c.perm,
                           fresh |-> Without(c.fresh, p)]

(* invalidate *)
Invalidated(c, p) == [neg |-> Allow(c.neg, p), perm |-> Without(c.perm, p),
                      fresh |-> Without(c.fresh, p)]

=============================================================================
