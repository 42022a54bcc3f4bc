----------------------------- MODULE SortedPaths -----------------------------
(* Paths below the proxied roots and the sorted arrays of paths that the FUSE *)
(* daemon's negative cache (server/src/fuse-host-script.ts, class             *)
(* NegativeCache) and the access ledger (server/src/access-ledger.ts) search  *)
(* by bisection.                                                              *)
(*                                                                            *)
(* A path is a sequence of names, and Rank is the order of the strings the    *)
(* names are joined to with "/".  It is not the order of a tree walk: "d-b"   *)
(* stands between "d" and "d/x", because "-" sorts before "/".  An array that *)
(* is kept sorted and without duplicates is the set of its elements.          *)
EXTENDS Naturals, Sequences

CONSTANTS Name,
          Path,             \* sequences of names, never the empty one
          Rank              \* the place of a path in the strings' order

ASSUME PathsAreNames == Path \subseteq Seq(Name) \ {<<>>}

ASSUME RankIsOrder == /\ Rank \in [Path -> Nat]
                      /\ \A p, q \in Path : Rank[p] = Rank[q] => p = q

(* The directories a path lies in, the root of the tree aside.                *)
Above(p) == {SubSeq(p, 1, n) : n \in 1..(Len(p) - 1)}

(* The other path is this one, or begins with this one and a "/".             *)
Covers(q, p) == q = p \/ q \in Above(p)

(* Where a path goes when the directory it lies in, or it itself, is renamed. *)
Reroot(p, from, to) == to \o SubSeq(p, Len(from) + 1, Len(p))

(* The element before the insertion point of bisect_right, if there is one.   *)
UpTo(S, p) == {q \in S : Rank[q] <= Rank[p]}

Pred(S, p) == CHOOSE q \in UpTo(S, p) : \A r \in UpTo(S, p) : Rank[r] <= Rank[q]

(* What a loop over the array visits that starts at the lower bound of p and  *)
(* breaks at the first element that is neither p nor begins with p and "/".   *)
From(S, p) == {q \in S : Rank[q] >= Rank[p]}

Run(S, p) == {q \in From(S, p) :
                 \A r \in From(S, p) : Rank[r] <= Rank[q] => Covers(p, r)}

(* What a loop visits that starts at the lower bound of p with its "/".       *)
Under(S, p) == {q \in S : p \in Above(q)}

=============================================================================
