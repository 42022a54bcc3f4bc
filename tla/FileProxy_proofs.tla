-------------------------- MODULE FileProxy_proofs --------------------------
(* For any paths, disks, threads, operations and bounds: the types hold, every *)
(* request is answered, a change that succeeded is asked for anew, and as long *)
(* as there has been no mishap the daemon denies nothing that is there and     *)
(* remembers nothing that is not so.                                           *)
EXTENDS FileProxy, NaturalsInduction, WellFoundedInduction, SequenceTheorems, TLAPS

-----------------------------------------------------------------------------
(* Paths and trees.                                                           *)

LEMMA SelfCovers ==
  ASSUME NEW p \in Path
  PROVE  /\ p \in Seq(Name) /\ Len(p) \in Nat \ {0} /\ SubSeq(p, 1, Len(p)) = p
         /\ \A n \in 1..Len(p) : Covers(SubSeq(p, 1, n), p)
  <1>1. p \in Seq(Name) /\ p # <<>>
    BY PathsAreNames
  <1>2. Len(p) \in Nat \ {0} /\ SubSeq(p, 1, Len(p)) = p
    BY <1>1
  <1>3. ASSUME NEW n \in 1..Len(p)
        PROVE  Covers(SubSeq(p, 1, n), p)
    <2>1. CASE n = Len(p)
      BY <1>2, <2>1 DEF Covers
    <2>2. CASE n \in 1..(Len(p) - 1)
      <3>1. SubSeq(p, 1, n) \in Above(p)
        BY <2>2 DEF Above
      <3> QED BY <3>1 DEF Covers
    <2>3. n = Len(p) \/ n \in 1..(Len(p) - 1)
      <3>1. \A k \in Nat : \A m \in 1..k : m = k \/ m \in 1..(k - 1)
        OBVIOUS
      <3> QED BY <1>2, <3>1
    <2> QED BY <2>1, <2>2, <2>3
  <1> QED BY <1>1, <1>2, <1>3

(* Every path has a shallowest missing ancestor, itself at the worst.         *)
LEMMA ShallowestIsPath ==
  ASSUME NEW t, NEW p \in Path
  PROVE  /\ Shallowest(t, p) \in Path
         /\ Shallowest(t, p) = p \/ t[Shallowest(t, p)] = "none"
  <1> DEFINE T == {n \in 1..Len(p) : /\ SubSeq(p, 1, n) \in Path
                                     /\ n = Len(p) \/ t[SubSeq(p, 1, n)] = "none"}
             P(q) == /\ Covers(q, p)
                     /\ q = p \/ t[q] = "none"
                     /\ \A r \in Parents(q) : t[r] # "none"
  <1>1. T \subseteq Nat /\ Len(p) \in T
    <2>1. Len(p) \in 1..Len(p) /\ SubSeq(p, 1, Len(p)) = p
      BY SelfCovers
    <2>2. SubSeq(p, 1, Len(p)) \in Path
      BY <2>1
    <2> QED BY <2>1, <2>2
  <1>2. PICK n \in T : \A m \in T : ~(<<m, n>> \in OpToRel(<, Nat))
    BY <1>1, NatLessThanWellFounded, WFMin
  <1>3. \A m \in T : ~(m < n)
    BY <1>1, <1>2 DEF OpToRel
  <1> DEFINE q == SubSeq(p, 1, n)
  <1>4. q \in Path /\ (q = p \/ t[q] = "none") /\ Covers(q, p)
    BY SelfCovers
  <1>5. \A r \in Parents(q) : t[r] # "none"
    <2> SUFFICES ASSUME NEW m \in 1..(Len(q) - 1), SubSeq(q, 1, m) \in Path
                 PROVE  t[SubSeq(q, 1, m)] # "none"
      BY DEF Above, Parents
    <2>1. p \in Seq(Name) /\ n \in 1..Len(p)
      BY SelfCovers
    <2>2. Len(q) = n
      BY <2>1
    <2>3. m < n /\ m \in 1..Len(p) /\ m \in 1..n
      BY <2>1, <2>2
    <2>4. SubSeq(q, 1, m) = SubSeq(p, 1, m)
      BY <2>1, <2>2, <2>3
    <2> QED BY <1>3, <2>3, <2>4
  <1>6. P(q)
    BY <1>4, <1>5
  <1>7. P(Shallowest(t, p)) /\ Shallowest(t, p) \in Path
    <2>1. Shallowest(t, p) = CHOOSE x \in Path : P(x)
      BY DEF Shallowest
    <2> HIDE DEF P, q
    <2> QED BY <1>4, <1>6, <2>1
  <1> QED BY <1>7

LEMMA ChangedIsTree ==
  ASSUME NEW m \in Mutation, NEW t, t \in [Path -> Kind]
  PROVE  Changed(t, m) \in [Path -> Kind]
  <1>1. m.path \in Path /\ m.to \in Path
    BY DEF Mutation
  <1>2. \A paths : \A k \in Kind : With(t, paths, k) \in [Path -> Kind]
    BY DEF With
  <1>3. "none" \in Kind /\ "dir" \in Kind /\ "file" \in Kind
    BY DEF Kind
  <1>4. CASE m.op = "change"
    <2>1. With(t, Parents(m.path), "dir") \in [Path -> Kind]
      BY <1>2, <1>3
    <2>2. Changed(t, m) = [With(t, Parents(m.path), "dir") EXCEPT ![m.path] = "file"]
      BY <1>4 DEF Changed
    <2> QED BY <1>1, <1>3, <2>1, <2>2
  <1>5. CASE m.op = "mkdir"
    <2>1. Changed(t, m) = With(t, {q \in Path : Covers(q, m.path)}, "dir")
      BY <1>5 DEF Changed
    <2> QED BY <1>2, <1>3, <2>1
  <1>6. CASE m.op \in {"unlink", "rmdir"}
    <2>1. Changed(t, m) = With(t, {m.path}, "none")
      BY <1>6 DEF Changed
    <2> QED BY <1>2, <1>3, <2>1
  <1>7. CASE m.op = "rename"
    <2> DEFINE from(q) == Sources(m, q)
    <2>1. Changed(t, m) = [q \in Path |->
                          IF from(q) # {} THEN t[CHOOSE p \in from(q) : TRUE]
                          ELSE IF Covers(m.path, q) THEN "none" ELSE t[q]]
      BY <1>7 DEF Changed, Moved
    <2>2. \A q : from(q) # {} => (CHOOSE p \in from(q) : TRUE) \in Path
      BY DEF Sources
    <2> HIDE DEF from
    <2> QED BY <1>3, <2>1, <2>2
  <1>8. m.op \in {"change", "mkdir", "unlink", "rmdir", "rename"}
    BY DEF Mutation
  <1> QED BY <1>4, <1>5, <1>6, <1>7, <1>8

-----------------------------------------------------------------------------
(* Paths.                                                                     *)

(* A path lies in those whose names it begins with.                           *)
LEMMA CoversIs ==
  ASSUME NEW p \in Path, NEW q \in Path
  PROVE  Covers(q, p) <=> Len(q) <= Len(p) /\ \A k \in 1..Len(q) : p[k] = q[k]
  <1>1. /\ p \in Seq(Name) /\ q \in Seq(Name)
        /\ Len(p) \in Nat \ {0} /\ Len(q) \in Nat \ {0}
    BY SelfCovers
  <1>2. ASSUME Covers(q, p)
        PROVE  Len(q) <= Len(p) /\ \A k \in 1..Len(q) : p[k] = q[k]
    <2>1. CASE q = p
      BY <1>1, <2>1
    <2>2. CASE q \in Above(p)
      <3>1. PICK n \in 1..(Len(p) - 1) : q = SubSeq(p, 1, n)
        BY <2>2 DEF Above
      <3>2. n \in Nat /\ n <= Len(p) /\ 1 <= n
        BY <1>1, <3>1
      <3>3. Len(q) = n /\ \A k \in 1..n : q[k] = p[k]
        BY <1>1, <3>1, <3>2
      <3> QED BY <3>2, <3>3
    <2> QED BY <1>2, <2>1, <2>2 DEF Covers
  <1>3. ASSUME Len(q) <= Len(p), \A k \in 1..Len(q) : p[k] = q[k]
        PROVE  Covers(q, p)
    <2>1. CASE Len(q) = Len(p)
      <3>1. q = p
        BY <1>1, <1>3, <2>1, SeqEqual
      <3> QED BY <3>1 DEF Covers
    <2>2. CASE Len(q) # Len(p)
      <3>1. Len(q) \in 1..(Len(p) - 1)
        BY <1>1, <1>3, <2>2
      <3>2. /\ SubSeq(p, 1, Len(q)) \in Seq(Name) /\ Len(SubSeq(p, 1, Len(q))) = Len(q)
            /\ \A k \in 1..Len(q) : SubSeq(p, 1, Len(q))[k] = p[k]
        BY <1>1, <3>1
      <3>3. q = SubSeq(p, 1, Len(q))
        BY <1>1, <1>3, <3>2, SeqEqual
      <3> QED BY <3>1, <3>3 DEF Above, Covers
    <2> QED BY <2>1, <2>2
  <1> QED BY <1>2, <1>3

LEMMA AboveIs ==
  ASSUME NEW p \in Path, NEW q \in Path
  PROVE  q \in Above(p) <=> Covers(q, p) /\ q # p
  <1>1. p \in Seq(Name) /\ Len(p) \in Nat \ {0}
    BY SelfCovers
  <1>2. p \notin Above(p)
    <2> SUFFICES ASSUME NEW n \in 1..(Len(p) - 1), p = SubSeq(p, 1, n) PROVE FALSE
      BY DEF Above
    <2>1. n \in Nat /\ n < Len(p) /\ Len(SubSeq(p, 1, n)) = n
      BY <1>1
    <2> QED BY <1>1, <2>1
  <1> QED BY <1>2 DEF Covers

LEMMA CoversOrder ==
  ASSUME NEW p \in Path, NEW q \in Path, NEW r \in Path, Covers(q, p)
  PROVE  /\ Covers(r, q) => Covers(r, p)
         /\ Covers(r, p) => Covers(r, q) \/ Covers(q, r)
         /\ Covers(p, q) => p = q
  <1>1. /\ Len(p) \in Nat /\ Len(q) \in Nat /\ Len(r) \in Nat
        /\ p \in Seq(Name) /\ q \in Seq(Name)
    BY SelfCovers
  <1>2. Len(q) <= Len(p) /\ \A k \in 1..Len(q) : p[k] = q[k]
    BY CoversIs
  <1>3. ASSUME Covers(r, q) PROVE Covers(r, p)
    <2>1. Len(r) <= Len(q) /\ \A k \in 1..Len(r) : q[k] = r[k]
      BY <1>3, CoversIs
    <2>2. Len(r) <= Len(p) /\ \A k \in 1..Len(r) : p[k] = r[k]
      BY <1>1, <1>2, <2>1
    <2> QED BY <2>2, CoversIs
  <1>4. ASSUME Covers(r, p) PROVE Covers(r, q) \/ Covers(q, r)
    <2>1. Len(r) <= Len(p) /\ \A k \in 1..Len(r) : p[k] = r[k]
      BY <1>4, CoversIs
    <2>2. CASE Len(r) <= Len(q)
      <3>1. \A k \in 1..Len(r) : q[k] = r[k]
        BY <1>1, <1>2, <2>1, <2>2
      <3> QED BY <2>2, <3>1, CoversIs
    <2>3. CASE Len(q) <= Len(r)
      <3>1. \A k \in 1..Len(q) : r[k] = q[k]
        BY <1>1, <1>2, <2>1, <2>3
      <3> QED BY <2>3, <3>1, CoversIs
    <2> QED BY <1>1, <2>2, <2>3
  <1>5. ASSUME Covers(p, q) PROVE p = q
    <2>1. Len(p) <= Len(q)
      BY <1>5, CoversIs
    <2>2. Len(p) = Len(q)
      BY <1>1, <1>2, <2>1
    <2> QED BY <1>1, <1>2, <2>2, SeqEqual
  <1> QED BY <1>3, <1>4, <1>5

(* What moves with a directory comes to lie in its target.                    *)
LEMMA RerootIs ==
  ASSUME NEW p \in Path, NEW from \in Path, NEW to \in Path, NEW q \in Path,
         Covers(from, p), Reroot(p, from, to) = q
  PROVE  Covers(to, q) /\ (p = from <=> q = to)
  <1> DEFINE rest == SubSeq(p, Len(from) + 1, Len(p))
  <1>1. /\ p \in Seq(Name) /\ from \in Seq(Name) /\ to \in Seq(Name)
        /\ Len(p) \in Nat \ {0} /\ Len(from) \in Nat \ {0} /\ Len(to) \in Nat \ {0}
    BY SelfCovers
  <1>2. Len(from) <= Len(p) /\ \A k \in 1..Len(from) : p[k] = from[k]
    BY CoversIs
  <1>3. rest \in Seq(Name) /\ Len(rest) = Len(p) - Len(from)
    BY <1>1, <1>2
  <1>4. q = to \o rest
    BY DEF Reroot
  <1> HIDE DEF rest
  <1>5. /\ Len(q) = Len(to) + Len(rest) /\ Len(rest) \in Nat
        /\ \A k \in 1..Len(to) : q[k] = to[k]
    <2>1. \A s \in Seq(Name) : \A t \in Seq(Name) :
             /\ Len(s \o t) = Len(s) + Len(t) /\ Len(t) \in Nat
             /\ \A k \in 1..Len(s) : (s \o t)[k] = s[k]
      OBVIOUS
    <2>2. to \in Seq(Name) /\ rest \in Seq(Name)
      BY <1>1, <1>3
    <2>3. /\ Len(to \o rest) = Len(to) + Len(rest) /\ Len(rest) \in Nat
          /\ \A k \in 1..Len(to) : (to \o rest)[k] = to[k]
      BY ONLY <2>1, <2>2, Zenon
    <2> QED BY ONLY <1>4, <2>3, Zenon
  <1>6. Covers(to, q)
    <2>1. Len(to) <= Len(q)
      BY <1>1, <1>5
    <2> QED BY <1>5, <2>1, CoversIs
  <1>7. ASSUME p = from PROVE q = to
    <2>1. Len(q) = Len(to)
      BY <1>1, <1>3, <1>5, <1>7
    <2> QED BY <1>1, <1>5, <2>1, SelfCovers, SeqEqual
  <1>8. ASSUME q = to PROVE p = from
    <2>1. Len(rest) = 0
      BY <1>1, <1>5, <1>8
    <2>2. Len(p) = Len(from)
      BY <1>1, <1>3, <2>1
    <2> QED BY <1>1, <1>2, <2>2, SeqEqual
  <1> QED BY <1>6, <1>7, <1>8

-----------------------------------------------------------------------------
(* Changes of one path.                                                       *)

(* The paths a change is about.                                               *)
Ends(m) == {m.path} \cup (IF m.op = "rename" THEN {m.to} ELSE {})

(* It makes no directory it was not asked for, and moves no content.          *)
Plain(t, m) ==
    /\ m.op \in {"change", "mkdir"} => \A q \in Parents(m.path) : t[q] # "none"
    /\ m.op = "rename" => Bare(t, m.path)

LEMMA NothingBelow ==
  ASSUME NEW t, IsTree(t), NEW p \in Path, t[p] # "dir" \/ Bare(t, p)
  PROVE  \A q \in Path : Covers(p, q) /\ q # p => t[q] = "none"
  BY DEF IsTree, Bare, Parents, Covers

LEMMA SourcesAre ==
  ASSUME NEW m \in Mutation, NEW q \in Path
  PROVE  /\ \A p \in Sources(m, q) : /\ p \in Path /\ Covers(m.path, p) /\ Covers(m.to, q)
                                     /\ p = m.path <=> q = m.to
         /\ m.path \in Sources(m, m.to)
  <1>1. m.path \in Path /\ m.to \in Path
    BY DEF Mutation
  <1>2. \A p \in Sources(m, q) : /\ p \in Path /\ Covers(m.path, p)
                                 /\ Covers(m.to, q) /\ (p = m.path <=> q = m.to)
    BY <1>1, RerootIs DEF Sources
  <1>3. Reroot(m.path, m.path, m.to) = m.to
    <2>1. /\ m.path \in Seq(Name) /\ m.to \in Seq(Name) /\ Len(m.path) \in Nat
      BY <1>1, SelfCovers
    <2>2. SubSeq(m.path, Len(m.path) + 1, Len(m.path)) = <<>>
      BY <2>1
    <2>3. m.to \o <<>> = m.to
      BY <2>1
    <2> QED BY <2>2, <2>3 DEF Reroot
  <1>4. m.path \in Sources(m, m.to)
    BY <1>1, <1>3 DEF Sources, Covers
  <1> QED BY <1>2, <1>4

(* A rename of a file or of an empty directory moves nothing else.            *)
LEMMA RenameIsLocal ==
  ASSUME NEW t, t \in [Path -> Kind], IsTree(t), NEW m \in Mutation, m.op = "rename",
         Possible(t, m), Bare(t, m.path)
  PROVE  /\ \A p \in Path \ {m.path, m.to} :
               /\ Changed(t, m)[p] = t[p]
               /\ t[p] # "none" => Sources(m, p) = {} /\ ~Covers(m.path, p)
         /\ \A p \in Path : Covers(m.to, p) /\ p # m.to => t[p] = "none"
         /\ m.path # m.to => Changed(t, m)[m.path] = "none"
         /\ m.path \notin Above(m.to)
  <1>1. m.path \in Path /\ m.to \in Path
    BY DEF Mutation
  <1>2. \A p \in Path : Covers(m.path, p) /\ p # m.path => t[p] = "none"
    BY <1>1, NothingBelow
  <1>3. /\ \A q \in Parents(m.to) : t[q] = "dir"
        /\ t[m.path] # "none"
        /\ IF t[m.path] = "file" THEN t[m.to] # "dir"
           ELSE t[m.to] # "file" /\ Bare(t, m.to) /\ m.path \notin Above(m.to)
    BY DEF Possible
  <1>4. \A p \in Path : Covers(m.to, p) /\ p # m.to => t[p] = "none"
    BY <1>1, <1>3, NothingBelow
  <1>5. m.path \notin Above(m.to)
    BY <1>1, <1>3 DEF Parents
  <1> DEFINE from(q) == Sources(m, q)
             new == [q \in Path |-> IF from(q) # {} THEN t[CHOOSE p \in from(q) : TRUE]
                                    ELSE IF Covers(m.path, q) THEN "none" ELSE t[q]]
  <1>6. Changed(t, m) = new
    BY DEF Changed, Moved
  <1>7. \A q \in Path : from(q) # {} => /\ (CHOOSE p \in from(q) : TRUE) \in from(q)
    OBVIOUS
  <1>8. ASSUME NEW p \in Path \ {m.path, m.to}
        PROVE  new[p] = t[p] /\ (t[p] # "none" => from(p) = {} /\ ~Covers(m.path, p))
    <2>1. CASE from(p) # {}
      <3>1. PICK x \in from(p) : x = CHOOSE y \in from(p) : TRUE
        BY <1>7, <2>1
      <3>2. x \in Path /\ Covers(m.path, x) /\ x # m.path /\ Covers(m.to, p)
        BY <3>1, SourcesAre
      <3>3. t[x] = "none" /\ t[p] = "none"
        BY <1>2, <1>4, <3>2
      <3> QED BY <2>1, <3>1, <3>3
    <2>2. CASE from(p) = {}
      BY <1>2, <2>2
    <2> QED BY <2>1, <2>2
  <1>9. ASSUME m.path # m.to PROVE new[m.path] = "none"
    <2>1. ~Covers(m.to, m.path)
      BY <1>1, <1>3, <1>4, <1>9
    <2>2. from(m.path) = {}
      BY <1>1, <2>1, SourcesAre
    <2> QED BY <1>1, <2>2 DEF Covers
  <1> HIDE DEF new, from
  <1>10. \A p \in Path \ {m.path, m.to} :
            /\ new[p] = t[p]
            /\ t[p] # "none" => Sources(m, p) = {} /\ ~Covers(m.path, p)
    BY <1>8 DEF from
  <1> QED BY <1>4, <1>5, <1>6, <1>9, <1>10

LEMMA ChangeIsLocal ==
  ASSUME NEW t, t \in [Path -> Kind], IsTree(t), NEW m \in Mutation, Possible(t, m), Plain(t, m)
  PROVE  \A p \in Path \ Ends(m) : Changed(t, m)[p] = t[p]
  <1>1. m.path \in Path /\ \A q \in Parents(m.path) : q \in Path /\ q # m.path
    BY AboveIs DEF Mutation, Parents
  <1>2. CASE m.op = "change"
    <2>1. \A q \in Parents(m.path) : t[q] = "dir"
      BY <1>1, <1>2 DEF Possible, Plain, Kind
    <2>2. \A p \in Path : p # m.path =>
             Changed(t, m)[p] = IF p \in Parents(m.path) THEN "dir" ELSE t[p]
      BY <1>2 DEF Changed, With
    <2> QED BY <1>2, <2>1, <2>2 DEF Ends
  <1>3. CASE m.op = "mkdir"
    <2>1. \A q \in Path : Covers(q, m.path) /\ q # m.path => t[q] = "dir"
      BY <1>1, <1>3, AboveIs DEF Possible, Plain, Kind, Parents
    <2>2. \A p \in Path : Changed(t, m)[p] = IF Covers(p, m.path) THEN "dir" ELSE t[p]
      BY <1>3 DEF Changed, With
    <2> QED BY <1>3, <2>1, <2>2 DEF Ends
  <1>4. CASE m.op \in {"unlink", "rmdir"}
    BY <1>4 DEF Changed, With, Ends
  <1>5. CASE m.op = "rename"
    BY <1>5, RenameIsLocal DEF Ends, Plain
  <1> QED BY <1>2, <1>3, <1>4, <1>5 DEF Mutation

(* A tree stays a tree.                                                       *)
LEMMA ChangeKeepsTree ==
  ASSUME NEW t, t \in [Path -> Kind], IsTree(t), NEW m \in Mutation, Possible(t, m), Plain(t, m)
  PROVE  IsTree(Changed(t, m))
  <1> DEFINE u == Changed(t, m)
  <1>1. m.path \in Path /\ m.to \in Path
    BY DEF Mutation
  <1>2. \A p \in Path \ Ends(m) : u[p] = t[p]
    BY ChangeIsLocal
  <1>3. \A p \in Path : t[p] # "none" => \A q \in Parents(p) : t[q] = "dir"
    BY DEF IsTree
  <1>4. \A p \in Path : \A q \in Parents(p) : q \in Path /\ q # p /\ Covers(q, p)
    BY AboveIs DEF Parents
  <1> SUFFICES ASSUME NEW p \in Path, u[p] # "none", NEW q \in Parents(p)
               PROVE  u[q] = "dir"
    BY DEF IsTree
  <1>5. q \in Path /\ q # p /\ Covers(q, p)
    BY <1>4
  <1>6. CASE m.op \in {"change", "mkdir"}
    <2>1. Ends(m) = {m.path}
      BY <1>6 DEF Ends
    <2>2. \A r \in Parents(m.path) : t[r] = "dir"
      BY <1>1, <1>4, <1>6 DEF Possible, Plain, Kind
    <2>3. CASE p = m.path
      BY <1>2, <1>5, <2>1, <2>2, <2>3
    <2>4. CASE p # m.path
      <3>1. t[p] # "none" /\ t[q] = "dir"
        BY <1>2, <1>3, <2>1, <2>4
      <3>2. CASE q # m.path
        BY <1>2, <1>5, <2>1, <3>1, <3>2
      <3>3. CASE q = m.path
        <4>1. m.op = "mkdir"
          BY <1>6, <3>1, <3>3 DEF Possible
        <4>2. u[q] = IF Covers(q, m.path) THEN "dir" ELSE t[q]
          BY <1>5, <4>1 DEF Changed, With
        <4> QED BY <3>1, <4>2
      <3> QED BY <3>2, <3>3
    <2> QED BY <2>3, <2>4
  <1>7. CASE m.op \in {"unlink", "rmdir"}
    <2>1. Ends(m) = {m.path} /\ u[m.path] = "none"
      BY <1>1, <1>7 DEF Ends, Changed, With
    <2>2. \A r \in Path : Covers(m.path, r) /\ r # m.path => t[r] = "none"
      <3>1. t[m.path] # "dir" \/ Bare(t, m.path)
        BY <1>7 DEF Possible
      <3> QED BY <1>1, <3>1, NothingBelow
    <2>3. p # m.path /\ t[p] # "none" /\ t[q] = "dir"
      BY <1>2, <1>3, <2>1
    <2>4. q # m.path
      BY <1>5, <2>2, <2>3
    <2> QED BY <1>2, <1>5, <2>1, <2>3, <2>4
  <1>8. CASE m.op = "rename"
    <2>1. Ends(m) = {m.path, m.to} /\ Bare(t, m.path)
      BY <1>8 DEF Ends, Plain
    <2>2. /\ \A r \in Path : Covers(m.to, r) /\ r # m.to => t[r] = "none"
          /\ m.path # m.to => u[m.path] = "none"
          /\ m.path \notin Above(m.to)
      BY <1>8, <2>1, RenameIsLocal
    <2>3. \A r \in Path : Covers(m.path, r) /\ r # m.path => t[r] = "none"
      BY <1>1, <2>1, NothingBelow
    <2>4. \A r \in Parents(m.to) : t[r] = "dir" /\ r # m.path
      BY <1>8, <2>2 DEF Possible, Parents
    <2>5. CASE p = m.to
      BY <1>2, <1>5, <2>1, <2>4, <2>5
    <2>6. CASE p # m.to
      <3>1. p # m.path
        BY <2>2, <2>6
      <3>2. t[p] # "none" /\ t[q] = "dir"
        BY <1>2, <1>3, <2>1, <2>6, <3>1
      <3>3. q # m.path /\ q # m.to
        BY <1>5, <2>2, <2>3, <3>2
      <3> QED BY <1>2, <1>5, <2>1, <3>2, <3>3
    <2> QED BY <2>5, <2>6
  <1> QED BY <1>6, <1>7, <1>8 DEF Mutation

-----------------------------------------------------------------------------
(* The negative cache.                                                        *)

LEMMA PredIsLast ==
  ASSUME NEW N \in SUBSET Path, NEW p \in Path, UpTo(N, p) # {}
  PROVE  /\ Pred(N, p) \in UpTo(N, p)
         /\ \A r \in UpTo(N, p) : Rank[r] <= Rank[Pred(N, p)]
  <1> DEFINE far(q) == Rank[p] - Rank[q]
             D == {far(q) : q \in UpTo(N, p)}
             Latest(q) == \A r \in UpTo(N, p) : Rank[r] <= Rank[q]
  <1>1. \A q \in UpTo(N, p) : Rank[q] \in Nat /\ far(q) \in Nat
    BY RankIsOrder DEF UpTo
  <1>2. D \subseteq Nat /\ D # {}
    BY <1>1
  <1>3. PICK d \in D : \A m \in D : ~(<<m, d>> \in OpToRel(<, Nat))
    BY <1>2, NatLessThanWellFounded, WFMin
  <1>4. PICK q \in UpTo(N, p) : d = far(q)
    BY <1>3
  <1>5. Latest(q)
    <2> SUFFICES ASSUME NEW r \in UpTo(N, p) PROVE Rank[r] <= Rank[q]
      OBVIOUS
    <2>1. ~(far(r) < far(q))
      BY <1>1, <1>2, <1>3, <1>4 DEF OpToRel
    <2> QED BY <1>1, <2>1, RankIsOrder
  <1>6. Pred(N, p) = CHOOSE x \in UpTo(N, p) : Latest(x)
    BY DEF Pred
  <1> HIDE DEF Latest
  <1>7. Pred(N, p) \in UpTo(N, p) /\ Latest(Pred(N, p))
    BY <1>4, <1>5, <1>6
  <1> QED BY <1>7 DEF Latest

(* NegativeCache.contains denies only what an element of the array covers.     *)
THEOREM DeniedIsCovered ==
  ASSUME NEW N \in SUBSET Path, NEW p \in Path, Denies(N, p)
  PROVE  \E q \in N : Covers(q, p)
  BY PredIsLast DEF Denies, UpTo

LEMMA AllowedIsNotCovered ==
  ASSUME NEW N \in SUBSET Path, NEW p \in Path
  PROVE  Allow(N, p) \subseteq N /\ \A q \in Allow(N, p) : ~Covers(q, p)
  BY DEF Allow

(* NegativeCache.put, then contains: a path that has been put is denied.      *)
THEOREM PutIsDenied ==
  ASSUME NEW N \in SUBSET Path, NEW p \in Path
  PROVE  Denies(Deny(N, p), p)
  <1>1. CASE Denies(N, p)
    BY <1>1 DEF Deny
  <1>2. CASE ~Denies(N, p)
    <2> DEFINE M == (N \ Run(N, p)) \cup {p}
    <2>1. Deny(N, p) = M /\ M \in SUBSET Path
      BY <1>2 DEF Deny
    <2>2. p \in UpTo(M, p)
      BY RankIsOrder DEF UpTo
    <2> HIDE DEF M
    <2>3. /\ Pred(M, p) \in UpTo(M, p)
          /\ Rank[p] <= Rank[Pred(M, p)]
      BY <2>1, <2>2, PredIsLast
    <2>4. Pred(M, p) \in Path /\ Rank[Pred(M, p)] <= Rank[p]
      BY <2>1, <2>3 DEF UpTo
    <2>5. Rank[Pred(M, p)] = Rank[p]
      BY <2>3, <2>4, RankIsOrder
    <2>6. Pred(M, p) = p
      BY <2>4, <2>5, RankIsOrder
    <2> QED BY <2>1, <2>2, <2>6 DEF Denies, Covers
  <1> QED BY <1>1, <1>2

-----------------------------------------------------------------------------
(* What the daemon remembers is well-formed, whatever it learns.              *)

LEMMA NothingIsLayer == IsLayer(Nothing)
  BY DEF IsLayer, Nothing

LEMMA WithoutIsLayer ==
  ASSUME NEW f, IsLayer(f), NEW p \in Path
  PROVE  /\ IsLayer(Without(f, p))
         /\ \A w \in What : Without(f, p)[w][p] = None
  BY DEF IsLayer, Without

LEMMA LearntIsLayer ==
  ASSUME NEW f, IsLayer(f), NEW w \in What, NEW p \in Path, NEW v \in Value(w)
  PROVE  IsLayer([f EXCEPT ![w][p] = v])
  <1> DEFINE g == [f EXCEPT ![w][p] = v]
  <1>1. DOMAIN f = What
    BY DEF IsLayer
  <1>2. g = [x \in What |-> g[x]]
    BY <1>1
  <1>3. \A x \in What : g[x] = IF x = w THEN [f[w] EXCEPT ![p] = v] ELSE f[x]
    BY <1>1
  <1> HIDE DEF g
  <1>4. IsLayer(g)
    BY <1>2, <1>3 DEF IsLayer
  <1> QED BY <1>4 DEF g

LEMMA EmptyIsCache == IsCache(Empty)
  BY NothingIsLayer DEF IsCache, Empty

LEMMA NegativesArePaths ==
  ASSUME NEW N \in SUBSET Path, NEW p \in Path
  PROVE  Deny(N, p) \in SUBSET Path /\ Allow(N, p) \in SUBSET Path
  BY DEF Deny, Allow, Run, From

LEMMA CacheStays ==
  ASSUME NEW c, IsCache(c), NEW p \in Path
  PROVE  IsCache(WithNegative(c, p)) /\ IsCache(WithoutNegative(c, p))
  BY NegativesArePaths DEF IsCache, WithNegative, WithoutNegative

LEMMA InvalidatedIsCache ==
  ASSUME NEW c, IsCache(c), NEW p \in Path
  PROVE  /\ IsCache(Invalidated(c, p))
         /\ ~Denies(Invalidated(c, p).neg, p)
         /\ \A w \in What : Recall(Invalidated(c, p), w, p) = None
         /\ Invalidated(c, p).neg \subseteq c.neg
         /\ \A q \in c.neg : Covers(q, p) => q \notin Invalidated(c, p).neg
  <1>1. c.neg \in SUBSET Path /\ IsLayer(c.perm) /\ IsLayer(c.fresh)
    BY DEF IsCache
  <1>2. /\ Invalidated(c, p).neg = Allow(c.neg, p)
        /\ Invalidated(c, p).perm = Without(c.perm, p)
        /\ Invalidated(c, p).fresh = Without(c.fresh, p)
    BY DEF Invalidated
  <1>3. Allow(c.neg, p) \in SUBSET Path
    BY <1>1, NegativesArePaths
  <1>4. IsLayer(Without(c.perm, p)) /\ IsLayer(Without(c.fresh, p))
    BY <1>1, WithoutIsLayer
  <1>5. IsCache(Invalidated(c, p))
    BY <1>2, <1>3, <1>4 DEF IsCache, Invalidated
  <1>6. /\ Allow(c.neg, p) \subseteq c.neg
        /\ \A q \in Allow(c.neg, p) : ~Covers(q, p)
    BY <1>1, AllowedIsNotCovered
  <1>7. ~Denies(Allow(c.neg, p), p)
    BY <1>3, <1>6, DeniedIsCovered
  <1>8. \A w \in What : Without(c.perm, p)[w][p] = None /\ Without(c.fresh, p)[w][p] = None
    BY <1>1, WithoutIsLayer
  <1> QED BY <1>2, <1>5, <1>6, <1>7, <1>8 DEF Recall

-----------------------------------------------------------------------------
(* What the client says.                                                      *)

DiskOK == tree \in [Path -> Kind] /\ version \in [Path -> Nat]

LEMMA KindsAre == "none" \in Kind /\ "file" \in Kind /\ "dir" \in Kind
  BY DEF Kind

LEMMA StatIsValue ==
  ASSUME DiskOK, NEW p \in Path
  PROVE  Stat(p) \in Value("stat") /\ Stat(p) \in Value("read")
  BY DEF DiskOK, Stat, Value

LEMMA TruthIsValue ==
  ASSUME DiskOK, NEW w \in What, NEW p \in Path
  PROVE  Truth(w, p) \in {None} \cup Value(w)
  <1>1. CASE w = "stat"
    BY <1>1, StatIsValue DEF Truth
  <1>2. CASE w = "read"
    BY <1>2, StatIsValue DEF Truth
  <1>3. CASE w = "list"
    <2>1. Children(tree, p) \in Value("list")
      BY DEF Children, Value
    <2> QED BY <1>3, <2>1 DEF Truth
  <1> QED BY <1>1, <1>2, <1>3 DEF What

LEMMA OfLook ==
  ASSUME NEW r, IsLook(r)
  PROVE  Of(r.op) \in What
  BY DEF IsLook, Of, What

LEMMA FailureIsReply ==
  /\ \A r : IsReply(r, Failure) /\ IsReply(r, [Failure EXCEPT !.code = "ok"])
  /\ Failure # None /\ [Failure EXCEPT !.code = "ok"] # None
  BY NoneIsNoAnswer DEF IsReply, Failure, Answer

LEMMA FoundIsReply ==
  ASSUME DiskOK, NEW r \in Look \cup Mutation, IsLook(r)
  PROVE  /\ IsReply(r, Found(r)) /\ Found(r) # None /\ Found(r).above = None
         /\ Found(r) = [code |-> Found(r).code, value |-> Found(r).value, above |-> None]
  <1>1. Of(r.op) \in What /\ r.path \in Path
    BY OfLook DEF Look, Mutation
  <1> DEFINE v == Truth(Of(r.op), r.path)
  <1>2. v \in {None} \cup Value(Of(r.op))
    BY <1>1, TruthIsValue
  <1>3. v \in {None} \cup UNION {Value(w) : w \in What}
    BY <1>1, <1>2
  <1> HIDE DEF v
  <1>4. \/ Found(r) = [code |-> "ok", value |-> v, above |-> None]
        \/ Found(r) = [code |-> "ENOENT", value |-> None, above |-> None]
        \/ Found(r) = Failure
    BY DEF Found, v
  <1>5. Found(r) \in Answer
    BY <1>3, <1>4 DEF Answer, Failure
  <1> QED BY <1>2, <1>4, <1>5, NoneIsNoAnswer DEF IsReply, Failure

LEMMA MovedIsTree ==
  ASSUME NEW S, NEW f \in [Path -> S], NEW m \in Mutation, NEW none \in S
  PROVE  Moved(f, m, none) \in [Path -> S]
  <1> DEFINE from(q) == Sources(m, q)
  <1>1. Moved(f, m, none) = [q \in Path |->
                          IF from(q) # {} THEN f[CHOOSE p \in from(q) : TRUE]
                          ELSE IF Covers(m.path, q) THEN none ELSE f[q]]
    BY DEF Moved
  <1>2. \A q : from(q) # {} => (CHOOSE p \in from(q) : TRUE) \in Path
    BY DEF Sources
  <1> HIDE DEF from
  <1> QED BY <1>1, <1>2

LEMMA VersionsAre ==
  ASSUME DiskOK, NEW m \in Mutation, NEW i \in Nat
  PROVE  Versions(m, i) \in [Path -> Nat]
  BY MovedIsTree DEF DiskOK, Versions, Mutation

-----------------------------------------------------------------------------
(* The inductive invariant.  Beside the types: attempts are left as long as   *)
(* the daemon may be started, an answer on its way is there, and one that     *)
(* denies names the shallowest missing ancestor.                              *)

Goes(k) == /\ k.at \in {"climbs", "back"} => k.reply # None
           /\ k.at = "climbs" => IsLook(k.req) /\ k.reply.code = "ENOENT"
           /\ k.at = "back" /\ IsLook(k.req) /\ k.reply.code = "ENOENT"
                 => k.reply.above \in Path

StartOK == /\ phase \in {"syncing", "ready", "idle"}
           /\ stage \in {"waits", "asks project", "asks all", "denies", "mounts", "serves",
                         "failed"}
           /\ attempts \in 0..FUSE_MAX_RETRIES
           /\ stage \notin {"serves", "failed"} => attempts < FUSE_MAX_RETRIES
           /\ IsCache(snapshot)

MemoryOK == IsCache(cache) /\ control \in Seq(ControlLine)

CountsOK == mishap \subseteq Mishap /\ faults \in 0..MaxFaults

CallsOK == /\ calls \in Seq(ToSet(calls))
           /\ \A i \in 1..Len(calls) : IsCall(calls[i]) /\ Goes(calls[i])
           /\ Len(calls) <= MaxCalls
           /\ worker \in [Thread -> (1..Len(calls)) \cup {None}]
           /\ pending \subseteq 1..Len(calls)
           /\ EachIsAnswered

IInv == DiskOK /\ StartOK /\ MemoryOK /\ CountsOK /\ CallsOK

LEMMA InvImplies == IInv => TypeOK /\ EachIsAnswered
  BY DEF IInv, DiskOK, StartOK, MemoryOK, CountsOK, CallsOK, TypeOK

LEMMA InitOK == Init => IInv
  <1> SUFFICES ASSUME Init PROVE IInv
    OBVIOUS
  <1> USE DEF Init
  <1>1. DiskOK
    BY ProxyBounds DEF DiskOK
  <1>2. StartOK
    BY EmptyIsCache DEF StartOK, FUSE_MAX_RETRIES
  <1>3. MemoryOK
    BY EmptyIsCache DEF MemoryOK
  <1>4. CountsOK
    BY ProxyBounds DEF CountsOK
  <1>5. CallsOK
    BY ProxyBounds DEF CallsOK, EachIsAnswered
  <1> QED BY <1>1, <1>2, <1>3, <1>4, <1>5 DEF IInv

LEMMA NoteIsMishap ==
  ASSUME NEW c, NEW n \in Mishap
  PROVE  Note(c, n) \subseteq Mishap
  BY DEF Note

LEMMA FaultCounts ==
  ASSUME CountsOK, Trouble
  PROVE  faults + 1 \in 0..MaxFaults
  BY ProxyBounds DEF CountsOK, Trouble

-----------------------------------------------------------------------------
(* The start.                                                                 *)

LEMMA WrittenIsCache ==
  ASSUME StartOK, DiskOK, NEW N \in SUBSET Path, NEW dirs
  PROVE  IsCache([neg |-> N, perm |-> WithDirs(snapshot.perm, dirs), fresh |-> Nothing])
  <1>1. IsLayer(snapshot.perm)
    BY DEF StartOK, IsCache
  <1>2. [kind |-> "dir", version |-> 0] \in Value("stat")
    BY DEF Value, Kind
  <1>3. IsLayer(WithDirs(snapshot.perm, dirs))
    BY <1>1, <1>2 DEF WithDirs, IsLayer
  <1> QED BY <1>3, NothingIsLayer DEF IsCache

LEMMA WalkIsLayer ==
  ASSUME StartOK, DiskOK, NEW S
  PROVE  IsLayer(Walk(S))
  <1>1. IsLayer(snapshot.perm)
    BY DEF StartOK, IsCache
  <1>2. \A w \in What, p \in Path : Truth(w, p) \in {None} \cup Value(w)
    BY TruthIsValue
  <1> QED BY <1>1, <1>2 DEF Walk, IsLayer

LEMMA ManifestIsLayer ==
  ASSUME DiskOK, NEW held \in SUBSET Kept, NEW old \in SUBSET held
  PROVE  IsLayer(FromManifest(held, old))
  <1> DEFINE dirs == UNION {Parents(p) : p \in held}
             made == [p \in Path |-> IF p \in held \cup dirs THEN "dir" ELSE "none"]
             Entry(p) == [kind |-> "file", version |-> IF p \in old THEN Older ELSE version[p]]
             said(w, p) == CASE w \in {"stat", "read"} /\ p \in held -> Entry(p)
                             [] w = "stat" /\ p \in dirs \ held -> [kind |-> "dir", version |-> 0]
                             [] w = "list" /\ p \in dirs -> Children(made, p)
                             [] OTHER -> None
  <1>1. FromManifest(held, old) = [w \in What |-> [p \in Path |-> said(w, p)]]
    BY DEF FromManifest
  <1>2. ASSUME NEW w \in What, NEW p \in Path
        PROVE  said(w, p) \in {None} \cup Value(w)
    <2>1. Entry(p) \in Value("stat") /\ Entry(p) \in Value("read")
      BY ProxyBounds DEF Value, Kind, DiskOK, Older
    <2>2. [kind |-> "dir", version |-> 0] \in Value("stat")
      BY DEF Value, Kind
    <2>3. Children(made, p) \in Value("list")
      BY DEF Children, Value
    <2> HIDE DEF dirs, made, Entry
    <2> QED BY <2>1, <2>2, <2>3 DEF What
  <1> HIDE DEF said
  <1> QED BY <1>1, <1>2 DEF IsLayer

LEMMA StartingStep ==
  ASSUME IInv, Starting
  PROVE  IInv'
  <1> USE DEF IInv
  <1>1. UNCHANGED <<tree, version, calls, worker, pending, control>>
    BY DEF Starting, PhaseSettles, Gather, TakeSnapshot, WriteSnapshot, Mount, disk
  <1>2. DiskOK' /\ CallsOK'
    BY <1>1 DEF DiskOK, CallsOK, EachIsAnswered
  <1>3. CASE PhaseSettles
    BY <1>2, <1>3 DEF PhaseSettles, StartOK, MemoryOK, CountsOK
  <1>4. CASE Gather
    <2>0. MemoryOK'
      BY <1>4 DEF Gather, MemoryOK
    <2>1. CASE phase = "ready"
      <3>1. PICK held \in SUBSET Kept : \E old \in SUBSET held :
              /\ stage' = "asks project"
              /\ old = {} \/ Trouble
              /\ snapshot' = [Empty EXCEPT !.perm = FromManifest(held, old)]
              /\ mishap' = mishap \cup Note(old # {}, "lagging")
              /\ faults' = IF old = {} THEN faults ELSE faults + 1
        BY <1>4, <2>1 DEF Gather
      <3>2. PICK old \in SUBSET held :
              /\ stage' = "asks project"
              /\ old = {} \/ Trouble
              /\ snapshot' = [Empty EXCEPT !.perm = FromManifest(held, old)]
              /\ mishap' = mishap \cup Note(old # {}, "lagging")
              /\ faults' = IF old = {} THEN faults ELSE faults + 1
        BY <3>1
      <3>3. [Empty EXCEPT !.perm = FromManifest(held, old)]
              = [neg |-> {}, perm |-> FromManifest(held, old), fresh |-> Nothing]
        BY DEF Empty
      <3>4. IsCache([neg |-> {}, perm |-> FromManifest(held, old), fresh |-> Nothing])
        BY ManifestIsLayer, NothingIsLayer DEF IsCache
      <3>5. StartOK'
        BY <1>4, <3>2, <3>3, <3>4 DEF Gather, StartOK
      <3>6. mishap' \subseteq Mishap
        <4>1. "lagging" \in Mishap
          BY DEF Mishap
        <4> QED BY <3>2, <4>1, NoteIsMishap DEF CountsOK
      <3>7. faults' \in 0..MaxFaults
        BY <3>2, FaultCounts DEF CountsOK
      <3> QED BY <1>2, <2>0, <3>5, <3>6, <3>7 DEF CountsOK
    <2>2. CASE phase # "ready"
      <3>1. StartOK'
        BY <1>4, <2>2 DEF Gather, StartOK
      <3>2. CountsOK'
        BY <1>4, <2>2 DEF Gather, CountsOK
      <3> QED BY <1>2, <2>0, <3>1, <3>2
    <2> QED BY <2>1, <2>2
  <1>5. ASSUME NEW answered \in SUBSET Asked, TakeSnapshot(answered)
        PROVE  IInv'
    <2> DEFINE S == UNION answered
    <2>1. IsCache(snapshot')
      <3>1. snapshot' = [snapshot EXCEPT !.perm = Walk(S)]
        BY <1>5 DEF TakeSnapshot
      <3>2. IsLayer(Walk(S))
        BY WalkIsLayer
      <3>3. snapshot = [neg |-> snapshot.neg, perm |-> snapshot.perm,
                        fresh |-> snapshot.fresh]
            /\ snapshot.neg \subseteq Path /\ IsLayer(snapshot.fresh)
        BY DEF StartOK, IsCache
      <3> HIDE DEF S
      <3>4. snapshot' = [neg |-> snapshot.neg, perm |-> Walk(S), fresh |-> snapshot.fresh]
        BY <3>1, <3>3
      <3>5. IsCache([neg |-> snapshot.neg, perm |-> Walk(S), fresh |-> snapshot.fresh])
        BY <3>2, <3>3 DEF IsCache
      <3> QED BY <3>4, <3>5
    <2>2. StartOK'
      BY <1>5, <2>1 DEF TakeSnapshot, StartOK
    <2>3. MemoryOK' /\ CountsOK'
      BY <1>5, FaultCounts DEF TakeSnapshot, MemoryOK, CountsOK
    <2> QED BY <1>2, <2>2, <2>3
  <1>6. ASSUME NEW l \in Ledgers, NEW ok \in BOOLEAN, WriteSnapshot(l, ok)
        PROVE  IInv'
    <2>1. IsCache(snapshot')
      <3>1. CASE ok
        <4>1. PICK N \in Listed(l.missing \cup KnownMissing) :
                 snapshot' = [neg |-> N, perm |-> WithDirs(snapshot.perm, l.dirs),
                              fresh |-> Nothing]
          BY <1>6, <3>1 DEF WriteSnapshot
        <4>2. N \in SUBSET Path
          BY <4>1, ProxyBounds DEF Listed
        <4> QED BY <4>1, <4>2, WrittenIsCache
      <3>2. CASE ~ok
        BY <1>6, <3>2, EmptyIsCache DEF WriteSnapshot
      <3> QED BY <3>1, <3>2
    <2>2. StartOK'
      BY <1>6, <2>1 DEF WriteSnapshot, StartOK
    <2>3. mishap' \subseteq Mishap
      <3>1. "seed" \in Mishap /\ "ledger" \in Mishap
        BY DEF Mishap
      <3> QED BY <1>6, <3>1, NoteIsMishap DEF WriteSnapshot, CountsOK
    <2>4. faults' \in 0..MaxFaults
      BY <1>6, FaultCounts DEF WriteSnapshot, CountsOK
    <2>5. MemoryOK'
      BY <1>6 DEF WriteSnapshot, MemoryOK
    <2> QED BY <1>2, <2>2, <2>3, <2>4, <2>5 DEF CountsOK
  <1>7. ASSUME NEW ok \in BOOLEAN, Mount(ok)
        PROVE  IInv'
    <2>1. StartOK'
      <3>1. IsCache(snapshot')
        BY <1>7, EmptyIsCache DEF Mount, StartOK
      <3>2. attempts \in 0..2 /\ attempts' = attempts + 1
        BY <1>7 DEF Mount, StartOK, FUSE_MAX_RETRIES
      <3> QED BY <1>7, <3>1, <3>2 DEF Mount, StartOK, FUSE_MAX_RETRIES
    <2>2. MemoryOK'
      BY <1>7 DEF Mount, MemoryOK, StartOK
    <2>3. CountsOK'
      BY <1>7, FaultCounts DEF Mount, CountsOK
    <2> QED BY <1>2, <2>1, <2>2, <2>3
  <1> QED BY <1>3, <1>4, <1>5, <1>6, <1>7 DEF Starting

-----------------------------------------------------------------------------
(* The daemon's threads.                                                      *)

LEMMA SeqOfItself ==
  ASSUME NEW S, NEW s \in Seq(S)
  PROVE  s \in Seq(ToSet(s))
  BY DEF ToSet

LEMMA LearnedIsCache ==
  ASSUME NEW c, IsCache(c), NEW r \in Look \cup Mutation, NEW a, a # None, IsReply(r, a)
  PROVE  IsCache(Learned(c, r, a))
  <1>0. r.path \in Path /\ r.to \in Path
    BY DEF Look, Mutation
  <1>1. CASE IsLook(r)
    <2>1. CASE a.code = "ok" /\ a.value # None
      <3>1. Of(r.op) \in What /\ a.value \in Value(Of(r.op))
        BY <1>1, <2>1, OfLook DEF IsReply
      <3>2. IsLayer(c.fresh) /\ c.neg \subseteq Path /\ IsLayer(c.perm)
        BY DEF IsCache
      <3>3. IsLayer([c.fresh EXCEPT ![Of(r.op)][r.path] = a.value])
        BY <1>0, <3>1, <3>2, LearntIsLayer
      <3>4. IsCache(Remember(c, Of(r.op), r.path, a.value))
        BY <3>2, <3>3 DEF IsCache, Remember
      <3> QED BY <1>1, <2>1, <3>4 DEF Learned
    <2>2. CASE a.code = "ok" /\ a.value = None
      <3>1. IsLayer(c.fresh) /\ c.neg \subseteq Path /\ IsLayer(c.perm)
        BY DEF IsCache
      <3>2. Of(r.op) \in What
        BY <1>1, OfLook
      <3>3. IsLayer([c.fresh EXCEPT ![Of(r.op)][r.path] = None])
        BY <1>0, <3>1, <3>2 DEF IsLayer
      <3>4. IsCache(Remember(c, Of(r.op), r.path, a.value))
        BY <2>2, <3>1, <3>3 DEF IsCache, Remember
      <3> QED BY <1>1, <2>2, <3>4 DEF Learned
    <2>3. CASE a.code = "ENOENT"
      <3>1. Learned(c, r, a) = WithNegative(c, r.path)
        BY <1>1, <2>3 DEF Learned
      <3> QED BY <1>0, <3>1, CacheStays
    <2>4. CASE a.code \notin {"ok", "ENOENT"}
      BY <1>1, <2>4 DEF Learned
    <2> QED BY <2>1, <2>2, <2>3, <2>4
  <1>2. CASE ~IsLook(r)
    <2>1. IsCache(Invalidated(c, r.path))
      BY <1>0, InvalidatedIsCache
    <2>2. IsCache(Invalidated(Invalidated(c, r.path), r.to))
      BY <1>0, <2>1, InvalidatedIsCache
    <2> QED BY <1>2, <2>1, <2>2 DEF Learned
  <1> QED BY <1>1, <1>2

LEMMA WorkerIsCall ==
  ASSUME CallsOK, NEW t \in Thread, worker[t] # None
  PROVE  worker[t] \in 1..Len(calls) /\ IsCall(calls[worker[t]])
  BY DEF CallsOK

LEMMA BeginStep ==
  ASSUME IInv, NEW t \in Thread, NEW r \in Look \cup Mutation, Begin(t, r)
  PROVE  IInv'
  <1> DEFINE k == [req |-> r, at |-> "pipe", reply |-> None, said |-> None]
  <1>1. DiskOK' /\ StartOK' /\ MemoryOK' /\ CountsOK'
    BY DEF IInv, Begin, disk, start, DiskOK, StartOK, MemoryOK, CountsOK
  <1>2. calls \in Seq(ToSet(calls)) /\ Len(calls) \in Nat
    BY DEF IInv, CallsOK
  <1>3. calls' = Append(calls, k)
    BY DEF Begin
  <1>4. IsCall(k) /\ Goes(k) /\ k.at = "pipe"
    BY DEF IsCall, Goes, IsReply
  <1> HIDE DEF k
  <1>5. calls' \in Seq(ToSet(calls) \cup {k})
    BY <1>2, <1>3
  <1>6. calls' \in Seq(ToSet(calls'))
    BY <1>5, SeqOfItself
  <1>7. Len(calls') = Len(calls) + 1
    BY <1>2, <1>3
  <1>8. \A i \in 1..Len(calls') : calls'[i] = IF i \in 1..Len(calls) THEN calls[i] ELSE k
    BY <1>2, <1>3
  <1>9. \A i \in 1..Len(calls') : IsCall(calls'[i]) /\ Goes(calls'[i])
    BY <1>4, <1>8 DEF IInv, CallsOK
  <1>10. Len(calls') <= MaxCalls
    BY <1>2, <1>7, ProxyBounds DEF Begin, IInv, CountsOK
  <1>11. 1..Len(calls) \subseteq 1..Len(calls') /\ Len(calls) + 1 \in 1..Len(calls')
    <2>1. \A n \in Nat : 1..n \subseteq 1..(n + 1) /\ n + 1 \in 1..(n + 1)
      OBVIOUS
    <2> QED BY <1>2, <1>7, <2>1
  <1>12. worker' \in [Thread -> (1..Len(calls')) \cup {None}]
    BY <1>11 DEF Begin, IInv, CallsOK
  <1>13. pending' \subseteq 1..Len(calls')
    BY <1>11 DEF Begin, IInv, CallsOK
  <1>14. EachIsAnswered'
    BY <1>4, <1>8 DEF Begin, IInv, CallsOK, EachIsAnswered
  <1>15. CallsOK'
    BY <1>6, <1>9, <1>10, <1>12, <1>13, <1>14 DEF CallsOK
  <1> QED BY <1>1, <1>15 DEF IInv

LEMMA ReturnStep ==
  ASSUME IInv, NEW t \in Thread, Return(t)
  PROVE  IInv'
  <1> DEFINE i == worker[t]
  <1>1. DiskOK' /\ StartOK'
    BY DEF IInv, Return, disk, start, DiskOK, StartOK
  <1>2. i # None /\ calls[i].said # None /\ cache' = Learned(cache, calls[i].req, calls[i].said)
    BY DEF Return
  <1>3. i \in 1..Len(calls) /\ IsCall(calls[i])
    BY <1>2, WorkerIsCall DEF IInv
  <1>4. IsCache(cache')
    BY <1>2, <1>3, LearnedIsCache DEF IInv, MemoryOK, IsCall
  <1>5. MemoryOK'
    BY <1>4 DEF Return, IInv, MemoryOK
  <1>6. CountsOK'
    <2>1. "overtaken" \in Mishap
      BY DEF Mishap
    <2> QED BY <2>1, NoteIsMishap DEF Return, IInv, CountsOK
  <1>7. CallsOK'
    BY DEF Return, IInv, CallsOK, EachIsAnswered
  <1> QED BY <1>1, <1>5, <1>6, <1>7 DEF IInv

LEMMA GiveUpStep ==
  ASSUME IInv, NEW t \in Thread, GiveUp(t)
  PROVE  IInv'
  <1>1. DiskOK' /\ StartOK' /\ MemoryOK'
    BY DEF IInv, GiveUp, disk, start, DiskOK, StartOK, MemoryOK
  <1>2. CountsOK'
    <2>1. "given up" \in Mishap
      BY DEF Mishap
    <2> QED BY <2>1, NoteIsMishap, FaultCounts DEF GiveUp, IInv, CountsOK
  <1>3. CallsOK'
    BY DEF GiveUp, IInv, CallsOK, EachIsAnswered
  <1> QED BY <1>1, <1>2, <1>3 DEF IInv

LEMMA ControlStep ==
  ASSUME IInv, Control
  PROVE  IInv'
  <1> DEFINE m == Head(control)
  <1>1. DiskOK' /\ StartOK' /\ CountsOK' /\ CallsOK'
    BY DEF IInv, Control, disk, start, DiskOK, StartOK, CountsOK, CallsOK, EachIsAnswered
  <1>2. m \in ControlLine /\ control' \in Seq(ControlLine)
    BY DEF IInv, MemoryOK, Control
  <1>3. m.path \in Path
    BY <1>2 DEF ControlLine
  <1>4. /\ IsCache(WithNegative(cache, m.path)) /\ IsCache(WithoutNegative(cache, m.path))
        /\ IsCache(Invalidated(cache, m.path))
    BY <1>3, CacheStays, InvalidatedIsCache DEF IInv, MemoryOK
  <1>5. m.do \in {"put_negative", "invalidate_negative_prefix", "invalidate_cache"}
    BY <1>2 DEF ControlLine
  <1>6. cache' = Applied(cache, m)
    BY DEF Control
  <1> HIDE DEF m
  <1>7. IsCache(cache')
    BY <1>4, <1>5, <1>6 DEF Applied
  <1> QED BY <1>1, <1>2, <1>7 DEF IInv, MemoryOK

-----------------------------------------------------------------------------
(* A request goes one step further.                                           *)

LEMMA SetCalls ==
  ASSUME CallsOK, NEW i \in 1..Len(calls), NEW at, NEW reply, NEW said
  PROVE  /\ Set(i, at, reply, said) \in Seq(ToSet(Set(i, at, reply, said)))
         /\ Len(Set(i, at, reply, said)) = Len(calls)
         /\ \A j \in 1..Len(calls) :
               Set(i, at, reply, said)[j] =
                 IF j = i THEN [req |-> calls[i].req, at |-> at, reply |-> reply,
                                said |-> IF calls[i].said = None THEN said ELSE calls[i].said]
                 ELSE calls[j]
  <1> DEFINE k == [req |-> calls[i].req, at |-> at, reply |-> reply,
                   said |-> IF calls[i].said = None THEN said ELSE calls[i].said]
             s == [calls EXCEPT ![i] = k]
  <1>1. Set(i, at, reply, said) = s
    BY DEF Set
  <1>2. calls \in Seq(ToSet(calls))
    BY DEF CallsOK
  <1> HIDE DEF k
  <1>3. s \in Seq(ToSet(calls) \cup {k})
    BY <1>2
  <1>4. Len(s) = Len(calls) /\ \A j \in 1..Len(calls) : s[j] = IF j = i THEN k ELSE calls[j]
    BY <1>2
  <1> HIDE DEF s
  <1>5. s \in Seq(ToSet(s))
    BY <1>3, SeqOfItself
  <1> QED BY <1>1, <1>4, <1>5 DEF k

(* What a request needs so that the requests stay well-formed and answered.   *)
LEMMA SetKeeps ==
  ASSUME CallsOK, NEW i \in 1..Len(calls), NEW reply, NEW said,
         NEW at \in {"pipe", "server", "client", "climbs", "back", "over"},
         calls' = Set(i, at, reply, said),
         IsReply(calls[i].req, reply), IsReply(calls[i].req, said),
         at \in {"climbs", "back"} => reply # None,
         at = "climbs" => IsLook(calls[i].req) /\ reply.code = "ENOENT",
         at = "back" /\ IsLook(calls[i].req) /\ reply.code = "ENOENT" => reply.above \in Path,
         \/ said # None \/ at \in {"pipe", "server"} \/ i \in pending' \/ calls[i].said # None,
         pending \ {i} \subseteq pending', pending' \subseteq pending \cup {i},
         worker' = worker
  PROVE  CallsOK'
  <1> DEFINE k == [req |-> calls[i].req, at |-> at, reply |-> reply,
                   said |-> IF calls[i].said = None THEN said ELSE calls[i].said]
             s == Set(i, at, reply, said)
  <1>0. /\ s \in Seq(ToSet(s)) /\ Len(s) = Len(calls)
        /\ \A j \in 1..Len(calls) : s[j] = IF j = i THEN k ELSE calls[j]
    BY SetCalls
  <1> HIDE DEF s
  <1>1. calls' \in Seq(ToSet(calls')) /\ Len(calls') = Len(calls)
    <2>1. calls' = s
      BY DEF s
    <2>2. ToSet(calls') = ToSet(s)
      BY <2>1
    <2> QED BY <1>0, <2>1, <2>2
  <1>2. \A j \in 1..Len(calls) : calls'[j] = IF j = i THEN k ELSE calls[j]
    BY <1>0 DEF s
  <1>3. IsCall(calls[i])
    BY DEF CallsOK
  <1>4. IsCall(k)
    BY <1>3 DEF IsCall
  <1>5. Goes(k)
    BY DEF Goes
  <1>6. k.said = None => k.at \in {"pipe", "server"} \/ i \in pending'
    OBVIOUS
  <1> HIDE DEF k
  <1>7. \A j \in 1..Len(calls') : IsCall(calls'[j]) /\ Goes(calls'[j])
    BY <1>1, <1>2, <1>4, <1>5 DEF CallsOK
  <1>8. EachIsAnswered'
    BY <1>1, <1>2, <1>6 DEF EachIsAnswered, CallsOK
  <1> QED BY <1>1, <1>7, <1>8 DEF CallsOK

LEMMA CallGoes ==
  ASSUME CallsOK, NEW i \in 1..Len(calls)
  PROVE  IsCall(calls[i]) /\ Goes(calls[i]) /\ calls[i].req \in Look \cup Mutation
         /\ IsReply(calls[i].req, calls[i].reply) /\ IsReply(calls[i].req, None)
         /\ IsReply(calls[i].req, Failure) /\ Failure # None
  BY FailureIsReply DEF CallsOK, IsCall, IsReply

LEMMA ToldIsLines ==
  ASSUME NEW r \in Look \cup Mutation
  PROVE  Told(r) \in Seq(ControlLine)
  <1>1. r.path \in Path /\ r.to \in Path
    BY DEF Look, Mutation
  <1>2. \A p \in Path : /\ Message("invalidate_cache", p) \in ControlLine
                        /\ Message("invalidate_negative_prefix", p) \in ControlLine
    BY DEF Message, ControlLine
  <1> DEFINE p == IF r.op = "rename" THEN r.to ELSE r.path
  <1>3. p \in Path
    BY <1>1
  <1>4. \/ Told(r) = <<>> \/ Told(r) = <<Message("invalidate_cache", r.path)>>
        \/ Told(r) = <<Message("invalidate_negative_prefix", p), Message("invalidate_cache", p)>>
    BY DEF Told
  <1> HIDE DEF p
  <1>5. \A x, y \in ControlLine : <<>> \in Seq(ControlLine) /\ <<x>> \in Seq(ControlLine)
                                 /\ <<x, y>> \in Seq(ControlLine)
    OBVIOUS
  <1> QED BY <1>1, <1>2, <1>3, <1>4, <1>5

LEMMA ReceiveStep ==
  ASSUME IInv, NEW i \in 1..Len(calls), Receive(i)
  PROVE  IInv'
  <1>1. DiskOK' /\ StartOK' /\ CountsOK'
    BY DEF IInv, Receive, disk, start, DiskOK, StartOK, CountsOK
  <1>2. CallsOK'
    BY CallGoes, SetKeeps DEF IInv, Receive
  <1>3. Told(calls[i].req) \in Seq(ControlLine)
    BY CallGoes, ToldIsLines DEF IInv
  <1>4. MemoryOK'
    BY <1>3 DEF IInv, Receive, MemoryOK
  <1> QED BY <1>1, <1>2, <1>4 DEF IInv

LEMMA SendStep ==
  ASSUME IInv, NEW i \in 1..Len(calls), Send(i)
  PROVE  IInv'
  <1>1. DiskOK' /\ StartOK' /\ MemoryOK' /\ CountsOK'
    BY DEF IInv, Send, disk, start, DiskOK, StartOK, MemoryOK, CountsOK
  <1>2. CallsOK'
    BY CallGoes, SetKeeps DEF IInv, Send
  <1> QED BY <1>1, <1>2 DEF IInv

LEMMA SendFailsStep ==
  ASSUME IInv, NEW i \in 1..Len(calls), SendFails(i)
  PROVE  IInv'
  <1>1. DiskOK' /\ StartOK' /\ MemoryOK' /\ CountsOK'
    BY FaultCounts DEF IInv, SendFails, disk, start, DiskOK, StartOK, MemoryOK, CountsOK
  <1>2. CallsOK'
    BY CallGoes, SetKeeps DEF IInv, SendFails
  <1> QED BY <1>1, <1>2 DEF IInv

LEMMA ResolveStep ==
  ASSUME IInv, NEW i \in 1..Len(calls), Resolve(i)
  PROVE  IInv'
  <1> DEFINE said == IF i \in pending THEN calls[i].reply ELSE None
  <1>1. DiskOK' /\ StartOK' /\ CountsOK'
    BY DEF IInv, Resolve, disk, start, DiskOK, StartOK, CountsOK
  <1>2. /\ IsCall(calls[i]) /\ Goes(calls[i])
        /\ IsReply(calls[i].req, calls[i].reply) /\ IsReply(calls[i].req, None)
        /\ calls[i].at = "back" /\ calls[i].reply # None
    BY CallGoes DEF IInv, Resolve, Goes
  <1>3. CallsOK'
    <2>1. calls[i].said = None => i \in pending
      BY <1>2 DEF IInv, CallsOK, EachIsAnswered
    <2>2. IsReply(calls[i].req, said)
      BY <1>2
    <2>3. said # None \/ calls[i].said # None
      BY <1>2, <2>1
    <2>4. /\ calls' = Set(i, "over", calls[i].reply, said)
          /\ pending' = pending \ {i} /\ worker' = worker
      BY DEF Resolve
    <2> HIDE DEF said
    <2> QED BY <1>2, <2>2, <2>3, <2>4, SetKeeps DEF IInv
  <1>4. Denial(i) \in Seq(ControlLine)
    <2>1. CASE IsLook(calls[i].req) /\ calls[i].reply.code = "ENOENT"
      <3>1. calls[i].reply.above \in Path
        BY <1>2, <2>1 DEF Goes
      <3>2. Message("put_negative", calls[i].reply.above) \in ControlLine
        BY <3>1 DEF Message, ControlLine
      <3> QED BY <2>1, <3>2 DEF Denial
    <2>2. CASE ~(IsLook(calls[i].req) /\ calls[i].reply.code = "ENOENT")
      BY <2>2 DEF Denial
    <2> QED BY <2>1, <2>2
  <1>5. MemoryOK'
    BY <1>4 DEF IInv, Resolve, MemoryOK
  <1> QED BY <1>1, <1>3, <1>5 DEF IInv

LEMMA ExpireStep ==
  ASSUME IInv, NEW i \in 1..Len(calls), Expire(i)
  PROVE  IInv'
  <1>1. DiskOK' /\ StartOK' /\ MemoryOK'
    BY DEF IInv, Expire, disk, start, DiskOK, StartOK, MemoryOK
  <1>2. CountsOK'
    <2>1. "given up" \in Mishap
      BY DEF Mishap
    <2> QED BY <2>1, NoteIsMishap, FaultCounts DEF Expire, IInv, CountsOK
  <1>3. CallsOK'
    <2>1. /\ calls[i].at \in {"pipe", "server", "client", "climbs", "back", "over"}
          /\ Goes(calls[i]) /\ IsReply(calls[i].req, calls[i].reply)
          /\ IsReply(calls[i].req, Failure) /\ Failure # None
      BY CallGoes DEF IInv, IsCall
    <2>2. /\ calls' = Set(i, calls[i].at, calls[i].reply, Failure)
          /\ pending' = pending \ {i} /\ worker' = worker
      BY DEF Expire
    <2> QED BY <2>1, <2>2, SetKeeps DEF IInv, Goes
  <1> QED BY <1>1, <1>2, <1>3 DEF IInv

LEMMA ExecuteStep ==
  ASSUME IInv, NEW i \in 1..Len(calls), Execute(i)
  PROVE  IInv'
  <1> DEFINE r == calls[i].req
             a == IF Possible(tree, r) THEN [Failure EXCEPT !.code = "ok"] ELSE Failure
  <1>1. StartOK' /\ MemoryOK'
    BY DEF IInv, Execute, start, StartOK, MemoryOK
  <1>2. r \in Look \cup Mutation /\ IsReply(r, None) /\ calls[i].at = "client"
    BY CallGoes DEF IInv, Execute
  <1>3. calls[i].said # None \/ i \in pending
    BY <1>2 DEF IInv, CallsOK, EachIsAnswered
  <1>4. pending' = pending /\ worker' = worker /\ faults' = faults
    BY DEF Execute
  <1>5. CASE IsLook(r)
    <2>1. /\ IsReply(r, Found(r)) /\ Found(r) # None
      BY <1>2, <1>5, FoundIsReply DEF IInv
    <2> DEFINE at == IF Found(r).code = "ENOENT" THEN "climbs" ELSE "back"
    <2>2. calls' = Set(i, at, Found(r), None) /\ UNCHANGED <<tree, version, mishap>>
      BY <1>5 DEF Execute, disk
    <2>3. at = "climbs" => Found(r).code = "ENOENT"
      OBVIOUS
    <2>4. at = "back" => Found(r).code # "ENOENT"
      OBVIOUS
    <2>5. at \in {"climbs", "back"}
      OBVIOUS
    <2> HIDE DEF at
    <2>6. CallsOK'
      BY <1>2, <1>3, <1>4, <1>5, <2>1, <2>2, <2>3, <2>4, <2>5, SetKeeps DEF IInv
    <2> QED BY <1>1, <1>4, <2>2, <2>6 DEF IInv, DiskOK, CountsOK
  <1>6. CASE ~IsLook(r)
    <2>1. r \in Mutation
      BY <1>2, <1>6 DEF Look, IsLook
    <2>2. i \in Nat
      OBVIOUS
    <2>3. Changed(tree, r) \in [Path -> Kind] /\ Versions(r, i) \in [Path -> Nat]
      BY <2>1, <2>2, ChangedIsTree, VersionsAre DEF IInv, DiskOK
    <2>4. DiskOK'
      BY <1>6, <2>3 DEF Execute, IInv, DiskOK
    <2>5. CountsOK'
      <3>1. "moved tree" \in Mishap /\ "deep" \in Mishap
        BY DEF Mishap
      <3> QED BY <1>6, <3>1, NoteIsMishap DEF Execute, IInv, CountsOK
    <2>6. IsReply(r, a) /\ a # None
      BY FailureIsReply
    <2>7. calls' = Set(i, "back", a, None)
      BY <1>6 DEF Execute
    <2> HIDE DEF a
    <2>8. CallsOK'
      BY <1>2, <1>3, <1>4, <1>6, <2>6, <2>7, SetKeeps DEF IInv
    <2> QED BY <1>1, <2>4, <2>5, <2>8 DEF IInv
  <1> QED BY <1>5, <1>6

LEMMA ClimbStep ==
  ASSUME IInv, NEW i \in 1..Len(calls), Climb(i)
  PROVE  IInv'
  <1> DEFINE a == [calls[i].reply EXCEPT !.above = Shallowest(tree, calls[i].req.path)]
  <1>1. DiskOK' /\ StartOK' /\ MemoryOK' /\ CountsOK'
    BY DEF IInv, Climb, disk, start, DiskOK, StartOK, MemoryOK, CountsOK
  <1>2. /\ calls[i].at = "climbs" /\ Goes(calls[i]) /\ calls[i].req \in Look \cup Mutation
        /\ IsReply(calls[i].req, calls[i].reply) /\ IsReply(calls[i].req, None)
    BY CallGoes DEF IInv, Climb
  <1>3. calls[i].reply # None /\ IsLook(calls[i].req)
    BY <1>2 DEF Goes
  <1>4. Shallowest(tree, calls[i].req.path) \in Path
    BY <1>2, ShallowestIsPath DEF Look, Mutation
  <1>5. a = [code |-> calls[i].reply.code, value |-> calls[i].reply.value,
             above |-> Shallowest(tree, calls[i].req.path)]
    BY <1>2, <1>3 DEF IsReply
  <1> HIDE DEF a
  <1>6. IsReply(calls[i].req, a) /\ a.above \in Path
    BY <1>2, <1>3, <1>4, <1>5 DEF IsReply
  <1>7. a # None
    <2>1. Of(calls[i].req.op) \in What
      BY <1>3, OfLook
    <2>2. a.code \in {"ok", "ENOENT", "failed"} /\ a.above \in {None} \cup Path
      BY <1>2, <1>3, <1>5, <1>6 DEF IsReply
    <2>3. a.value = None \/ a.value \in Value(Of(calls[i].req.op))
      BY <1>2, <1>3, <1>5 DEF IsReply
    <2>4. a.value \in {None} \cup UNION {Value(w) : w \in What}
      BY <2>1, <2>3
    <2>5. a = [code |-> a.code, value |-> a.value, above |-> a.above]
      BY <1>5
    <2>6. a \in Answer
      BY <2>2, <2>4, <2>5 DEF Answer
    <2> QED BY <2>6, NoneIsNoAnswer
  <1>8. /\ calls' = Set(i, "back", a, None) /\ pending' = pending /\ worker' = worker
    BY DEF Climb, a
  <1>9. calls[i].said # None \/ i \in pending
    BY <1>2 DEF IInv, CallsOK, EachIsAnswered
  <1>10. CallsOK'
    BY <1>2, <1>3, <1>6, <1>7, <1>8, <1>9, SetKeeps DEF IInv
  <1> QED BY <1>1, <1>10 DEF IInv

LEMMA LoseStep ==
  ASSUME IInv, NEW i \in 1..Len(calls), Lose(i)
  PROVE  IInv'
  <1>1. DiskOK' /\ StartOK' /\ MemoryOK' /\ CountsOK'
    BY FaultCounts DEF IInv, Lose, disk, start, DiskOK, StartOK, MemoryOK, CountsOK
  <1>2. calls[i].said # None \/ i \in pending
    BY DEF IInv, CallsOK, EachIsAnswered, Lose
  <1>3. CallsOK'
    BY <1>2, CallGoes, SetKeeps DEF IInv, Lose
  <1> QED BY <1>1, <1>3 DEF IInv

LEMMA EditStep ==
  ASSUME IInv, NEW p \in Edited, Edit(p)
  PROVE  IInv'
  <1>1. StartOK' /\ MemoryOK'
    BY DEF IInv, Edit, start, StartOK, MemoryOK
  <1>2. DiskOK'
    <2>1. \A k \in {"file", "none"} : With(tree, {p}, k) \in [Path -> Kind]
      BY KindsAre DEF With, IInv, DiskOK
    <2>2. MaxCalls + 1 + faults \in Nat
      BY ProxyBounds DEF IInv, CountsOK
    <2> QED BY <2>1, <2>2 DEF Edit, IInv, DiskOK
  <1>3. CountsOK'
    <2>1. "user" \in Mishap
      BY DEF Mishap
    <2> QED BY <2>1, FaultCounts DEF Edit, IInv, CountsOK
  <1>4. CallsOK'
    BY DEF Edit, IInv, CallsOK, EachIsAnswered
  <1> QED BY <1>1, <1>2, <1>3, <1>4 DEF IInv

LEMMA StepOK == IInv /\ [Next]_vars => IInv'
  <1> SUFFICES ASSUME IInv, [Next]_vars PROVE IInv'
    OBVIOUS
  <1>1. CASE UNCHANGED vars
    BY <1>1 DEF vars, disk, start, IInv, DiskOK, StartOK, MemoryOK, CountsOK, CallsOK,
                EachIsAnswered
  <1>2. CASE Starting
    BY <1>2, StartingStep
  <1>3. ASSUME NEW t \in Thread, NEW r \in Wanted[t], Begin(t, r)
        PROVE  IInv'
    BY <1>3, BeginStep, ProxyBounds
  <1>4. ASSUME NEW t \in Thread, Return(t) \/ GiveUp(t)
        PROVE  IInv'
    BY <1>4, ReturnStep, GiveUpStep
  <1>5. CASE Control
    BY <1>5, ControlStep
  <1>6. ASSUME NEW i \in 1..Len(calls),
               \/ Receive(i) \/ Send(i) \/ SendFails(i) \/ Resolve(i) \/ Expire(i)
               \/ Execute(i) \/ Climb(i) \/ Lose(i)
        PROVE  IInv'
    BY <1>6, ReceiveStep, SendStep, SendFailsStep, ResolveStep, ExpireStep, ExecuteStep,
       ClimbStep, LoseStep
  <1>7. ASSUME NEW p \in Edited, Edit(p)
        PROVE  IInv'
    BY <1>7, EditStep
  <1>8. CASE AtRest
    BY <1>1, <1>8 DEF AtRest
  <1> QED BY <1>1, <1>2, <1>3, <1>4, <1>5, <1>6, <1>7, <1>8 DEF Next

LEMMA Always == Spec => []IInv
  BY InitOK, StepOK, PTL DEF Spec

-----------------------------------------------------------------------------

(* The memory of the daemon, the requests in every stage of their way, and    *)
(* the counters keep their types.                                             *)
THEOREM TypeCorrect == Spec => []TypeOK
  BY Always, InvImplies, PTL

(* However sends fail, messages get lost and timers run out, every request    *)
(* that was passed on is answered or has its timer running.                   *)
THEOREM EveryRequestIsAnswered == Spec => []EachIsAnswered
  BY Always, InvImplies, PTL

(* A change that has succeeded is never hidden from the thread that made it   *)
(* by what the daemon remembered before.                                      *)
THEOREM SuccessIsSeen == Spec => ChangeIsSeen
  <1> DEFINE Seen(t) ==
        LET i == worker[t]
        IN  /\ i # None /\ worker'[t] = None
            /\ calls[i].said # None /\ calls[i].said.code = "ok" /\ ~IsLook(calls[i].req)
            => \A p \in {calls[i].req.path, IF calls[i].req.op = "rename"
                                            THEN calls[i].req.to ELSE calls[i].req.path} :
                   /\ ~Denies(cache'.neg, p)
                   /\ \A w \in What : Recall(cache', w, p) = None
  <1>1. ASSUME IInv, Next, NEW t \in Thread
        PROVE  Seen(t)
    <2> DEFINE i == worker[t]
               r == calls[i].req
               a == calls[i].said
    <2> SUFFICES ASSUME i # None, worker'[t] = None, a # None, a.code = "ok", ~IsLook(r),
                        NEW p \in {r.path, IF r.op = "rename" THEN r.to ELSE r.path}
                 PROVE  ~Denies(cache'.neg, p) /\ \A w \in What : Recall(cache', w, p) = None
      OBVIOUS
    <2>1. i \in 1..Len(calls) /\ IsCall(calls[i])
      BY <1>1, WorkerIsCall DEF IInv
    <2>2. worker' # worker
      OBVIOUS
    <2>3. Return(t)
      <3>1. PICK u \in Thread : \/ \E q \in Wanted[u] : Begin(u, q)
                                \/ Return(u) \/ GiveUp(u)
        BY <1>1, <2>2 DEF Next, Starting, PhaseSettles, Gather, TakeSnapshot, WriteSnapshot, Mount,
                    Control, Receive, Send, SendFails, Resolve, Expire, Execute, Climb, Lose,
                    Edit, AtRest, vars
      <3>2. u = t
        BY <1>1, <3>1 DEF Begin, Return, GiveUp, IInv, CallsOK
      <3>3. ~\E q \in Wanted[t] : Begin(t, q)
        BY DEF Begin
      <3>4. ~GiveUp(t)
        BY DEF GiveUp
      <3> QED BY <3>1, <3>2, <3>3, <3>4
    <2>4. cache' = Learned(cache, r, a)
      BY <2>3 DEF Return
    <2>5. r.path \in Path /\ r.to \in Path /\ IsCache(cache)
      BY <1>1, <2>1 DEF IsCall, Look, Mutation, IInv, MemoryOK
    <2> HIDE DEF i, r, a
    <2> DEFINE c == Invalidated(cache, r.path)
               d == Invalidated(c, r.to)
    <2>6. /\ IsCache(c) /\ ~Denies(c.neg, r.path)
          /\ \A w \in What : Recall(c, w, r.path) = None
          /\ \A q \in c.neg : ~Covers(q, r.path)
      <3>1. c.neg \subseteq cache.neg
        BY <2>5, InvalidatedIsCache
      <3> QED BY <2>5, <3>1, InvalidatedIsCache
    <2>7. CASE r.op # "rename"
      BY <2>4, <2>6, <2>7 DEF Learned
    <2>8. CASE r.op = "rename"
      <3>1. cache' = d
        BY <2>4, <2>8 DEF Learned
      <3>2. /\ IsCache(d) /\ ~Denies(d.neg, r.to) /\ d.neg \subseteq c.neg
            /\ \A w \in What : Recall(d, w, r.to) = None
        BY <2>5, <2>6, InvalidatedIsCache
      <3>3. ~Denies(d.neg, r.path)
        <4>1. d.neg \in SUBSET Path
          BY <3>2 DEF IsCache
        <4>2. \A q \in d.neg : ~Covers(q, r.path)
          BY <2>6, <3>2
        <4> QED BY <2>5, <4>1, <4>2, DeniedIsCovered
      <3>4. \A w \in What : Recall(d, w, r.path) = None
        BY <2>5, <2>6 DEF Recall, Invalidated, Without
      <3> HIDE DEF d
      <3> QED BY <2>8, <3>1, <3>2, <3>3, <3>4
    <2> QED BY <2>7, <2>8
  <1>2. IInv /\ [Next]_vars => [\A t \in Thread : Seen(t)]_vars
    BY <1>1
  <1>3. QED BY <1>2, Always, PTL DEF ChangeIsSeen, Spec

-----------------------------------------------------------------------------
(* The daemon's memory once the pipe is read.                                 *)

(* Induction over the numbers, for a set of them.                             *)
LEMMA Induction ==
  ASSUME NEW S, 0 \in S, \A m \in S : m + 1 \in S
  PROVE  Nat \subseteq S
  <1> SUFFICES ASSUME NEW n \in Nat \ S PROVE FALSE
    OBVIOUS
  <1>1. PICK m \in Nat \ S : \A k \in Nat \ S : ~(<<k, m>> \in OpToRel(<, Nat))
    BY NatLessThanWellFounded, WFMin
  <1>2. m - 1 \in Nat /\ m - 1 < m /\ (m - 1) + 1 = m
    <2>1. m \in Nat /\ m # 0
      OBVIOUS
    <2> QED BY <2>1
  <1>3. m - 1 \in S
    BY <1>1, <1>2 DEF OpToRel
  <1> QED BY <1>2, <1>3

(* The greatest element of a set of numbers up to n.                          *)
LEMMA MaxIsLast ==
  ASSUME NEW n \in Nat, NEW s \in SUBSET (1..n), s # {}
  PROVE  Max(s) \in s /\ \A y \in s : y <= Max(s)
  <1> DEFINE D == {n - x : x \in s}
             Greatest(x) == \A y \in s : x >= y
  <1>1. D \subseteq Nat /\ D # {}
    OBVIOUS
  <1>2. PICK d \in D : \A m \in D : ~(<<m, d>> \in OpToRel(<, Nat))
    BY <1>1, NatLessThanWellFounded, WFMin
  <1>3. PICK x \in s : d = n - x
    BY <1>2
  <1>4. \A y \in s : y \in 1..n /\ ~(n - y < n - x)
    BY <1>1, <1>2, <1>3 DEF OpToRel
  <1>5. Greatest(x)
    BY <1>4
  <1>6. Max(s) = CHOOSE z \in s : Greatest(z)
    BY DEF Max
  <1> HIDE DEF Greatest
  <1>7. Max(s) \in s /\ Greatest(Max(s))
    BY <1>3, <1>5, <1>6
  <1> QED BY <1>7, <1>4 DEF Greatest

(* The daemon's memory after the first k lines of the pipe.                   *)
Along(F) == /\ F[0] = cache
            /\ \A k \in 1..Len(control) : F[k] = Applied(F[k - 1], control[k])

(* The fold over the pipe is the last of the memories along it.  FoldLeft     *)
(* recurs over the sets of places in the sequence, taking the last one off.   *)
LEMMA SettledIsLast ==
  ASSUME MemoryOK
  PROVE  \E F : Along(F) /\ Settled = F[Len(control)]
  <1> DEFINE n == Len(control)
             Is(f, m) == f = [s \in SUBSET (1..m) |->
                                IF s = {} THEN cache
                                ELSE Applied(f[s \ {Max(s)}], control[Max(s)])]
  <1>1. n \in Nat /\ DOMAIN control = 1..n
    BY DEF MemoryOK
  <1>2. \E f : Is(f, 0)
    <2>1. Is([s \in SUBSET (1..0) |-> cache], 0)
      OBVIOUS
    <2> QED BY <2>1
  <1>3. ASSUME NEW m \in Nat, \E f : Is(f, m)
        PROVE  \E f : Is(f, m + 1)
    <2>1. PICK f : Is(f, m)
      BY <1>3
    <2> DEFINE h == [s \in SUBSET (1..(m + 1)) |->
                       IF m + 1 \in s THEN Applied(f[s \ {m + 1}], control[m + 1]) ELSE f[s]]
    <2>2. ASSUME NEW s \in SUBSET (1..(m + 1))
          PROVE  h[s] = IF s = {} THEN cache
                        ELSE Applied(h[s \ {Max(s)}], control[Max(s)])
      <3>1. CASE m + 1 \in s
        <4>1. Max(s) = m + 1
          <5>1. m + 1 \in Nat
            OBVIOUS
          <5>2. Max(s) \in s /\ m + 1 <= Max(s)
            BY <3>1, <5>1, MaxIsLast
          <5>3. Max(s) \in 1..(m + 1)
            BY <5>2
          <5> QED BY <5>2, <5>3
        <4>2. s \ {m + 1} \in SUBSET (1..(m + 1)) /\ m + 1 \notin s \ {m + 1}
          OBVIOUS
        <4>3. h[s \ {m + 1}] = f[s \ {m + 1}]
          BY <4>2
        <4>4. h[s] = Applied(f[s \ {m + 1}], control[m + 1])
          BY <3>1
        <4> QED BY <3>1, <4>1, <4>3, <4>4
      <3>2. CASE m + 1 \notin s
        <4>1. s \in SUBSET (1..m)
          BY <3>2
        <4>2. h[s] = f[s]
          BY <3>2
        <4>3. f[s] = IF s = {} THEN cache ELSE Applied(f[s \ {Max(s)}], control[Max(s)])
          BY <2>1, <4>1
        <4>4. s # {} => h[s \ {Max(s)}] = f[s \ {Max(s)}]
          BY <3>2
        <4> QED BY <4>2, <4>3, <4>4
      <3> QED BY <3>1, <3>2
    <2>3. h = [s \in SUBSET (1..(m + 1)) |-> h[s]]
      OBVIOUS
    <2> HIDE DEF h
    <2>4. Is(h, m + 1)
      BY <2>2, <2>3
    <2> QED BY <2>4
  <1>4. \E f : Is(f, n)
    <2> HIDE DEF Is
    <2> DEFINE S == {m \in Nat : \E f : Is(f, m)}
    <2>1. 0 \in S /\ \A m \in S : m + 1 \in S
      BY <1>2, <1>3
    <2> HIDE DEF S
    <2>2. Nat \subseteq S
      BY <2>1, Induction
    <2> QED BY <1>1, <2>2 DEF S
  <1> DEFINE iter == CHOOSE f : f = [s \in SUBSET DOMAIN control |->
                                       IF s = {} THEN cache
                                       ELSE Applied(f[s \ {Max(s)}], control[Max(s)])]
  <1>5. Settled = iter[DOMAIN control]
    BY DEF Settled, FoldLeft, MapThenFoldSet
  <1>6. Is(iter, n)
    <2>1. iter = CHOOSE f : Is(f, n)
      BY <1>1
    <2> HIDE DEF Is, iter
    <2> QED BY <1>4, <2>1
  <1> DEFINE F == [k \in 0..n |-> iter[1..k]]
  <1>7. F[0] = cache
    <2>1. 1..0 = {} /\ {} \in SUBSET (1..n) /\ 0 \in 0..n
      BY <1>1
    <2>2. iter[{}] = cache
      BY <1>6, <2>1
    <2> QED BY <2>1, <2>2
  <1>8. ASSUME NEW k \in 1..n
        PROVE  F[k] = Applied(F[k - 1], control[k])
    <2>0. k \in Nat /\ k # 0 /\ k <= n
      BY <1>1
    <2> HIDE DEF n
    <2>1. 1..k \in SUBSET (1..n) /\ 1..k # {} /\ (1..k) \ {k} = 1..(k - 1) /\ k - 1 \in 0..n
      BY <1>1, <2>0
    <2>2. Max(1..k) = k
      <3>0. 1..k \in SUBSET (1..k) /\ k \in 1..k
        BY <2>0
      <3>1. Max(1..k) \in 1..k /\ k <= Max(1..k)
        BY <2>0, <2>1, <3>0, MaxIsLast
      <3>2. Max(1..k) \in Nat /\ Max(1..k) <= k
        BY <2>0, <3>1
      <3> QED BY <2>0, <3>1, <3>2
    <2>3. iter[1..k] = Applied(iter[(1..k) \ {Max(1..k)}], control[Max(1..k)])
      BY <1>6, <2>1
    <2> HIDE DEF iter
    <2>4. F[k] = iter[1..k] /\ F[k - 1] = iter[1..(k - 1)]
      BY <2>0, <2>1
    <2> QED BY <2>1, <2>2, <2>3, <2>4
  <1>9. Settled = F[n]
    BY <1>1, <1>5
  <1> HIDE DEF F
  <1> QED BY <1>7, <1>8, <1>9 DEF Along

(* The lines that forget a denial of q, from the k-th line on.                *)
Kills(l, q) == control[l].do # "put_negative" /\ Covers(q, control[l].path)

Wipes(l, w, p) == /\ control[l].do = "invalidate_cache"
                  /\ \/ p = control[l].path
                     \/ w = "list" /\ p = Parent(control[l].path)

LEMMA LineDenies ==
  ASSUME MemoryOK, NEW l \in 1..Len(control), NEW c, NEW q \in Applied(c, control[l]).neg
  PROVE  /\ ~Kills(l, q)
         /\ q \notin c.neg => control[l].do = "put_negative" /\ q = control[l].path
  <1> DEFINE m == control[l]
  <1>1. m.do \in {"put_negative", "invalidate_negative_prefix", "invalidate_cache"}
    <2>1. m \in ControlLine
      BY DEF MemoryOK
    <2> QED BY <2>1 DEF ControlLine
  <1>2. CASE m.do = "put_negative"
    <2>1. Applied(c, m).neg = Deny(c.neg, m.path)
      BY <1>2 DEF Applied, WithNegative
    <2> QED BY <1>2, <2>1 DEF Deny, Kills
  <1>3. CASE m.do # "put_negative"
    <2>1. Applied(c, m).neg = Allow(c.neg, m.path)
      BY <1>1, <1>3 DEF Applied, WithoutNegative, Invalidated
    <2> QED BY <1>3, <2>1 DEF Allow, Kills
  <1> QED BY <1>2, <1>3

LEMMA LineForgets ==
  ASSUME MemoryOK, NEW l \in 1..Len(control), NEW c,
         NEW layer \in {"perm", "fresh"}, NEW w \in What, NEW p \in Path
  PROVE  /\ Applied(c, control[l])[layer][w][p] \in {None, c[layer][w][p]}
         /\ Wipes(l, w, p) => Applied(c, control[l])[layer][w][p] = None
  <1> DEFINE m == control[l]
  <1>1. m.do \in {"put_negative", "invalidate_negative_prefix", "invalidate_cache"}
    <2>1. m \in ControlLine
      BY DEF MemoryOK
    <2> QED BY <2>1 DEF ControlLine
  <1>2. CASE m.do # "invalidate_cache"
    <2>1. Applied(c, m).perm = c.perm /\ Applied(c, m).fresh = c.fresh
      BY <1>1, <1>2 DEF Applied, WithNegative, WithoutNegative
    <2> QED BY <1>2, <2>1 DEF Wipes
  <1>3. CASE m.do = "invalidate_cache"
    <2>1. /\ Applied(c, m).perm = Without(c.perm, m.path)
          /\ Applied(c, m).fresh = Without(c.fresh, m.path)
      BY <1>3 DEF Applied, Invalidated
    <2>2. \A f : Without(f, m.path)[w][p] =
                    IF p = m.path \/ (w = "list" /\ p = Parent(m.path)) THEN None ELSE f[w][p]
      BY DEF Without
    <2>3. Applied(c, m)[layer] = Without(c[layer], m.path)
      BY <2>1
    <2> QED BY <2>2, <2>3 DEF Wipes
  <1> QED BY <1>2, <1>3

(* Once the pipe is read, the negative cache has what it had or was told, and *)
(* was not told to forget since; a layer has what it had, or forgot it.       *)
LEMMA SettledSays ==
  ASSUME MemoryOK
  PROVE  /\ \A q \in Settled.neg :
               \/ q \in cache.neg /\ \A l \in 1..Len(control) : ~Kills(l, q)
               \/ \E k \in 1..Len(control) :
                     /\ control[k].do = "put_negative" /\ q = control[k].path
                     /\ \A l \in (k + 1)..Len(control) : ~Kills(l, q)
         /\ \A layer \in {"perm", "fresh"}, w \in What, p \in Path :
               /\ Settled[layer][w][p] \in {None, cache[layer][w][p]}
               /\ (\E l \in 1..Len(control) : Wipes(l, w, p)) => Settled[layer][w][p] = None
  <1>1. PICK F : Along(F) /\ Settled = F[Len(control)]
    BY SettledIsLast
  <1> DEFINE n == Len(control)
             Negatives(m) == \A q \in F[m].neg :
               \/ q \in cache.neg /\ \A l \in 1..m : ~Kills(l, q)
               \/ \E k \in 1..m : /\ control[k].do = "put_negative" /\ q = control[k].path
                                   /\ \A l \in (k + 1)..m : ~Kills(l, q)
             Layers(m) == \A layer \in {"perm", "fresh"}, w \in What, p \in Path :
               /\ F[m][layer][w][p] \in {None, cache[layer][w][p]}
               /\ (\E l \in 1..m : Wipes(l, w, p)) => F[m][layer][w][p] = None
             S == {m \in Nat : m <= n => Negatives(m) /\ Layers(m)}
  <1>2. n \in Nat
    BY DEF MemoryOK
  <1>3. 0 \in S
    BY <1>1 DEF Along
  <1>4. ASSUME NEW m \in S
        PROVE  m + 1 \in S
    <2> SUFFICES ASSUME m + 1 <= n PROVE Negatives(m + 1) /\ Layers(m + 1)
      OBVIOUS
    <2>1. m \in Nat /\ m + 1 \in 1..n /\ Negatives(m) /\ Layers(m) /\ (m + 1) - 1 = m
      BY <1>2
    <2>2. F[m + 1] = Applied(F[m], control[m + 1])
      BY <1>1, <2>1 DEF Along
    <2>3. /\ 1..(m + 1) = (1..m) \cup {m + 1} /\ (m + 1 + 1)..(m + 1) = {}
          /\ \A k \in 1..m : (k + 1)..(m + 1) = ((k + 1)..m) \cup {m + 1}
      BY <2>1
    <2> HIDE DEF n, S
    <2>4. Negatives(m + 1)
      <3> SUFFICES ASSUME NEW q \in F[m + 1].neg
                   PROVE  \/ q \in cache.neg /\ \A l \in 1..(m + 1) : ~Kills(l, q)
                          \/ \E k \in 1..(m + 1) :
                                /\ control[k].do = "put_negative" /\ q = control[k].path
                                /\ \A l \in (k + 1)..(m + 1) : ~Kills(l, q)
        OBVIOUS
      <3>1. /\ ~Kills(m + 1, q)
            /\ \/ q \in F[m].neg
               \/ control[m + 1].do = "put_negative" /\ q = control[m + 1].path
        <4>1. m + 1 \in 1..Len(control)
          BY <2>1 DEF n
        <4>2. q \in Applied(F[m], control[m + 1]).neg
          BY <2>2
        <4> QED BY <4>1, <4>2, LineDenies
      <3>2. CASE q \in F[m].neg
        BY <2>1, <2>3, <3>1, <3>2
      <3>3. CASE control[m + 1].do = "put_negative" /\ q = control[m + 1].path
        BY <2>3, <3>3
      <3> QED BY <3>1, <3>2, <3>3
    <2>5. Layers(m + 1)
      <3> SUFFICES ASSUME NEW layer \in {"perm", "fresh"}, NEW w \in What, NEW p \in Path
                   PROVE  /\ F[m + 1][layer][w][p] \in {None, cache[layer][w][p]}
                          /\ (\E l \in 1..(m + 1) : Wipes(l, w, p)) => F[m + 1][layer][w][p] = None
        OBVIOUS
      <3>1. /\ F[m + 1][layer][w][p] \in {None, F[m][layer][w][p]}
            /\ Wipes(m + 1, w, p) => F[m + 1][layer][w][p] = None
        BY <2>1, <2>2, LineForgets DEF n
      <3>2. /\ F[m][layer][w][p] \in {None, cache[layer][w][p]}
            /\ (\E l \in 1..m : Wipes(l, w, p)) => F[m][layer][w][p] = None
        BY <2>1
      <3> QED BY <2>3, <3>1, <3>2
    <2> QED BY <2>4, <2>5
  <1> HIDE DEF S
  <1>5. n \in S
    BY <1>2, <1>3, <1>4, Induction
  <1>6. Negatives(n) /\ Layers(n)
    BY <1>2, <1>5 DEF S
  <1> QED BY <1>1, <1>6

LEMMA NegativesStayPaths ==
  ASSUME MemoryOK
  PROVE  Settled.neg \in SUBSET Path
  <1> SUFFICES ASSUME NEW q \in Settled.neg PROVE q \in Path
    OBVIOUS
  <1>1. CASE q \in cache.neg
    BY <1>1 DEF MemoryOK, IsCache
  <1>2. CASE \E k \in 1..Len(control) : q = control[k].path
    <2>1. PICK k \in 1..Len(control) : q = control[k].path
      BY <1>2
    <2>2. control[k] \in ControlLine
      BY DEF MemoryOK
    <2> QED BY <2>1, <2>2 DEF ControlLine
  <1> QED BY <1>1, <1>2, SettledSays

-----------------------------------------------------------------------------
(* What the daemon holds and what is on its way to it, as long as none of the *)
(* mishaps has happened: each denial and each answer is true, or a change     *)
(* that the client has made since is not over yet and will undo it.           *)

Disturbs(m, w, p) == \E e \in Ends(m) : p = e \/ (w = "list" /\ p = Parent(e))

Underway(i) == calls[i].at # "over" \/ Waiting(i)

Made(i) == /\ ~IsLook(calls[i].req) /\ Underway(i)
           /\ calls[i].reply # None /\ calls[i].reply.code = "ok"

Excused(w, p) == \E i \in 1..Len(calls) : Made(i) /\ Disturbs(calls[i].req, w, p)

Missing(q) == \A p \in Path : Covers(q, p) /\ Exists(p) => Excused("stat", p)

Right(v, layer, w, p) == Agrees(v, layer, w, p) \/ Excused(w, p)

(* Nothing has been asked for, and the snapshot is true.                      *)
NotYet ==
    /\ calls = <<>> /\ control = <<>> /\ cache = Empty
    /\ \A p \in Path : version[p] = 0
    /\ snapshot.fresh = Nothing
    /\ \A w \in What, p \in Path : Agrees(snapshot.perm[w][p], "perm", w, p)
    /\ \A q \in snapshot.neg, p \in Path : Covers(q, p) => ~Exists(p)

(* A change is waited for until it is over, and is told what became of it.    *)
ChangeOK(i) ==
    LET k == calls[i]
    IN  /\ k.at # "over" \/ k.said = None => Waiting(i)
        /\ k.at # "over" => k.said = None
        /\ k.said # None /\ k.reply # None => k.said = k.reply

LookOK(i) ==
    LET k == calls[i]
    IN  /\ k.said # None => k.said = Failure \/ (k.said = k.reply /\ k.at = "over")
        /\ k.reply # None /\ Underway(i) =>
              /\ k.reply.code = "ok" => Right(k.reply.value, "fresh", Of(k.req.op), k.req.path)
              /\ k.reply.code = "ENOENT" => Missing(k.req.path)
              /\ k.reply.above # None => Missing(k.reply.above)

RequestOK(i) == /\ calls[i].at \in {"pipe", "server", "client"} => calls[i].reply = None
                /\ IF IsLook(calls[i].req) THEN LookOK(i) ELSE ChangeOK(i)

RequestsTrue == \A i \in 1..Len(calls) : RequestOK(i)

Lives(q, k) == \A l \in (k + 1)..Len(control) : ~Kills(l, q)

DenialsTrue ==
    /\ \A q \in cache.neg : Lives(q, 0) => Missing(q)
    /\ \A k \in 1..Len(control) :
          control[k].do = "put_negative" /\ Lives(control[k].path, k) => Missing(control[k].path)

LayersTrue == \A layer \in {"perm", "fresh"}, w \in What, p \in Path :
    (\A l \in 1..Len(control) : ~Wipes(l, w, p)) => Right(cache[layer][w][p], layer, w, p)

Truthful == /\ IsTree(tree)
            /\ stage # "serves" => NotYet
            /\ RequestsTrue /\ DenialsTrue /\ LayersTrue

-----------------------------------------------------------------------------
(* What it says: the two properties.                                          *)

LEMMA ParentIs ==
  ASSUME NEW e \in Path, Parent(e) \in Path
  PROVE  Covers(Parent(e), e)
  <1>1. e \in Seq(Name) /\ Len(e) \in Nat \ {0} /\ Parent(e) \in Seq(Name) /\ Parent(e) # <<>>
    BY SelfCovers, PathsAreNames
  <1>2. Len(e) - 1 \in 1..(Len(e) - 1)
    <2>1. CASE Len(e) = 1
      BY <1>1, <2>1 DEF Parent
    <2>2. CASE Len(e) # 1
      <3>1. \A n \in Nat \ {0} : n # 1 => n - 1 \in 1..(n - 1)
        OBVIOUS
      <3> QED BY <1>1, <2>2, <3>1
    <2> QED BY <2>1, <2>2
  <1> QED BY <1>2 DEF Parent, Covers, Above

LEMMA ExcusedIsMaking ==
  ASSUME CallsOK, NEW w, NEW p \in Path, Excused(w, p)
  PROVE  Making(p)
  <1>1. PICK i \in 1..Len(calls) : Made(i) /\ Disturbs(calls[i].req, w, p)
    BY DEF Excused
  <1> DEFINE m == calls[i].req
  <1>2. m.path \in Path /\ m.to \in Path
    BY CallGoes DEF Look, Mutation
  <1>3. PICK e \in {m.path, m.to} : p = e \/ p = Parent(e)
    BY <1>1 DEF Disturbs, Ends
  <1>4. Covers(p, e)
    BY <1>2, <1>3, ParentIs DEF Covers
  <1> QED BY <1>1, <1>3, <1>4 DEF Making, Made, Underway

LEMMA TruthfulSays ==
  ASSUME IInv, Truthful
  PROVE  /\ \A p \in Path : Exists(p) /\ Denies(Settled.neg, p) => Making(p)
         /\ \A layer \in {"perm", "fresh"}, w \in What, p \in Path :
               Agrees(Settled[layer][w][p], layer, w, p) \/ Making(p)
  <1>1. MemoryOK /\ CallsOK
    BY DEF IInv
  <1>2. ASSUME NEW p \in Path, Exists(p), Denies(Settled.neg, p)
        PROVE  Making(p)
    <2>1. PICK q \in Settled.neg : Covers(q, p)
      <3>1. UpTo(Settled.neg, p) # {} /\ Covers(Pred(Settled.neg, p), p)
        BY <1>2 DEF Denies
      <3>2. Settled.neg \in SUBSET Path
        BY <1>1, NegativesStayPaths
      <3> QED BY <1>2, <3>2, DeniedIsCovered
    <2>2. Missing(q)
      <3>1. CASE q \in cache.neg /\ \A l \in 1..Len(control) : ~Kills(l, q)
        BY <3>1 DEF Truthful, DenialsTrue, Lives
      <3>2. CASE \E k \in 1..Len(control) :
                    /\ control[k].do = "put_negative" /\ q = control[k].path
                    /\ \A l \in (k + 1)..Len(control) : ~Kills(l, q)
        BY <3>2 DEF Truthful, DenialsTrue, Lives
      <3> QED BY <1>1, <3>1, <3>2, SettledSays
    <2> QED BY <1>1, <1>2, <2>1, <2>2, ExcusedIsMaking DEF Missing
  <1>3. ASSUME NEW layer \in {"perm", "fresh"}, NEW w \in What, NEW p \in Path
        PROVE  Agrees(Settled[layer][w][p], layer, w, p) \/ Making(p)
    <2>1. /\ Settled[layer][w][p] \in {None, cache[layer][w][p]}
          /\ (\E l \in 1..Len(control) : Wipes(l, w, p)) => Settled[layer][w][p] = None
      BY <1>1, SettledSays
    <2>2. CASE Settled[layer][w][p] = None
      BY <2>2 DEF Agrees
    <2>3. CASE Settled[layer][w][p] # None
      <3>1. Right(cache[layer][w][p], layer, w, p)
        BY <2>1, <2>3 DEF Truthful, LayersTrue
      <3> QED BY <1>1, <2>1, <2>3, <3>1, ExcusedIsMaking DEF Right
    <2> QED BY <2>2, <2>3
  <1> QED BY <1>2, <1>3

-----------------------------------------------------------------------------
(* What is not disturbed stays true.                                          *)

Holds == \A w \in What, p \in Path :
    /\ Excused(w, p) => Excused(w, p)'
    /\ Excused(w, p)' \/ (Truth(w, p)' = Truth(w, p) /\ tree'[p] = tree[p])

LEMMA DiskHolds ==
  ASSUME UNCHANGED disk, \A w \in What, p \in Path : Excused(w, p) => Excused(w, p)'
  PROVE  Holds
  BY DEF Holds, disk, Truth, Exists, Stat, Children

LEMMA HoldsKeeps ==
  ASSUME Holds
  PROVE  /\ \A q : Missing(q) => Missing(q)'
         /\ \A v, layer : \A w \in What, p \in Path :
               Right(v, layer, w, p) => Right(v, layer, w, p)'
  <1>1. ASSUME NEW q, Missing(q) PROVE Missing(q)'
    <2> SUFFICES ASSUME NEW p \in Path, Covers(q, p), Exists(p)' PROVE Excused("stat", p)'
      BY DEF Missing
    <2>1. "stat" \in What
      BY DEF What
    <2>2. Excused("stat", p)' \/ tree'[p] = tree[p]
      BY <2>1 DEF Holds
    <2>3. tree'[p] = tree[p] => Excused("stat", p)
      BY <1>1 DEF Missing, Exists
    <2> QED BY <2>1, <2>2, <2>3 DEF Holds
  <1>2. ASSUME NEW v, NEW layer, NEW w \in What, NEW p \in Path, Right(v, layer, w, p)
        PROVE  Right(v, layer, w, p)'
    <2>1. CASE Excused(w, p)
      BY <2>1 DEF Holds, Right
    <2>2. CASE Agrees(v, layer, w, p) /\ ~Excused(w, p)'
      <3>1. Truth(w, p)' = Truth(w, p) /\ tree'[p] = tree[p]
        BY <2>2 DEF Holds
      <3> QED BY <2>2, <3>1 DEF Agrees, Right
    <2>3. CASE Excused(w, p)'
      BY <2>3 DEF Right
    <2> QED BY <1>2, <2>1, <2>2, <2>3 DEF Right
  <1> QED BY <1>1, <1>2

(* The daemon learns what is true, and forgets what it likes.                 *)
LEMMA MemoryLearns ==
  ASSUME Holds, DenialsTrue, LayersTrue, control' = control,
         \A q \in cache'.neg : q \in cache.neg \/ Missing(q),
         \A layer \in {"perm", "fresh"}, w \in What, p \in Path :
            \/ cache'[layer][w][p] \in {None, cache[layer][w][p]}
            \/ Right(cache'[layer][w][p], layer, w, p)
  PROVE  DenialsTrue' /\ LayersTrue'
  <1>1. \A q, l : Kills(l, q)' <=> Kills(l, q)
    BY DEF Kills
  <1>2. \A l, w, p : Wipes(l, w, p)' <=> Wipes(l, w, p)
    BY DEF Wipes
  <1>3. \A q, k : Lives(q, k)' => Lives(q, k)
    BY <1>1 DEF Lives
  <1>4. DenialsTrue'
    BY <1>3, HoldsKeeps DEF DenialsTrue
  <1>5. ASSUME NEW layer \in {"perm", "fresh"}, NEW w \in What, NEW p \in Path,
               \A l \in 1..Len(control') : ~Wipes(l, w, p)'
        PROVE  \A v : v = cache'[layer][w][p] => Right(v, layer, w, p)'
    <2>1. Right(cache[layer][w][p], layer, w, p)
      BY <1>2, <1>5 DEF LayersTrue
    <2>2. Right(None, layer, w, p)
      BY DEF Right, Agrees
    <2>3. \A v : v = cache'[layer][w][p] => Right(v, layer, w, p)
      BY <2>1, <2>2
    <2> QED BY <2>3, HoldsKeeps
  <1>6. LayersTrue'
    BY <1>5 DEF LayersTrue
  <1> QED BY <1>4, <1>6

LEMMA MemoryStays ==
  ASSUME Holds, DenialsTrue, LayersTrue, UNCHANGED <<cache, control>>
  PROVE  DenialsTrue' /\ LayersTrue'
  BY MemoryLearns

(* More lines on the pipe let more be forgotten, and are true themselves.     *)
LEMMA MemoryIsTold ==
  ASSUME Holds, MemoryOK, DenialsTrue, LayersTrue, cache' = cache,
         NEW lines \in Seq(ControlLine), control' = control \o lines,
         \A q : \A k \in 1..Len(lines) :
            lines[k].do = "put_negative" /\ lines[k].path = q => Missing(q)'
  PROVE  DenialsTrue' /\ LayersTrue'
  <1> DEFINE n == Len(control)
  <1>1. /\ n \in Nat /\ Len(lines) \in Nat /\ Len(control') = n + Len(lines)
        /\ \A k \in 1..n : control'[k] = control[k] /\ k \in 1..Len(control')
        /\ \A k \in 1..Len(control') : k \in 1..n \/ (/\ k - n \in 1..Len(lines)
                                                      /\ control'[k] = lines[k - n])
    <2>1. \A s \in Seq(ControlLine) : \A t \in Seq(ControlLine) :
             /\ Len(s) \in Nat /\ Len(t) \in Nat /\ Len(s \o t) = Len(s) + Len(t)
             /\ \A k \in 1..Len(s) : (s \o t)[k] = s[k] /\ k \in 1..Len(s \o t)
             /\ \A k \in 1..Len(s \o t) :
                   k \in 1..Len(s) \/ (k - Len(s) \in 1..Len(t) /\ (s \o t)[k] = t[k - Len(s)])
      OBVIOUS
    <2> QED BY <2>1 DEF MemoryOK
  <1>2. \A q : \A l \in 1..n : Kills(l, q)' <=> Kills(l, q)
    BY <1>1 DEF Kills
  <1>3. \A w, p : \A l \in 1..n : Wipes(l, w, p)' <=> Wipes(l, w, p)
    BY <1>1 DEF Wipes
  <1>4. \A q : \A k \in 0..n : Lives(q, k)' => Lives(q, k)
    <2> SUFFICES ASSUME NEW q, NEW k \in 0..n, Lives(q, k)', NEW l \in (k + 1)..n
                 PROVE  ~Kills(l, q)
      BY DEF Lives
    <2>1. l \in 1..n /\ l \in (k + 1)..Len(control')
      BY <1>1
    <2> QED BY <1>2, <2>1 DEF Lives
  <1>5. DenialsTrue'
    <2>1. ASSUME NEW q \in cache.neg, Lives(q, 0)' PROVE Missing(q)'
      BY <1>1, <1>4, <2>1, HoldsKeeps DEF DenialsTrue
    <2>2. ASSUME NEW k \in 1..Len(control'), NEW q, control'[k].path = q,
                 control'[k].do = "put_negative", Lives(q, k)'
          PROVE  Missing(q)'
      <3>1. CASE k \in 1..n
        <4>1. control[k].path = q /\ control[k].do = "put_negative" /\ Lives(q, k)
          BY <1>1, <1>4, <2>2, <3>1
        <4>2. Missing(q)
          BY <3>1, <4>1 DEF DenialsTrue
        <4> QED BY <4>2, HoldsKeeps
      <3>2. CASE k \notin 1..n
        <4>1. k - n \in 1..Len(lines) /\ control'[k] = lines[k - n]
          BY <1>1, <3>2
        <4> QED BY <2>2, <4>1
      <3> QED BY <3>1, <3>2
    <2> QED BY <2>1, <2>2 DEF DenialsTrue
  <1>6. LayersTrue'
    BY <1>1, <1>3, HoldsKeeps DEF LayersTrue
  <1> QED BY <1>5, <1>6

(* One request goes a step further.                                           *)
LEMMA CallsBecome ==
  ASSUME CallsOK, NEW i \in 1..Len(calls), NEW at, NEW reply, NEW said,
         calls' = Set(i, at, reply, said)
  PROVE  /\ Len(calls') = Len(calls)
         /\ \A j \in 1..Len(calls) : j # i => calls'[j] = calls[j]
         /\ calls'[i] = [req |-> calls[i].req, at |-> at, reply |-> reply,
                         said |-> IF calls[i].said = None THEN said ELSE calls[i].said]
         /\ \A j \in 1..Len(calls) : calls'[j].req = calls[j].req
  <1> DEFINE s == Set(i, at, reply, said)
  <1>1. /\ Len(s) = Len(calls)
        /\ \A j \in 1..Len(calls) : j # i => s[j] = calls[j]
        /\ s[i] = [req |-> calls[i].req, at |-> at, reply |-> reply,
                   said |-> IF calls[i].said = None THEN said ELSE calls[i].said]
    BY SetCalls
  <1>2. calls' = s
    OBVIOUS
  <1> HIDE DEF s
  <1> QED BY <1>1, <1>2

LEMMA OthersExcuse ==
  ASSUME CallsOK, NEW i \in 1..Len(calls), NEW at, NEW reply, NEW said,
         calls' = Set(i, at, reply, said), worker' = worker, Made(i) => Made(i)'
  PROVE  \A w, p : Excused(w, p) => Excused(w, p)'
  <1> SUFFICES ASSUME NEW w, NEW p, NEW j \in 1..Len(calls), Made(j),
                      Disturbs(calls[j].req, w, p)
               PROVE  Excused(w, p)'
    BY DEF Excused
  <1>1. /\ Len(calls') = Len(calls) /\ calls'[j].req = calls[j].req
        /\ j # i => calls'[j] = calls[j]
    BY CallsBecome
  <1>2. Made(j)'
    BY <1>1 DEF Made, Underway, Waiting
  <1> QED BY <1>1, <1>2 DEF Excused, Disturbs, Ends

(* A request that is not touched is as good as before.                        *)
LEMMA CallStays ==
  ASSUME Holds, CallsOK, NEW j \in 1..Len(calls), calls'[j] = calls[j], RequestOK(j),
         IF IsLook(calls[j].req) THEN Waiting(j)' => Waiting(j) ELSE Waiting(j) => Waiting(j)'
  PROVE  RequestOK(j)'
  <1>1. CASE ~IsLook(calls[j].req)
    BY <1>1 DEF RequestOK, ChangeOK
  <1>2. CASE IsLook(calls[j].req)
    <2>1. calls[j].req.path \in Path /\ Of(calls[j].req.op) \in What
      BY <1>2, CallGoes, OfLook DEF Look, Mutation
    <2>2. LookOK(j) /\ (Underway(j)' => Underway(j))
      BY <1>2 DEF RequestOK, Underway
    <2>3. LookOK(j)'
      BY <2>1, <2>2, HoldsKeeps DEF LookOK
    <2> QED BY <1>2, <2>3 DEF RequestOK
  <1> QED BY <1>1, <1>2

LEMMA OthersStay ==
  ASSUME Holds, CallsOK, RequestsTrue, NEW i \in 1..Len(calls), NEW at, NEW reply, NEW said,
         calls' = Set(i, at, reply, said), worker' = worker, RequestOK(i)'
  PROVE  RequestsTrue'
  <1>0. Len(calls') = Len(calls)
    BY CallsBecome
  <1> SUFFICES ASSUME NEW j \in 1..Len(calls), j # i PROVE RequestOK(j)'
    BY <1>0 DEF RequestsTrue
  <1>1. calls'[j] = calls[j] /\ RequestOK(j) /\ (Waiting(j)' <=> Waiting(j))
    BY CallsBecome DEF RequestsTrue, Waiting
  <1> QED BY <1>1, CallStays

-----------------------------------------------------------------------------
(* The truth at the start.                                                    *)

LEMMA MishapGrows ==
  ASSUME [Next]_vars
  PROVE  mishap' = {} => mishap = {}
  BY DEF Next, vars, Starting, PhaseSettles, Gather, TakeSnapshot, WriteSnapshot, Mount, Begin,
         Return, GiveUp, Control, Receive, Send, SendFails, Resolve, Expire, Execute, Climb,
         Lose, Edit, AtRest

LEMMA NothingIsNone ==
  /\ \A layer \in {"perm", "fresh"}, w \in What, p \in Path : Empty[layer][w][p] = None
  /\ \A w \in What, p \in Path : Nothing[w][p] = None
  /\ Empty.neg = {} /\ Empty.perm = Nothing /\ Empty.fresh = Nothing
  BY DEF Empty, Nothing

(* Below what is no directory there is nothing.                               *)
LEMMA MissingBelow ==
  ASSUME IsTree(tree), NEW q \in Path, ~Exists(q)
  PROVE  Missing(q) /\ \A p \in Path : Covers(q, p) => ~Exists(p)
  BY NothingBelow DEF Missing, Exists

LEMMA NothingAsked ==
  ASSUME NotYet
  PROVE  RequestsTrue /\ DenialsTrue /\ LayersTrue
  <1>1. Len(calls) = 0 /\ Len(control) = 0 /\ 1..0 = {}
    BY DEF NotYet
  <1>2. RequestsTrue
    BY <1>1 DEF RequestsTrue
  <1>3. DenialsTrue
    BY <1>1, NothingIsNone DEF DenialsTrue, NotYet
  <1>4. LayersTrue
    BY NothingIsNone DEF LayersTrue, NotYet, Right, Agrees
  <1> QED BY <1>2, <1>3, <1>4

LEMMA InitTruthful == Init => Truthful
  <1> SUFFICES ASSUME Init PROVE Truthful
    OBVIOUS
  <1>1. IsTree(tree)
    BY ProxyBounds DEF Init
  <1>2. NotYet
    BY NothingIsNone DEF Init, NotYet, Agrees
  <1> QED BY <1>1, <1>2, NothingAsked DEF Truthful

-----------------------------------------------------------------------------
(* The start.                                                                 *)

LEMMA ManifestIsTrue ==
  ASSUME IsTree(tree), \A q \in Path : tree[q] = "dir" => version[q] = 0,
         NEW held \in SUBSET Kept, \A q \in held : tree[q] = "file",
         NEW w \in What, NEW p \in Path
  PROVE  Agrees(FromManifest(held, {})[w][p], "perm", w, p)
  <1> DEFINE dirs == UNION {Parents(q) : q \in held}
             made == [q \in Path |-> IF q \in held \cup dirs THEN "dir" ELSE "none"]
             entry == [kind |-> "file", version |-> version[p]]
             said == CASE w \in {"stat", "read"} /\ p \in held -> entry
                       [] w = "stat" /\ p \in dirs \ held -> [kind |-> "dir", version |-> 0]
                       [] w = "list" /\ p \in dirs -> Children(made, p)
                       [] OTHER -> None
  <1>1. FromManifest(held, {})[w][p] = said
    BY DEF FromManifest
  <1>2. \A q \in held : /\ q \in Path /\ q \in Home /\ tree[q] = "file"
                        /\ \A r \in Parents(q) : tree[r] = "dir" /\ r \in Home
    BY ProxyBounds DEF IsTree
  <1>3. \A q \in dirs : tree[q] = "dir" /\ q \in Home
    BY <1>2
  <1>4. Children(made, p) \subseteq Children(tree, p)
    BY <1>2, <1>3 DEF Children
  <1>5. p \in held => entry = Stat(p) /\ Exists(p)
    BY <1>2 DEF Stat, Exists
  <1>6. p \in dirs => [kind |-> "dir", version |-> 0] = Stat(p) /\ Exists(p)
    BY <1>3 DEF Stat, Exists
  <1> HIDE DEF dirs, made, entry
  <1>7. CASE w = "stat"
    BY <1>1, <1>5, <1>6, <1>7 DEF Agrees, Truth
  <1>8. CASE w = "read"
    BY <1>1, <1>2, <1>5, <1>8 DEF Agrees, Truth
  <1>9. CASE w = "list"
    BY <1>1, <1>3, <1>4, <1>9 DEF Agrees, Truth
  <1> QED BY <1>7, <1>8, <1>9 DEF What

LEMMA WrittenIsTrue ==
  ASSUME DiskOK, NotYet, NEW dirs \in SUBSET Path, \A p \in dirs : tree[p] = "dir",
         NEW w \in What, NEW p \in Path
  PROVE  Agrees(WithDirs(snapshot.perm, dirs)[w][p], "perm", w, p)
  <1>1. Agrees(snapshot.perm[w][p], "perm", w, p)
    BY DEF NotYet
  <1>2. WithDirs(snapshot.perm, dirs)[w][p] =
          IF w = "stat" /\ p \in dirs /\ snapshot.perm[w][p] = None
          THEN [kind |-> "dir", version |-> 0] ELSE snapshot.perm[w][p]
    BY DEF WithDirs
  <1>3. p \in dirs => Truth("stat", p) = [kind |-> "dir", version |-> 0]
    BY DEF Truth, Stat, Exists, NotYet
  <1> QED BY <1>1, <1>2, <1>3 DEF Agrees

LEMMA DiskAgrees ==
  ASSUME UNCHANGED <<tree, version>>
  PROVE  /\ \A p : Exists(p)' <=> Exists(p)
         /\ \A v, layer : \A w \in What, p \in Path :
               Agrees(v, layer, w, p)' <=> Agrees(v, layer, w, p)
  <1>1. \A p : Exists(p)' <=> Exists(p)
    BY DEF Exists
  <1>2. \A w \in What, p \in Path : Truth(w, p)' = Truth(w, p)
    BY DEF Truth, Exists, Stat, Children
  <1> QED BY <1>1, <1>2 DEF Agrees

LEMMA StartingIsTrue ==
  ASSUME IInv, Truthful, mishap' = {}, Starting
  PROVE  Truthful'
  <1> USE DEF IInv
  <1>1. UNCHANGED <<tree, version, calls, worker, control>>
    BY DEF Starting, PhaseSettles, Gather, TakeSnapshot, WriteSnapshot, Mount, disk
  <1>2. IsTree(tree)' /\ IsTree(tree)
    BY <1>1 DEF Truthful
  <1>3. CASE PhaseSettles
    <2>1. UNCHANGED <<stage, snapshot, cache>>
      BY <1>3 DEF PhaseSettles
    <2>2. \A i : Waiting(i)' <=> Waiting(i)
      BY <1>1 DEF Waiting
    <2>3. \A w, p : Excused(w, p)' <=> Excused(w, p)
      BY <1>1, <2>2 DEF Excused, Made, Underway
    <2>4. Holds
      BY <1>1, <2>3, DiskHolds DEF disk
    <2>5. RequestsTrue'
      BY <1>1, <2>2, <2>4, CallStays DEF RequestsTrue, Truthful
    <2>6. DenialsTrue' /\ LayersTrue'
      BY <1>1, <2>1, <2>4, MemoryStays DEF Truthful
    <2>7. stage' # "serves" => NotYet'
      BY <1>1, <2>1, DiskAgrees DEF Truthful, NotYet
    <2> QED BY <1>2, <2>5, <2>6, <2>7 DEF Truthful
  <1>4. ASSUME NotYet' PROVE Truthful'
    <2>1. \A i : i \notin 1..Len(calls')
      BY <1>4 DEF NotYet
    <2>2. RequestsTrue'
      BY <2>1 DEF RequestsTrue
    <2>3. DenialsTrue'
      BY <1>4, NothingIsNone DEF DenialsTrue, NotYet
    <2>4. LayersTrue'
      BY <1>4, NothingIsNone DEF LayersTrue, NotYet, Right, Agrees
    <2> QED BY <1>2, <1>4, <2>2, <2>3, <2>4 DEF Truthful
  <1>5. ASSUME stage # "serves", cache' = cache, IsTree(tree), snapshot'.fresh = Nothing,
               \A w \in What, p \in Path : \A v :
                  v = snapshot'.perm[w][p] => Agrees(v, "perm", w, p),
               \A q \in snapshot'.neg, p \in Path : Covers(q, p) => ~Exists(p)
        PROVE  NotYet'
    <2>1. \A w \in What, p \in Path : \A v : v = snapshot'.perm[w][p] => Agrees(v, "perm", w, p)'
      BY <1>1, <1>5, DiskAgrees
    <2>2. \A q \in snapshot'.neg, p \in Path : Covers(q, p) => ~Exists(p)'
      BY <1>1, <1>5, DiskAgrees
    <2>3. NotYet
      BY <1>5 DEF Truthful
    <2> QED BY <1>1, <1>5, <2>1, <2>2, <2>3 DEF NotYet
  <1>6. CASE Gather
    <2>1. stage # "serves" /\ cache' = cache
      BY <1>6 DEF Gather
    <2>2. CASE phase = "ready"
      <3>1. PICK held \in SUBSET Kept : \E old \in SUBSET held :
              /\ \A p \in held \ old : tree[p] = "file"
              /\ snapshot' = [Empty EXCEPT !.perm = FromManifest(held, old)]
              /\ mishap' = mishap \cup Note(old # {}, "lagging")
        BY <1>6, <2>2 DEF Gather
      <3>2. PICK old \in SUBSET held :
              /\ \A p \in held \ old : tree[p] = "file"
              /\ snapshot' = [Empty EXCEPT !.perm = FromManifest(held, old)]
              /\ mishap' = mishap \cup Note(old # {}, "lagging")
        BY <3>1
      <3>3. old = {}
        BY <3>2 DEF Note
      <3>4. /\ snapshot'.fresh = Nothing /\ snapshot'.perm = FromManifest(held, {})
            /\ snapshot'.neg = {}
        BY <3>2, <3>3 DEF Empty
      <3>5. \A q \in Path : tree[q] = "dir" => version[q] = 0
        BY <2>1 DEF Truthful, NotYet
      <3>6. \A w \in What, p \in Path : Agrees(snapshot'.perm[w][p], "perm", w, p)
        BY <1>2, <3>2, <3>3, <3>4, <3>5, ManifestIsTrue
      <3> QED BY <1>2, <1>4, <1>5, <2>1, <3>4, <3>6
    <2>3. CASE phase # "ready"
      <3>1. snapshot' = snapshot
        BY <1>6, <2>3 DEF Gather
      <3>2. NotYet
        BY <2>1 DEF Truthful
      <3> QED BY <1>2, <1>4, <1>5, <2>1, <3>1, <3>2 DEF NotYet
    <2> QED BY <2>2, <2>3
  <1>7. ASSUME NEW answered \in SUBSET Asked, TakeSnapshot(answered)
        PROVE  Truthful'
    <2>1. stage # "serves" /\ cache' = cache /\ NotYet
      BY <1>7 DEF TakeSnapshot, Truthful
    <2> DEFINE S == UNION answered
    <2>2. snapshot' = [snapshot EXCEPT !.perm = Walk(S)]
      BY <1>7 DEF TakeSnapshot
    <2>3. snapshot = [neg |-> snapshot.neg, perm |-> snapshot.perm, fresh |-> snapshot.fresh]
      BY DEF StartOK, IsCache
    <2> HIDE DEF S
    <2>4. /\ snapshot'.fresh = snapshot.fresh /\ snapshot'.perm = Walk(S)
          /\ snapshot'.neg = snapshot.neg
      BY <2>2, <2>3
    <2>5. \A w \in What, p \in Path : Walk(S)[w][p] \in {snapshot.perm[w][p], Truth(w, p)}
      BY DEF Walk
    <2>6. \A w \in What, p \in Path : Agrees(Walk(S)[w][p], "perm", w, p)
      BY <2>1, <2>5 DEF NotYet, Agrees
    <2> QED BY <1>2, <1>4, <1>5, <2>1, <2>4, <2>6 DEF NotYet
  <1>8. ASSUME NEW l \in Ledgers, NEW ok \in BOOLEAN, WriteSnapshot(l, ok)
        PROVE  Truthful'
    <2>1. stage # "serves" /\ cache' = cache /\ NotYet
      BY <1>8 DEF WriteSnapshot, Truthful
    <2>2. CASE ok
      <3>1. PICK N \in Listed(l.missing \cup KnownMissing) :
               snapshot' = [neg |-> N, perm |-> WithDirs(snapshot.perm, l.dirs), fresh |-> Nothing]
        BY <1>8, <2>2 DEF WriteSnapshot
      <3>2. (~\E p \in KnownMissing : Exists(p)) /\ ~Behind(l)
        BY <1>8, <2>2 DEF WriteSnapshot, Note
      <3>3. \A q \in N : q \in Path /\ ~Exists(q)
        BY <3>1, <3>2, ProxyBounds DEF Listed, Behind
      <3>4. \A q \in N, p \in Path : Covers(q, p) => ~Exists(p)
        BY <1>2, <3>3, MissingBelow
      <3>5. l.dirs \in SUBSET Path /\ \A p \in l.dirs : tree[p] = "dir"
        BY <3>2, ProxyBounds DEF Behind
      <3>6. \A w \in What, p \in Path : Agrees(WithDirs(snapshot.perm, l.dirs)[w][p], "perm", w, p)
        BY <2>1, <3>5, WrittenIsTrue
      <3>7. /\ snapshot'.fresh = Nothing /\ snapshot'.perm = WithDirs(snapshot.perm, l.dirs)
            /\ snapshot'.neg = N
        BY <3>1
      <3> QED BY <1>2, <1>4, <1>5, <2>1, <3>4, <3>6, <3>7
    <2>3. CASE ~ok
      <3>1. snapshot' = Empty
        BY <1>8, <2>3 DEF WriteSnapshot
      <3> QED BY <1>2, <1>4, <1>5, <2>1, <3>1, NothingIsNone DEF Agrees
    <2> QED BY <2>2, <2>3
  <1>9. ASSUME NEW ok \in BOOLEAN, Mount(ok)
        PROVE  Truthful'
    <2>1. stage # "serves" /\ NotYet
      BY <1>9 DEF Mount, Truthful
    <2>2. CASE ~ok
      <3>1. cache' = cache /\ (snapshot' = snapshot \/ snapshot' = Empty)
        BY <1>9, <2>2 DEF Mount
      <3>2. CASE snapshot' = snapshot
        BY <1>2, <1>4, <1>5, <2>1, <3>1, <3>2 DEF NotYet
      <3>3. CASE snapshot' = Empty
        BY <1>2, <1>4, <1>5, <2>1, <3>1, <3>3, NothingIsNone DEF Agrees
      <3> QED BY <3>1, <3>2, <3>3
    <2>3. CASE ok
      <3>1. cache' = snapshot /\ stage' = "serves"
        BY <1>9, <2>3 DEF Mount
      <3>2. Len(calls') = 0 /\ Len(control') = 0 /\ 1..0 = {}
        BY <1>1, <2>1 DEF NotYet
      <3>3. RequestsTrue'
        BY <3>2 DEF RequestsTrue
      <3>4. DenialsTrue'
        BY <1>1, <2>1, <3>1, <3>2 DEF DenialsTrue, NotYet, Missing, Exists
      <3>5. LayersTrue'
        <4>1. ASSUME NEW layer \in {"perm", "fresh"}, NEW w \in What, NEW p \in Path
              PROVE  Agrees(snapshot[layer][w][p], layer, w, p)
          BY <2>1, NothingIsNone DEF NotYet, Agrees
        <4>2. \A layer \in {"perm", "fresh"}, w \in What, p \in Path :
                 \A v : v = snapshot[layer][w][p] => Agrees(v, layer, w, p)'
          BY <1>1, <4>1, DiskAgrees
        <4> QED BY <3>1, <4>2 DEF LayersTrue, Right
      <3> QED BY <1>2, <3>1, <3>3, <3>4, <3>5 DEF Truthful
    <2> QED BY <2>2, <2>3
  <1> QED BY <1>3, <1>6, <1>7, <1>8, <1>9 DEF Starting

-----------------------------------------------------------------------------
(* The daemon's threads, and the truth.                                       *)

(* Once something has been asked for, the daemon serves.                      *)
LEMMA Serves ==
  ASSUME IInv, Truthful, UNCHANGED stage,
         \/ \E i : i \in 1..Len(calls)
         \/ control # <<>>
         \/ \E t \in Thread : worker[t] # None
         \/ stage = "serves"
  PROVE  stage' # "serves" => NotYet'
  <1>1. (\E t \in Thread : worker[t] # None) => \E i : i \in 1..Len(calls)
    BY WorkerIsCall DEF IInv
  <1>2. stage = "serves"
    BY <1>1 DEF Truthful, NotYet
  <1> QED BY <1>2

LEMMA WaitingStays ==
  ASSUME UNCHANGED worker
  PROVE  \A j : Waiting(j)' <=> Waiting(j)
  BY DEF Waiting

LEMMA ExcuseStays ==
  ASSUME calls' = calls, NEW w, NEW p,
         \A j \in 1..Len(calls) : Made(j) /\ Disturbs(calls[j].req, w, p) /\ Waiting(j)
            => calls[j].at # "over" \/ Waiting(j)'
  PROVE  Excused(w, p) => Excused(w, p)'
  BY DEF Excused, Made, Underway

LEMMA BeginIsTrue ==
  ASSUME IInv, Truthful, NEW t \in Thread, NEW r \in Look \cup Mutation, Begin(t, r)
  PROVE  Truthful'
  <1> DEFINE k == [req |-> r, at |-> "pipe", reply |-> None, said |-> None]
  <1>0. CallsOK /\ calls \in Seq(ToSet(calls))
    BY DEF IInv, CallsOK
  <1>1. PICK n \in Nat : n = Len(calls)
    BY <1>0
  <1>2. calls' = Append(calls, k)
    BY DEF Begin
  <1>3. k.req = r /\ k.at = "pipe" /\ k.reply = None /\ k.said = None
    OBVIOUS
  <1> HIDE DEF k
  <1>4. /\ Len(calls') = n + 1 /\ calls'[n + 1] = k
        /\ \A j \in 1..n : calls'[j] = calls[j] /\ j \in 1..Len(calls')
        /\ \A j \in 1..Len(calls') : j \in 1..n \/ j = n + 1
    BY <1>0, <1>1, <1>2
  <1>5. /\ UNCHANGED <<disk, stage, cache, control>> /\ stage = "serves" /\ worker[t] = None
        /\ worker' = [worker EXCEPT ![t] = n + 1]
    BY <1>1 DEF Begin, start
  <1>6. /\ \A j \in 1..n : Waiting(j)' <=> Waiting(j)
        /\ Waiting(n + 1)'
    <2>1. \A j \in 1..n : j # None /\ j # n + 1
      BY <1>0, <1>1, ProxyBounds DEF CallsOK
    <2>2. \A u \in Thread : worker'[u] = IF u = t THEN n + 1 ELSE worker[u]
      BY <1>5 DEF IInv, CallsOK
    <2> QED BY <1>5, <2>1, <2>2 DEF Waiting
  <1>7. \A w \in What, p \in Path : Excused(w, p) => Excused(w, p)'
    <2> SUFFICES ASSUME NEW w, NEW p, NEW j \in 1..n, Made(j), Disturbs(calls[j].req, w, p)
                 PROVE  Excused(w, p)'
      BY <1>1 DEF Excused
    <2>1. Made(j)' /\ Disturbs(calls[j].req, w, p)'
      BY <1>4, <1>6 DEF Made, Underway, Disturbs, Ends
    <2> QED BY <1>4, <2>1 DEF Excused, Disturbs, Ends
  <1>8. Holds
    BY <1>5, <1>7, DiskHolds
  <1>9. RequestsTrue'
    <2>1. \A j \in 1..n : RequestOK(j)'
      BY <1>0, <1>1, <1>4, <1>6, <1>8, CallStays DEF Truthful, RequestsTrue
    <2>2. RequestOK(n + 1)'
      BY <1>3, <1>4, <1>6 DEF RequestOK, LookOK, ChangeOK
    <2> QED BY <1>4, <2>1, <2>2 DEF RequestsTrue
  <1>10. DenialsTrue' /\ LayersTrue'
    BY <1>5, <1>8, MemoryStays DEF Truthful
  <1> QED BY <1>5, <1>9, <1>10 DEF Truthful, disk

LEMMA GiveUpIsTrue ==
  ASSUME IInv, Truthful, NEW t \in Thread, GiveUp(t), mishap' = {}
  PROVE  Truthful'
  <1> DEFINE i == worker[t]
  <1>1. CallsOK
    BY DEF IInv
  <1>2. /\ UNCHANGED <<disk, stage, cache, calls, control>>
        /\ worker' = [worker EXCEPT ![t] = None] /\ i # None /\ IsLook(calls[i].req)
    BY DEF GiveUp, start, Note
  <1>3. i \in 1..Len(calls)
    BY <1>1, <1>2, WorkerIsCall
  <1>4. \A j \in 1..Len(calls) : /\ Waiting(j)' => Waiting(j)
                                 /\ j # i /\ Waiting(j) => Waiting(j)'
    <2>1. \A u \in Thread : worker'[u] = IF u = t THEN None ELSE worker[u]
      BY <1>1, <1>2 DEF CallsOK
    <2>2. \A j \in 1..Len(calls) : j # None
      BY <1>1, ProxyBounds DEF CallsOK
    <2> QED BY <2>1, <2>2 DEF Waiting
  <1> HIDE DEF i
  <1>5. Holds
    BY <1>2, <1>4, ExcuseStays, DiskHolds DEF Made
  <1>6. RequestsTrue'
    BY <1>1, <1>2, <1>4, <1>5, CallStays DEF Truthful, RequestsTrue
  <1>7. DenialsTrue' /\ LayersTrue'
    BY <1>2, <1>5, MemoryStays DEF Truthful
  <1>8. stage' # "serves" => NotYet'
    BY <1>2, <1>3, Serves
  <1> QED BY <1>2, <1>6, <1>7, <1>8 DEF Truthful, disk

(* An answer that is true is taken for true.                                  *)
LEMMA LearnedIsTrue ==
  ASSUME IInv, Truthful, NEW i \in 1..Len(calls), Waiting(i), IsLook(calls[i].req),
         calls[i].said # None
  PROVE  LET c == Learned(cache, calls[i].req, calls[i].said)
         IN  /\ \A q \in c.neg : q \in cache.neg \/ Missing(q)
             /\ \A layer \in {"perm", "fresh"}, w \in What, p \in Path :
                   \/ c[layer][w][p] \in {None, cache[layer][w][p]}
                   \/ Right(c[layer][w][p], layer, w, p)
  <1> DEFINE r == calls[i].req
             a == calls[i].said
  <1>1. LookOK(i) /\ Underway(i)
    BY DEF Truthful, RequestsTrue, RequestOK, Underway
  <1>2. a = Failure \/ (a = calls[i].reply /\ calls[i].reply # None)
    BY <1>1 DEF LookOK
  <1>3. CASE a.code \notin {"ok", "ENOENT"}
    BY <1>3 DEF Learned
  <1>4. CASE a.code = "ok"
    <2>1. a = calls[i].reply /\ Right(a.value, "fresh", Of(r.op), r.path)
      BY <1>1, <1>2, <1>4 DEF LookOK, Failure
    <2>2. Learned(cache, r, a) = Remember(cache, Of(r.op), r.path, a.value)
      BY <1>4 DEF Learned
    <2>3. /\ Remember(cache, Of(r.op), r.path, a.value).neg = cache.neg
          /\ Remember(cache, Of(r.op), r.path, a.value).perm = cache.perm
          /\ Remember(cache, Of(r.op), r.path, a.value).fresh
               = [cache.fresh EXCEPT ![Of(r.op)][r.path] = a.value]
      BY DEF Remember
    <2>4. IsLayer(cache.fresh)
      BY DEF IInv, MemoryOK, IsCache
    <2> HIDE DEF r, a
    <2>5. PICK g : g = [cache.fresh EXCEPT ![Of(r.op)][r.path] = a.value]
      OBVIOUS
    <2>6. \A w \in What, p \in Path :
             g[w][p] = IF w = Of(r.op) /\ p = r.path THEN a.value ELSE cache.fresh[w][p]
      BY <2>4, <2>5 DEF IsLayer
    <2>7. \A w \in What, p \in Path : g[w][p] = cache.fresh[w][p] \/ Right(g[w][p], "fresh", w, p)
      BY <2>1, <2>6
    <2>8. PICK c : c = Learned(cache, r, a)
      OBVIOUS
    <2>9. c.neg = cache.neg /\ c.perm = cache.perm /\ c.fresh = g
      BY <2>2, <2>3, <2>5, <2>8
    <2>10. /\ \A q \in c.neg : q \in cache.neg \/ Missing(q)
           /\ \A layer \in {"perm", "fresh"}, w \in What, p \in Path :
                 \/ c[layer][w][p] \in {None, cache[layer][w][p]}
                 \/ Right(c[layer][w][p], layer, w, p)
      BY <2>7, <2>9
    <2> QED BY <2>8, <2>10 DEF r, a
  <1>5. CASE a.code = "ENOENT"
    <2>1. Missing(r.path)
      BY <1>1, <1>2, <1>5 DEF LookOK, Failure
    <2>2. Learned(cache, r, a) = WithNegative(cache, r.path)
      BY <1>5 DEF Learned
    <2>3. /\ WithNegative(cache, r.path).neg \subseteq cache.neg \cup {r.path}
          /\ WithNegative(cache, r.path).perm = cache.perm
          /\ WithNegative(cache, r.path).fresh = cache.fresh
      BY DEF WithNegative, Deny
    <2> HIDE DEF r, a
    <2> QED BY <2>1, <2>2, <2>3 DEF r, a
  <1> QED BY <1>3, <1>4, <1>5

LEMMA AnswerIsTaken ==
  ASSUME IInv, Truthful, NEW t \in Thread, Return(t), IsLook(calls[worker[t]].req)
  PROVE  Truthful'
  <1> DEFINE i == worker[t]
  <1>1. CallsOK
    BY DEF IInv
  <1>2. /\ UNCHANGED <<disk, stage, calls, control>> /\ calls[i].said # None
        /\ worker' = [worker EXCEPT ![t] = None] /\ i # None
        /\ cache' = Learned(cache, calls[i].req, calls[i].said)
    BY DEF Return, start
  <1>3. i \in 1..Len(calls)
    BY <1>1, <1>2, WorkerIsCall
  <1>4. \A j \in 1..Len(calls) : /\ Waiting(j)' => Waiting(j)
                                 /\ j # i /\ Waiting(j) => Waiting(j)'
    <2>1. \A u \in Thread : worker'[u] = IF u = t THEN None ELSE worker[u]
      BY <1>1, <1>2 DEF CallsOK
    <2>2. \A j \in 1..Len(calls) : j # None
      BY <1>1, ProxyBounds DEF CallsOK
    <2> QED BY <2>1, <2>2 DEF Waiting
  <1>5. Waiting(i)
    BY DEF Waiting
  <1> HIDE DEF i
  <1>6. Holds
    BY <1>2, <1>4, ExcuseStays, DiskHolds DEF Made, i
  <1>7. RequestsTrue'
    BY <1>1, <1>2, <1>4, <1>6, CallStays DEF Truthful, RequestsTrue, i
  <1>8. DenialsTrue' /\ LayersTrue'
    <2>1. IsLook(calls[i].req)
      BY DEF i
    <2>2. /\ \A q \in cache'.neg : q \in cache.neg \/ Missing(q)
          /\ \A layer \in {"perm", "fresh"}, w \in What, p \in Path :
                \/ cache'[layer][w][p] \in {None, cache[layer][w][p]}
                \/ Right(cache'[layer][w][p], layer, w, p)
      BY <1>2, <1>3, <1>5, <2>1, LearnedIsTrue
    <2> QED BY <1>2, <1>6, <2>2, MemoryLearns DEF Truthful
  <1>9. stage' # "serves" => NotYet'
    BY <1>2, <1>3, Serves
  <1> QED BY <1>2, <1>7, <1>8, <1>9 DEF Truthful, disk

(* A change whose success the daemon takes note of: what it forgets.          *)
LEMMA ChangeForgets ==
  ASSUME IInv, NEW r \in Mutation, ~IsLook(r), NEW a, a.code = "ok"
  PROVE  LET c == Learned(cache, r, a)
         IN  /\ c.neg \subseteq cache.neg
             /\ \A q \in c.neg, e \in Ends(r) : ~Covers(q, e)
             /\ \A layer \in {"perm", "fresh"}, w \in What, p \in Path :
                   /\ c[layer][w][p] \in {None, cache[layer][w][p]}
                   /\ Disturbs(r, w, p) => c[layer][w][p] = None
  <1> DEFINE c == Invalidated(cache, r.path)
             d == Invalidated(c, r.to)
  <1>1. r.path \in Path /\ r.to \in Path /\ IsCache(cache)
    BY DEF Mutation, IInv, MemoryOK
  <1>2. \A f, e : \A w \in What, p \in Path :
           Without(f, e)[w][p] = IF p = e \/ (w = "list" /\ p = Parent(e)) THEN None ELSE f[w][p]
    BY DEF Without
  <1>3. /\ IsCache(c) /\ c.neg \subseteq cache.neg /\ \A q \in c.neg : ~Covers(q, r.path)
        /\ c.perm = Without(cache.perm, r.path) /\ c.fresh = Without(cache.fresh, r.path)
    <2>1. /\ IsCache(c) /\ c.neg \subseteq cache.neg
          /\ \A q \in cache.neg : Covers(q, r.path) => q \notin c.neg
      BY <1>1, InvalidatedIsCache
    <2>2. c.perm = Without(cache.perm, r.path) /\ c.fresh = Without(cache.fresh, r.path)
      BY DEF Invalidated
    <2> HIDE DEF c
    <2> QED BY <2>1, <2>2
  <1>4. \A layer \in {"perm", "fresh"}, w \in What, p \in Path :
           c[layer][w][p] = IF p = r.path \/ (w = "list" /\ p = Parent(r.path))
                            THEN None ELSE cache[layer][w][p]
    BY <1>2, <1>3
  <1> HIDE DEF c
  <1>5. CASE r.op # "rename"
    <2>1. Learned(cache, r, a) = c
      BY <1>5 DEF Learned, c
    <2>2. Ends(r) = {r.path}
      BY <1>5 DEF Ends
    <2> QED BY <1>3, <1>4, <2>1, <2>2 DEF Disturbs
  <1>6. CASE r.op = "rename"
    <2>1. Learned(cache, r, a) = d
      BY <1>6 DEF Learned, c
    <2>2. Ends(r) = {r.path, r.to}
      BY <1>6 DEF Ends
    <2>3. /\ d.neg \subseteq c.neg /\ \A q \in d.neg : ~Covers(q, r.to)
          /\ d.perm = Without(c.perm, r.to) /\ d.fresh = Without(c.fresh, r.to)
      <3>1. /\ d.neg \subseteq c.neg
            /\ \A q \in c.neg : Covers(q, r.to) => q \notin d.neg
        BY <1>1, <1>3, InvalidatedIsCache
      <3>2. d.perm = Without(c.perm, r.to) /\ d.fresh = Without(c.fresh, r.to)
        BY DEF Invalidated
      <3> HIDE DEF d
      <3> QED BY <3>1, <3>2
    <2>4. \A layer \in {"perm", "fresh"}, w \in What, p \in Path :
             d[layer][w][p] = IF p = r.to \/ (w = "list" /\ p = Parent(r.to))
                              THEN None ELSE c[layer][w][p]
      BY <1>2, <2>3
    <2> HIDE DEF d
    <2> QED BY <1>3, <1>4, <2>1, <2>2, <2>3, <2>4 DEF Disturbs
  <1> QED BY <1>5, <1>6

(* What is found now is true.                                                 *)
LEMMA FoundIsTrue ==
  ASSUME IsTree(tree), NEW r \in Look \cup Mutation, IsLook(r)
  PROVE  /\ Found(r).code = "ok" => Agrees(Found(r).value, "fresh", Of(r.op), r.path)
         /\ Found(r).code = "ENOENT" => Missing(r.path) /\ ~Exists(r.path)
  <1>1. r.path \in Path
    BY DEF Look, Mutation
  <1>2. Found(r).code = "ok" => Found(r).value = Truth(Of(r.op), r.path)
    BY DEF Found, Failure
  <1>3. Found(r).code = "ENOENT" => ~Exists(r.path)
    BY DEF Found, Failure
  <1> QED BY <1>1, <1>2, <1>3, MissingBelow DEF Agrees

(* A change is over: what it excused is forgotten, and nothing is on its way. *)
LEMMA ChangeIsTaken ==
  ASSUME IInv, Truthful, NEW t \in Thread, Return(t), ~IsLook(calls[worker[t]].req), mishap' = {}
  PROVE  Truthful'
  <1>1. CallsOK
    BY DEF IInv
  <1>2. PICK i : i = worker[t]
    OBVIOUS
  <1>3. /\ UNCHANGED <<disk, stage, calls, control>> /\ calls[i].said # None
        /\ worker' = [worker EXCEPT ![t] = None] /\ i # None
        /\ cache' = Learned(cache, calls[i].req, calls[i].said)
    BY <1>2 DEF Return, start
  <1>4. i \in 1..Len(calls) /\ Waiting(i)
    BY <1>1, <1>2, <1>3, WorkerIsCall DEF Waiting
  <1>5. \A j \in 1..Len(calls) : /\ Waiting(j)' => Waiting(j)
                                 /\ j # i /\ Waiting(j) => Waiting(j)'
    <2>1. \A u \in Thread : worker'[u] = IF u = t THEN None ELSE worker[u]
      BY <1>1, <1>3 DEF CallsOK
    <2>2. \A j \in 1..Len(calls) : j # None
      BY <1>1, ProxyBounds DEF CallsOK
    <2> QED BY <1>2, <2>1, <2>2 DEF Waiting
  <1>6. stage' # "serves" => NotYet'
    BY <1>3, <1>4, Serves
  <1>7. ~IsLook(calls[i].req) /\ calls[i].req \in Mutation
    BY <1>1, <1>2, <1>4, CallGoes DEF Look, IsLook
  <1>8. ChangeOK(i) /\ calls[i].at = "over"
    BY <1>3, <1>4, <1>7 DEF Truthful, RequestsTrue, RequestOK, ChangeOK
  <1>9. IsTree(tree) /\ IsTree(tree)'
    BY <1>3 DEF Truthful, disk
  <1>10. CASE calls[i].said.code # "ok"
    <2>1. cache' = cache
      BY <1>3, <1>7, <1>10 DEF Learned
    <2>2. ~Made(i)
      BY <1>3, <1>8, <1>10 DEF Made, ChangeOK
    <2>3. Holds
      BY <1>3, <1>5, <2>2, ExcuseStays, DiskHolds
    <2>4. RequestsTrue'
      <3>1. \A j \in 1..Len(calls) : j # i => RequestOK(j)'
        BY <1>1, <1>3, <1>5, <2>3, CallStays DEF Truthful, RequestsTrue
      <3>2. RequestOK(i)'
        BY <1>3, <1>4, <1>7, <1>8 DEF Truthful, RequestsTrue, RequestOK, ChangeOK
      <3> QED BY <1>3, <3>1, <3>2 DEF RequestsTrue
    <2>5. DenialsTrue' /\ LayersTrue'
      BY <1>3, <2>1, <2>3, MemoryStays DEF Truthful
    <2> QED BY <1>6, <1>9, <2>4, <2>5 DEF Truthful
  <1>11. CASE calls[i].said.code = "ok"
    <2>1. /\ cache'.neg \subseteq cache.neg
          /\ \A q \in cache'.neg, e \in Ends(calls[i].req) : ~Covers(q, e)
          /\ \A layer \in {"perm", "fresh"}, w \in What, p \in Path :
                /\ cache'[layer][w][p] \in {None, cache[layer][w][p]}
                /\ Disturbs(calls[i].req, w, p) => cache'[layer][w][p] = None
      BY <1>3, <1>7, <1>11, ChangeForgets
    <2>2. /\ \A j \in 1..Len(calls) : ~Outdated(j)
          /\ \A k \in 1..Len(control) : ~OldDenial(k)
      <3>1. ~(\/ \E j \in 1..Len(calls) : Outdated(j)
              \/ \E k \in 1..Len(control) : OldDenial(k))
        BY <1>2, <1>7 DEF Return, Note
      <3> QED BY <3>1
    <2>3. ASSUME NEW w, NEW p, Excused(w, p), ~Disturbs(calls[i].req, w, p)
          PROVE  Excused(w, p)'
      BY <1>3, <1>5, <2>3, ExcuseStays
    <2>4. /\ \A p : Exists(p)' <=> Exists(p)
          /\ \A v, layer : \A w \in What, p \in Path :
                Agrees(v, layer, w, p)' <=> Agrees(v, layer, w, p)
      BY <1>3, DiskAgrees DEF disk
    <2>5. \A q \in Path : ~Exists(q) => Missing(q)'
      BY <1>9, <2>4, MissingBelow DEF Missing
    <2>6. ASSUME NEW j \in 1..Len(calls)
          PROVE  RequestOK(j)'
      <3>1. RequestOK(j)
        BY DEF Truthful, RequestsTrue
      <3>2. CASE j = i
        BY <1>3, <1>7, <1>8, <3>1, <3>2 DEF RequestOK, ChangeOK
      <3>3. CASE ~IsLook(calls[j].req) /\ j # i
        BY <1>3, <1>5, <3>1, <3>3 DEF RequestOK, ChangeOK
      <3>4. CASE IsLook(calls[j].req)
        <4>1. LookOK(j) /\ calls[j].req \in Look \cup Mutation
          BY <1>1, <3>1, <3>4, CallGoes DEF RequestOK
        <4>2. calls[j].req.path \in Path /\ Of(calls[j].req.op) \in What
          BY <3>4, <4>1, OfLook DEF Look, Mutation
        <4>3. ASSUME calls[j].reply # None, Underway(j)'
              PROVE  /\ calls[j].reply.code = "ok" =>
                           Right(calls[j].reply.value, "fresh", Of(calls[j].req.op),
                                 calls[j].req.path)'
                     /\ calls[j].reply.code = "ENOENT" => Missing(calls[j].req.path)'
                     /\ calls[j].reply.above # None => Missing(calls[j].reply.above)'
          <5>1. Underway(j)
            BY <1>3, <1>5, <4>3 DEF Underway
          <5>2. /\ calls[j].reply.code = Found(calls[j].req).code
                /\ calls[j].reply.value = Found(calls[j].req).value
                /\ calls[j].reply.above # None => ~Exists(calls[j].reply.above)
            BY <2>2, <3>4, <4>3, <5>1 DEF Outdated, Underway
          <5>3. calls[j].reply.above # None => calls[j].reply.above \in Path
            BY <1>1, <4>3, CallGoes DEF IsReply
          <5>4. calls[j].reply.code = "ok" =>
                   Agrees(calls[j].reply.value, "fresh", Of(calls[j].req.op), calls[j].req.path)
            BY <1>9, <3>4, <4>1, <5>2, FoundIsTrue
          <5>5. calls[j].reply.code = "ENOENT" => ~Exists(calls[j].req.path)
            BY <1>9, <3>4, <4>1, <5>2, FoundIsTrue
          <5>6. calls' = calls
            BY <1>3
          <5>7. \A v : Agrees(v, "fresh", Of(calls[j].req.op), calls[j].req.path) =>
                       Right(v, "fresh", Of(calls[j].req.op), calls[j].req.path)'
            BY <2>4, <4>2, <5>6 DEF Right
          <5>8. \A q \in Path : q = calls[j].req.path => (~Exists(q) => Missing(calls[j].req.path)')
            BY <2>5, <5>6
          <5>9. \A q \in Path : q = calls[j].reply.above =>
                   (~Exists(q) => Missing(calls[j].reply.above)')
            BY <2>5, <5>6
          <5> QED BY <4>2, <5>2, <5>3, <5>4, <5>5, <5>6, <5>7, <5>8, <5>9
        <4>4. LookOK(j)'
          BY <1>3, <4>1, <4>3 DEF LookOK
        <4> QED BY <1>3, <3>1, <3>4, <4>4 DEF RequestOK
      <3> QED BY <3>2, <3>3, <3>4
    <2>7. RequestsTrue'
      BY <1>3, <2>6 DEF RequestsTrue
    <2>8. /\ \A q, l : Kills(l, q)' <=> Kills(l, q)
          /\ \A l, w, p : Wipes(l, w, p)' <=> Wipes(l, w, p)
      BY <1>3 DEF Kills, Wipes
    <2>9. \A q, k : Lives(q, k)' => Lives(q, k)
      BY <1>3, <2>8 DEF Lives
    <2>10. ASSUME NEW q \in cache'.neg, Lives(q, 0)'
           PROVE  Missing(q)'
      <3> SUFFICES ASSUME NEW p \in Path, Covers(q, p), Exists(p) PROVE Excused("stat", p)'
        BY <2>4 DEF Missing
      <3>1. Excused("stat", p)
        BY <2>1, <2>9, <2>10 DEF Truthful, DenialsTrue, Missing
      <3>2. ~Disturbs(calls[i].req, "stat", p)
        BY <2>1 DEF Disturbs
      <3> QED BY <2>3, <3>1, <3>2
    <2>11. ASSUME NEW k \in 1..Len(control), control[k].do = "put_negative",
                  NEW q, q = control[k].path, Lives(q, k)'
           PROVE  Missing(q)'
      <3>1. ~\E p \in Path : Covers(q, p) /\ Exists(p)
        BY <2>2, <2>9, <2>11 DEF OldDenial, Lives, Kills
      <3> QED BY <2>4, <3>1 DEF Missing
    <2>12. DenialsTrue'
      BY <1>3, <2>10, <2>11 DEF DenialsTrue
    <2>13. ASSUME NEW layer \in {"perm", "fresh"}, NEW w \in What, NEW p \in Path,
                  \A l \in 1..Len(control') : ~Wipes(l, w, p)'
           PROVE  \A v : v = cache'[layer][w][p] => Right(v, layer, w, p)'
      <3>1. Right(cache[layer][w][p], layer, w, p)
        BY <1>3, <2>8, <2>13 DEF Truthful, LayersTrue
      <3>2. CASE cache'[layer][w][p] = None
        BY <3>2 DEF Right, Agrees
      <3>3. CASE cache'[layer][w][p] # None
        <4>1. cache'[layer][w][p] = cache[layer][w][p] /\ ~Disturbs(calls[i].req, w, p)
          BY <2>1, <3>3
        <4>2. \A v : v = cache[layer][w][p] => Right(v, layer, w, p)'
          BY <2>3, <2>4, <3>1, <4>1 DEF Right
        <4> QED BY <4>1, <4>2
      <3> QED BY <3>2, <3>3
    <2>14. LayersTrue'
      BY <2>13 DEF LayersTrue
    <2> QED BY <1>6, <1>9, <2>7, <2>12, <2>14 DEF Truthful
  <1> QED BY <1>10, <1>11

LEMMA ControlIsTrue ==
  ASSUME IInv, Truthful, Control
  PROVE  Truthful'
  <1>1. CallsOK /\ MemoryOK
    BY DEF IInv
  <1>2. /\ UNCHANGED <<disk, stage, calls, worker>> /\ control # <<>>
        /\ cache' = Applied(cache, control[1]) /\ control' = Tail(control)
    BY DEF Control, start
  <1>3. PICK n \in Nat : n + 1 = Len(control)
    <2>1. \A s \in Seq(ControlLine) : s # <<>> => Len(s) \in Nat /\ Len(s) - 1 \in Nat
      OBVIOUS
    <2>2. Len(control) - 1 \in Nat /\ Len(control) \in Nat
      BY <1>1, <1>2, <2>1 DEF MemoryOK
    <2> QED BY <2>2
  <1>4. /\ Len(control') = n /\ 1 \in 1..Len(control)
        /\ \A l \in 1..n : control'[l] = control[l + 1] /\ l + 1 \in 1..Len(control)
    <2>1. \A s \in Seq(ControlLine) : s # <<>> =>
             /\ Len(Tail(s)) = Len(s) - 1
             /\ \A l \in 1..(Len(s) - 1) : Tail(s)[l] = s[l + 1]
      OBVIOUS
    <2>2. Len(control) - 1 = n /\ \A l \in 1..n : l + 1 \in 1..(n + 1)
      BY <1>3
    <2> QED BY <1>1, <1>2, <1>3, <2>1, <2>2 DEF MemoryOK
  <1>5. \A j : Waiting(j)' <=> Waiting(j)
    BY <1>2 DEF Waiting
  <1>6. Holds
    BY <1>2, <1>5, ExcuseStays, DiskHolds
  <1>7. RequestsTrue'
    BY <1>1, <1>2, <1>5, <1>6, CallStays DEF Truthful, RequestsTrue
  <1>8. \A q : \A l \in 1..n : Kills(l, q)' <=> Kills(l + 1, q)
    BY <1>4 DEF Kills
  <1>9. \A w, p : \A l \in 1..n : Wipes(l, w, p)' <=> Wipes(l + 1, w, p)
    BY <1>4 DEF Wipes
  <1>10. \A q : \A k \in 0..n : Lives(q, k)' => Lives(q, k + 1)
    <2> SUFFICES ASSUME NEW q, NEW k \in 0..n, Lives(q, k)', NEW l \in (k + 1 + 1)..(n + 1)
                 PROVE  ~Kills(l, q)
      BY <1>3 DEF Lives
    <2>1. PICK m \in Nat : m + 1 = l
      <3>1. l - 1 \in Nat
        OBVIOUS
      <3> QED BY <3>1
    <2>2. m \in 1..n /\ m \in (k + 1)..Len(control')
      BY <1>4, <2>1
    <2> QED BY <1>8, <2>1, <2>2 DEF Lives
  <1>11. DenialsTrue'
    <2>1. ASSUME NEW q \in cache'.neg, Lives(q, 0)' PROVE Missing(q)'
      <3>1. /\ ~Kills(1, q)
            /\ q \notin cache.neg => control[1].do = "put_negative" /\ q = control[1].path
        BY <1>1, <1>2, <1>4, LineDenies
      <3>2. Lives(q, 1)
        <4>1. 0 \in 0..n /\ 0 + 1 = 1
          OBVIOUS
        <4> QED BY <1>10, <2>1, <4>1
      <3>3. q \in cache.neg => Lives(q, 0)
        <4>1. \A l \in 1..(n + 1) : l = 1 \/ l \in 2..(n + 1)
          OBVIOUS
        <4>2. 1 + 1 = 2 /\ 0 + 1 = 1
          OBVIOUS
        <4> QED BY <1>3, <3>1, <3>2, <4>1, <4>2 DEF Lives
      <3>4. Missing(q)
        BY <1>4, <3>1, <3>2, <3>3 DEF Truthful, DenialsTrue
      <3> QED BY <1>6, <3>4, HoldsKeeps
    <2>2. ASSUME NEW k \in 1..Len(control'), control'[k].do = "put_negative",
                 NEW q, q = control'[k].path, Lives(q, k)'
          PROVE  Missing(q)'
      <3>1. k \in 1..n /\ k \in 0..n /\ control'[k] = control[k + 1] /\ k + 1 \in 1..Len(control)
        BY <1>4
      <3>2. Missing(q)
        BY <1>10, <2>2, <3>1 DEF Truthful, DenialsTrue
      <3> QED BY <1>6, <3>2, HoldsKeeps
    <2> QED BY <2>1, <2>2 DEF DenialsTrue
  <1>12. ASSUME NEW layer \in {"perm", "fresh"}, NEW w \in What, NEW p \in Path,
                \A l \in 1..Len(control') : ~Wipes(l, w, p)'
         PROVE  \A v : v = cache'[layer][w][p] => Right(v, layer, w, p)'
    <2>1. /\ cache'[layer][w][p] \in {None, cache[layer][w][p]}
          /\ Wipes(1, w, p) => cache'[layer][w][p] = None
      <3>1. PICK l \in 1..Len(control) : l = 1
        BY <1>4
      <3>2. PICK c : c = Applied(cache, control[l])
        OBVIOUS
      <3>3. c[layer][w][p] \in {None, cache[layer][w][p]} /\ (Wipes(l, w, p) => c[layer][w][p] = None)
        BY <1>1, <3>2, LineForgets
      <3> QED BY <1>2, <3>1, <3>2, <3>3
    <2>2. CASE cache'[layer][w][p] = None
      BY <2>2 DEF Right, Agrees
    <2>3. CASE cache'[layer][w][p] # None
      <3>1. \A l \in 1..(n + 1) : l = 1 \/ \E m \in 1..n : l = m + 1
        <4> SUFFICES ASSUME NEW l \in 1..(n + 1), l # 1 PROVE \E m \in 1..n : l = m + 1
          OBVIOUS
        <4>1. l - 1 \in 1..n /\ l = (l - 1) + 1
          OBVIOUS
        <4> QED BY <4>1
      <3>2. \A l \in 1..Len(control) : ~Wipes(l, w, p)
        <4> SUFFICES ASSUME NEW l \in 1..(n + 1), Wipes(l, w, p) PROVE FALSE
          BY <1>3
        <4>1. l # 1
          BY <2>1, <2>3
        <4>2. PICK m \in 1..n : l = m + 1
          BY <3>1, <4>1
        <4>3. Wipes(m, w, p)'
          BY <1>9, <4>2
        <4> QED BY <1>4, <1>12, <4>3
      <3>3. Right(cache[layer][w][p], layer, w, p)
        BY <3>2 DEF Truthful, LayersTrue
      <3>4. \A v : v = cache'[layer][w][p] => Right(v, layer, w, p)
        BY <2>1, <2>3, <3>3
      <3> QED BY <1>6, <3>4, HoldsKeeps
    <2> QED BY <2>2, <2>3
  <1>13. LayersTrue'
    BY <1>12 DEF LayersTrue
  <1>14. stage' # "serves" => NotYet'
    BY <1>2, Serves
  <1> QED BY <1>2, <1>7, <1>11, <1>13, <1>14 DEF Truthful, disk

-----------------------------------------------------------------------------
(* A request goes a step further, and the disk stays.                         *)

LEMMA OneStepOn ==
  ASSUME IInv, Truthful, NEW i \in 1..Len(calls), NEW at, NEW reply, NEW said,
         calls' = Set(i, at, reply, said), Made(i) => Made(i)', RequestOK(i)',
         UNCHANGED <<disk, stage, cache, worker>>,
         NEW lines \in Seq(ControlLine), control' = control \o lines,
         \A q : \A k \in 1..Len(lines) :
            lines[k].do = "put_negative" /\ lines[k].path = q => Missing(q)
  PROVE  Truthful'
  <1>1. CallsOK /\ MemoryOK
    BY DEF IInv
  <1>2. Holds
    BY <1>1, OthersExcuse, DiskHolds
  <1>3. RequestsTrue'
    BY <1>1, <1>2, OthersStay DEF Truthful
  <1>4. DenialsTrue' /\ LayersTrue'
    BY <1>1, <1>2, HoldsKeeps, MemoryIsTold DEF Truthful
  <1>5. stage' # "serves" => NotYet'
    BY Serves
  <1> QED BY <1>3, <1>4, <1>5 DEF Truthful, disk

LEMMA NoLines ==
  ASSUME IInv, control' = control
  PROVE  /\ <<>> \in Seq(ControlLine) /\ control' = control \o <<>>
         /\ \A q : \A k \in 1..Len(<<>>) :
               <<>>[k].do = "put_negative" /\ <<>>[k].path = q => Missing(q)
  BY DEF IInv, MemoryOK

(* What a request was, and what the step makes of it.                         *)
LEMMA CallIs ==
  ASSUME IInv, Truthful, NEW i \in 1..Len(calls), NEW at, NEW reply, NEW said,
         calls' = Set(i, at, reply, said), worker' = worker
  PROVE  /\ RequestOK(i) /\ calls'[i].req = calls[i].req
         /\ calls'[i].at = at /\ calls'[i].reply = reply
         /\ calls'[i].said = IF calls[i].said = None THEN said ELSE calls[i].said
         /\ Waiting(i)' <=> Waiting(i)
         /\ calls[i].req \in Look \cup Mutation
         /\ IsLook(calls[i].req) => calls[i].req.path \in Path /\ Of(calls[i].req.op) \in What
  <1>1. CallsOK
    BY DEF IInv
  <1>2. calls'[i] = [req |-> calls[i].req, at |-> at, reply |-> reply,
                     said |-> IF calls[i].said = None THEN said ELSE calls[i].said]
    BY <1>1, CallsBecome
  <1>3. calls[i].req \in Look \cup Mutation
    BY <1>1, CallGoes
  <1>4. IsLook(calls[i].req) => calls[i].req.path \in Path /\ Of(calls[i].req.op) \in What
    BY <1>3, OfLook DEF Look, Mutation
  <1>5. RequestOK(i) /\ (Waiting(i)' <=> Waiting(i))
    BY DEF Truthful, RequestsTrue, Waiting
  <1> QED BY <1>2, <1>3, <1>4, <1>5

LEMMA ReceiveIsTrue ==
  ASSUME IInv, Truthful, NEW i \in 1..Len(calls), Receive(i)
  PROVE  Truthful'
  <1>1. /\ calls' = Set(i, "server", None, None) /\ calls[i].at = "pipe"
        /\ control' = control \o Told(calls[i].req)
        /\ UNCHANGED <<disk, stage, cache, worker>>
    BY DEF Receive, start
  <1>2. /\ RequestOK(i) /\ calls'[i].req = calls[i].req
        /\ calls'[i].at = "server" /\ calls'[i].reply = None
        /\ calls'[i].said = IF calls[i].said = None THEN None ELSE calls[i].said
        /\ Waiting(i)' <=> Waiting(i)
        /\ calls[i].req \in Look \cup Mutation
    BY <1>1, CallIs
  <1>3. RequestOK(i)'
    BY <1>1, <1>2 DEF RequestOK, LookOK, ChangeOK
  <1>4. Made(i) => Made(i)'
    BY <1>1, <1>2 DEF Made, RequestOK
  <1> DEFINE lines == Told(calls[i].req)
  <1>5. lines \in Seq(ControlLine)
    BY <1>2, ToldIsLines
  <1>6. \A k \in 1..Len(lines) : lines[k].do # "put_negative"
    <2> DEFINE r == calls[i].req
               p == IF r.op = "rename" THEN r.to ELSE r.path
    <2>1. \/ lines = <<>>
          \/ lines = <<Message("invalidate_cache", r.path)>>
          \/ lines = <<Message("invalidate_negative_prefix", p), Message("invalidate_cache", p)>>
      BY DEF Told
    <2> HIDE DEF p, r, lines
    <2> QED BY <2>1 DEF Message
  <1> HIDE DEF lines
  <1>7. \A q : \A k \in 1..Len(lines) :
           lines[k].do = "put_negative" /\ lines[k].path = q => Missing(q)
    BY <1>6
  <1>8. control' = control \o lines
    BY <1>1 DEF lines
  <1> QED BY <1>1, <1>3, <1>4, <1>5, <1>7, <1>8, OneStepOn

LEMMA SendIsTrue ==
  ASSUME IInv, Truthful, NEW i \in 1..Len(calls), Send(i)
  PROVE  Truthful'
  <1>1. /\ calls' = Set(i, "client", None, None) /\ calls[i].at = "server"
        /\ UNCHANGED <<disk, stage, cache, worker, control>>
    BY DEF Send, start
  <1>2. /\ RequestOK(i) /\ calls'[i].req = calls[i].req
        /\ calls'[i].at = "client" /\ calls'[i].reply = None
        /\ calls'[i].said = IF calls[i].said = None THEN None ELSE calls[i].said
        /\ Waiting(i)' <=> Waiting(i)
    BY <1>1, CallIs
  <1>3. RequestOK(i)'
    BY <1>1, <1>2 DEF RequestOK, LookOK, ChangeOK
  <1>4. Made(i) => Made(i)'
    BY <1>1, <1>2 DEF Made, RequestOK
  <1> QED BY <1>1, <1>3, <1>4, NoLines, OneStepOn

LEMMA SendFailsIsTrue ==
  ASSUME IInv, Truthful, NEW i \in 1..Len(calls), SendFails(i)
  PROVE  Truthful'
  <1>1. /\ calls' = Set(i, "over", None, Failure) /\ calls[i].at = "server"
        /\ UNCHANGED <<disk, stage, cache, worker, control>>
    BY DEF SendFails, start
  <1>2. /\ RequestOK(i) /\ calls'[i].req = calls[i].req
        /\ calls'[i].at = "over" /\ calls'[i].reply = None
        /\ calls'[i].said = IF calls[i].said = None THEN Failure ELSE calls[i].said
        /\ Waiting(i)' <=> Waiting(i)
    BY <1>1, CallIs
  <1>3. RequestOK(i)'
    BY <1>1, <1>2, FailureIsReply DEF RequestOK, LookOK, ChangeOK
  <1>4. Made(i) => Made(i)'
    BY <1>1, <1>2 DEF Made, RequestOK
  <1> QED BY <1>1, <1>3, <1>4, NoLines, OneStepOn

LEMMA LoseIsTrue ==
  ASSUME IInv, Truthful, NEW i \in 1..Len(calls), Lose(i)
  PROVE  Truthful'
  <1>1. /\ calls' = Set(i, "over", calls[i].reply, None)
        /\ calls[i].at \in {"client", "climbs", "back"}
        /\ UNCHANGED <<disk, stage, cache, worker, control>>
    BY DEF Lose, start
  <1>2. /\ RequestOK(i) /\ calls'[i].req = calls[i].req
        /\ calls'[i].at = "over" /\ calls'[i].reply = calls[i].reply
        /\ calls'[i].said = calls[i].said
        /\ Waiting(i)' <=> Waiting(i)
        /\ IsLook(calls[i].req) => calls[i].req.path \in Path /\ Of(calls[i].req.op) \in What
    BY <1>1, CallIs
  <1>3. Made(i) => Made(i)'
    BY <1>1, <1>2 DEF Made, Underway, RequestOK, ChangeOK
  <1>4. Holds
    BY <1>1, <1>3, OthersExcuse, DiskHolds DEF IInv
  <1>5. RequestOK(i)'
    <2>1. CASE IsLook(calls[i].req)
      <3>1. LookOK(i)
        BY <1>2, <2>1 DEF RequestOK
      <3>2. LookOK(i)'
        BY <1>1, <1>2, <1>4, <2>1, <3>1, HoldsKeeps DEF LookOK, Underway
      <3> QED BY <1>2, <2>1, <3>2 DEF RequestOK
    <2>2. CASE ~IsLook(calls[i].req)
      BY <1>1, <1>2, <2>2 DEF RequestOK, ChangeOK
    <2> QED BY <2>1, <2>2
  <1> QED BY <1>1, <1>3, <1>5, NoLines, OneStepOn

LEMMA ExpireIsTrue ==
  ASSUME IInv, Truthful, NEW i \in 1..Len(calls), Expire(i), mishap' = {}
  PROVE  Truthful'
  <1>1. /\ calls' = Set(i, calls[i].at, calls[i].reply, Failure)
        /\ IsLook(calls[i].req)
        /\ UNCHANGED <<disk, stage, cache, worker, control>>
    BY DEF Expire, start, Note
  <1>2. /\ RequestOK(i) /\ calls'[i].req = calls[i].req
        /\ calls'[i].at = calls[i].at /\ calls'[i].reply = calls[i].reply
        /\ calls'[i].said = IF calls[i].said = None THEN Failure ELSE calls[i].said
        /\ Waiting(i)' <=> Waiting(i)
        /\ calls[i].req.path \in Path /\ Of(calls[i].req.op) \in What
    BY <1>1, CallIs
  <1>3. Made(i) => Made(i)'
    BY <1>1 DEF Made
  <1>4. Holds
    BY <1>1, <1>3, OthersExcuse, DiskHolds DEF IInv
  <1>5. RequestOK(i)'
    <2>1. LookOK(i)
      BY <1>1, <1>2 DEF RequestOK
    <2>2. LookOK(i)'
      BY <1>1, <1>2, <1>4, <2>1, HoldsKeeps DEF LookOK, Underway
    <2> QED BY <1>1, <1>2, <2>2 DEF RequestOK
  <1> QED BY <1>1, <1>3, <1>5, NoLines, OneStepOn

LEMMA ResolveIsTrue ==
  ASSUME IInv, Truthful, NEW i \in 1..Len(calls), Resolve(i)
  PROVE  Truthful'
  <1> DEFINE said == IF i \in pending THEN calls[i].reply ELSE None
             lines == IF i \in pending THEN Denial(i) ELSE <<>>
  <1>1. /\ calls' = Set(i, "over", calls[i].reply, said)
        /\ calls[i].at = "back"
        /\ UNCHANGED <<disk, stage, cache, worker>>
    BY DEF Resolve, start
  <1>2. /\ RequestOK(i) /\ calls'[i].req = calls[i].req
        /\ calls'[i].at = "over" /\ calls'[i].reply = calls[i].reply
        /\ calls'[i].said = IF calls[i].said = None THEN said ELSE calls[i].said
        /\ Waiting(i)' <=> Waiting(i)
        /\ IsLook(calls[i].req) => calls[i].req.path \in Path /\ Of(calls[i].req.op) \in What
    BY <1>1, CallIs
  <1>3. /\ calls[i].reply # None
        /\ IsLook(calls[i].req) /\ calls[i].reply.code = "ENOENT" => calls[i].reply.above \in Path
    BY <1>1, CallGoes DEF IInv, Goes
  <1>4. Made(i) => Made(i)'
    BY <1>1, <1>2 DEF Made, Underway, RequestOK, ChangeOK
  <1>5. Holds
    BY <1>1, <1>4, OthersExcuse, DiskHolds DEF IInv
  <1>6. RequestOK(i)'
    <2>1. CASE IsLook(calls[i].req)
      <3>1. LookOK(i)
        BY <1>2, <2>1 DEF RequestOK
      <3>2. LookOK(i)'
        BY <1>1, <1>2, <1>5, <2>1, <3>1, HoldsKeeps DEF LookOK, Underway
      <3> QED BY <1>2, <2>1, <3>2 DEF RequestOK
    <2>2. CASE ~IsLook(calls[i].req)
      BY <1>1, <1>2, <2>2 DEF RequestOK, ChangeOK
    <2> QED BY <2>1, <2>2
  <1>7. control' = control \o lines
    <2>1. CASE i \in pending
      BY <2>1 DEF Resolve
    <2>2. CASE i \notin pending
      <3>1. control' = control /\ lines = <<>>
        BY <2>2 DEF Resolve
      <3> QED BY <3>1, NoLines
    <2> QED BY <2>1, <2>2
  <1>8. CASE lines = <<>>
    <2> HIDE DEF lines, said
    <2>1. lines \in Seq(ControlLine) /\ Len(lines) = 0
      <3>1. <<>> \in Seq(ControlLine) /\ Len(<<>>) = 0
        OBVIOUS
      <3> QED BY <1>8, <3>1
    <2>2. \A q : \A k \in 1..Len(lines) :
             lines[k].do = "put_negative" /\ lines[k].path = q => Missing(q)
      BY <2>1
    <2> QED BY <1>1, <1>4, <1>6, <1>7, <2>1, <2>2, OneStepOn
  <1>9. CASE lines # <<>>
    <2>1. IsLook(calls[i].req) /\ calls[i].reply.code = "ENOENT"
      BY <1>9 DEF Denial
    <2>2. PICK above \in Path : above = calls[i].reply.above
      BY <1>3, <2>1
    <2>3. Missing(above)
      BY <1>1, <1>2, <1>3, <2>1, <2>2, ProxyBounds DEF RequestOK, LookOK, Underway
    <2>4. lines = <<Message("put_negative", above)>>
      BY <1>9, <2>1, <2>2 DEF Denial
    <2>5. Message("put_negative", above) \in ControlLine
      BY DEF Message, ControlLine
    <2> HIDE DEF lines, said
    <2>6. /\ lines \in Seq(ControlLine) /\ Len(lines) = 1
          /\ lines[1] = Message("put_negative", above)
      BY <2>4, <2>5
    <2>7. \A q : \A k \in 1..Len(lines) :
             lines[k].do = "put_negative" /\ lines[k].path = q => Missing(q)
      BY <2>3, <2>6 DEF Message
    <2> QED BY <1>1, <1>4, <1>6, <1>7, <2>6, <2>7, OneStepOn
  <1> QED BY <1>8, <1>9

LEMMA ClimbIsTrue ==
  ASSUME IInv, Truthful, NEW i \in 1..Len(calls), Climb(i)
  PROVE  Truthful'
  <1> DEFINE r == calls[i].req
             top == Shallowest(tree, r.path)
             a == [calls[i].reply EXCEPT !.above = top]
  <1>1. /\ calls' = Set(i, "back", a, None)
        /\ calls[i].at = "climbs"
        /\ UNCHANGED <<disk, stage, cache, worker, control>>
    BY DEF Climb, start
  <1>2. /\ IsLook(r) /\ calls[i].reply.code = "ENOENT" /\ calls[i].reply # None
        /\ IsReply(r, calls[i].reply)
    BY <1>1, CallGoes DEF IInv, Goes
  <1>3. a.code = "ENOENT" /\ a.above = top
    BY <1>2 DEF IsReply
  <1> HIDE DEF a
  <1>4. /\ RequestOK(i) /\ calls'[i].req = r
        /\ calls'[i].at = "back" /\ calls'[i].reply = a
        /\ calls'[i].said = calls[i].said
        /\ Waiting(i)' <=> Waiting(i)
        /\ r.path \in Path
    BY <1>1, <1>2, CallIs
  <1>5. LookOK(i)
    BY <1>2, <1>4 DEF RequestOK
  <1>6. Missing(r.path)
    BY <1>1, <1>2, <1>5 DEF LookOK, Underway
  <1>7. Missing(top)
    <2>1. top \in Path /\ (top = r.path \/ tree[top] = "none")
      BY <1>4, ShallowestIsPath
    <2> HIDE DEF top
    <2> QED BY <1>6, <2>1, MissingBelow DEF Truthful, Exists
  <1>8. Made(i) => Made(i)'
    BY <1>2 DEF Made
  <1>9. Holds
    BY <1>1, <1>8, OthersExcuse, DiskHolds DEF IInv
  <1> HIDE DEF top
  <1>10. RequestOK(i)'
    <2>1. /\ \A q : q = r.path => Missing(q)'
          /\ \A q : q = top => Missing(q)'
      BY <1>6, <1>7, <1>9, HoldsKeeps
    <2> HIDE DEF r
    <2>2. IsLook(r) /\ r = calls[i].req
      BY <1>2 DEF r
    <2>3. LookOK(i)'
      BY <1>1, <1>3, <1>4, <1>5, <2>1, <2>2 DEF LookOK
    <2> QED BY <1>4, <2>2, <2>3 DEF RequestOK
  <1> QED BY <1>1, <1>8, <1>10, NoLines, OneStepOn

-----------------------------------------------------------------------------
(* The client does what it is asked for.                                      *)

LEMMA LookedIsTrue ==
  ASSUME IInv, Truthful, NEW i \in 1..Len(calls), Execute(i), IsLook(calls[i].req)
  PROVE  Truthful'
  <1> DEFINE r == calls[i].req
             at == IF Found(r).code = "ENOENT" THEN "climbs" ELSE "back"
             a == Found(r)
  <1>1. /\ calls' = Set(i, at, a, None) /\ calls[i].at = "client"
        /\ UNCHANGED <<disk, stage, cache, worker, control>>
    BY DEF Execute, start
  <1>2. /\ RequestOK(i) /\ calls'[i].req = r
        /\ calls'[i].at = at /\ calls'[i].reply = a
        /\ calls'[i].said = calls[i].said
        /\ r.path \in Path /\ Of(r.op) \in What /\ r \in Look \cup Mutation
    BY <1>1, CallIs
  <1>3. /\ a.code = "ok" => Agrees(a.value, "fresh", Of(r.op), r.path)
        /\ a.code = "ENOENT" => Missing(r.path)
        /\ a.above = None
    <2>1. IsTree(tree) /\ DiskOK
      BY DEF Truthful, IInv
    <2> QED BY <1>2, <2>1, FoundIsTrue, FoundIsReply
  <1>4. at \in {"climbs", "back"}
    OBVIOUS
  <1>5. Made(i) => Made(i)'
    BY DEF Made
  <1> HIDE DEF at, a
  <1>6. Holds
    BY <1>1, <1>5, OthersExcuse, DiskHolds DEF IInv
  <1>7. RequestOK(i)'
    <2>1. /\ a.code = "ENOENT" => \A q : q = r.path => Missing(q)'
          /\ a.code = "ok" => \A w \in What : \A q \in Path : \A v :
                w = Of(r.op) /\ q = r.path /\ v = a.value => Right(v, "fresh", w, q)'
      BY <1>2, <1>3, <1>6, HoldsKeeps DEF Right
    <2> HIDE DEF r
    <2>2. IsLook(r) /\ r = calls[i].req
      BY DEF r
    <2>3. calls[i].said = None \/ calls[i].said = Failure
      BY <1>1, <1>2, <2>2 DEF RequestOK, LookOK
    <2>4. LookOK(i)'
      BY <1>2, <1>3, <2>1, <2>2, <2>3 DEF LookOK
    <2> QED BY <1>2, <1>4, <2>2, <2>4 DEF RequestOK
  <1> QED BY <1>1, <1>5, <1>7, NoLines, OneStepOn

LEMMA FailedIsTrue ==
  ASSUME IInv, Truthful, NEW i \in 1..Len(calls), Execute(i), ~IsLook(calls[i].req),
         ~Possible(tree, calls[i].req)
  PROVE  Truthful'
  <1>1. /\ calls' = Set(i, "back", Failure, None) /\ calls[i].at = "client"
        /\ UNCHANGED <<disk, stage, cache, worker, control>>
    BY DEF Execute, start, disk
  <1>2. /\ RequestOK(i) /\ calls'[i].req = calls[i].req
        /\ calls'[i].at = "back" /\ calls'[i].reply = Failure
        /\ calls'[i].said = calls[i].said
        /\ Waiting(i)' <=> Waiting(i)
    BY <1>1, CallIs
  <1>3. RequestOK(i)'
    BY <1>1, <1>2 DEF RequestOK, ChangeOK
  <1>4. Made(i) => Made(i)'
    BY <1>1, <1>2 DEF Made, RequestOK
  <1> QED BY <1>1, <1>3, <1>4, NoLines, OneStepOn

(* A change that is plain disturbs what it is about, and nothing else.        *)
LEMMA ChangeIsPlain ==
  ASSUME IInv, Truthful, NEW m \in Mutation, NEW i \in Nat, Possible(tree, m), Plain(tree, m),
         tree' = Changed(tree, m), version' = Versions(m, i)
  PROVE  /\ IsTree(tree)'
         /\ \A w \in What, p \in Path :
               ~Disturbs(m, w, p) => Truth(w, p)' = Truth(w, p) /\ tree'[p] = tree[p]
  <1>1. tree \in [Path -> Kind] /\ IsTree(tree)
    BY DEF IInv, DiskOK, Truthful
  <1>2. IsTree(tree)'
    BY <1>1, ChangeKeepsTree
  <1>3. \A p \in Path \ Ends(m) : tree'[p] = tree[p]
    BY <1>1, ChangeIsLocal
  <1>4. \A p \in Path \ Ends(m) : Exists(p) => version'[p] = version[p]
    <2> SUFFICES ASSUME NEW p \in Path \ Ends(m), tree[p] # "none"
                 PROVE  Versions(m, i)[p] = version[p]
      BY DEF Exists
    <2>0. version \in [Path -> Nat] /\ m.path \in Ends(m)
      BY DEF IInv, DiskOK, Ends
    <2>1. CASE m.op # "rename"
      BY <2>0, <2>1 DEF Versions
    <2>2. CASE m.op = "rename"
      <3>1. Sources(m, p) = {} /\ ~Covers(m.path, p)
        BY <1>1, <2>2, RenameIsLocal DEF Plain, Ends
      <3>2. Versions(m, i) = Moved(version, m, 0)
        BY <2>2 DEF Versions
      <3> QED BY <3>1, <3>2 DEF Moved
    <2> QED BY <2>1, <2>2
  <1>5. ASSUME NEW w \in What, NEW p \in Path, ~Disturbs(m, w, p)
        PROVE  Truth(w, p)' = Truth(w, p) /\ tree'[p] = tree[p]
    <2>1. p \notin Ends(m) /\ (w = "list" => \A e \in Ends(m) : p # Parent(e))
      BY <1>5 DEF Disturbs
    <2>2. tree'[p] = tree[p] /\ (Exists(p) => version'[p] = version[p])
      BY <1>3, <1>4, <2>1
    <2>3. CASE w = "stat"
      BY <2>2, <2>3 DEF Truth, Stat, Exists
    <2>4. CASE w = "read"
      BY <2>2, <2>4 DEF Truth, Stat, Exists
    <2>5. CASE w = "list"
      <3>1. \A q \in Path : Parent(q) = p => tree'[q] = tree[q]
        BY <1>3, <2>1, <2>5
      <3>2. Children(tree', p) = Children(tree, p)
        BY <3>1 DEF Children
      <3>3. Truth("list", p)' = IF tree'[p] = "dir" THEN Children(tree', p) ELSE None
        BY DEF Truth, Children
      <3>4. Truth("list", p) = IF tree[p] = "dir" THEN Children(tree, p) ELSE None
        BY DEF Truth
      <3> QED BY <2>2, <2>5, <3>2, <3>3, <3>4
    <2> QED BY <2>3, <2>4, <2>5 DEF What
  <1> QED BY <1>2, <1>5

LEMMA MadeIsTrue ==
  ASSUME IInv, Truthful, NEW i \in 1..Len(calls), Execute(i), ~IsLook(calls[i].req),
         Possible(tree, calls[i].req), mishap' = {}
  PROVE  Truthful'
  <1> DEFINE r == calls[i].req
             a == [Failure EXCEPT !.code = "ok"]
  <1>1. /\ calls' = Set(i, "back", a, None) /\ calls[i].at = "client"
        /\ tree' = Changed(tree, r) /\ version' = Versions(r, i)
        /\ UNCHANGED <<stage, cache, worker, control>>
        /\ ~(r.op = "rename" /\ ~Bare(tree, r.path))
        /\ ~(/\ r.op \in {"change", "mkdir"}
             /\ \E q \in Parents(r.path) : ~Exists(q))
    BY DEF Execute, start, Note
  <1>2. a.code = "ok" /\ a # None
    BY FailureIsReply DEF Failure
  <1> HIDE DEF a
  <1>3. /\ RequestOK(i) /\ calls'[i].req = r
        /\ calls'[i].at = "back" /\ calls'[i].reply = a
        /\ calls'[i].said = calls[i].said
        /\ Waiting(i)' <=> Waiting(i)
        /\ r \in Look \cup Mutation
    BY <1>1, CallIs
  <1>4. r \in Mutation /\ Plain(tree, r)
    BY <1>1, <1>3 DEF Look, IsLook, Plain, Exists
  <1>5. CallsOK /\ MemoryOK /\ i \in Nat /\ Len(calls') = Len(calls)
    <2>1. CallsOK /\ MemoryOK
      BY DEF IInv
    <2>2. Len(calls') = Len(calls)
      BY <1>1, <2>1, CallsBecome
    <2> QED BY <2>1, <2>2
  <1>6. Made(i)'
    BY <1>2, <1>3 DEF Made, Underway
  <1>7. \A w, p : Excused(w, p) => Excused(w, p)'
    BY <1>1, <1>5, <1>6, OthersExcuse
  <1>8. \A w, p : Disturbs(r, w, p) => Excused(w, p)'
    <2> SUFFICES ASSUME NEW w, NEW p, Disturbs(r, w, p) PROVE Excused(w, p)'
      OBVIOUS
    <2>1. Disturbs(calls[i].req, w, p)'
      BY <1>3 DEF Disturbs, Ends
    <2> QED BY <1>5, <1>6, <2>1 DEF Excused
  <1>9. /\ IsTree(tree)'
        /\ \A w \in What, p \in Path :
              ~Disturbs(r, w, p) => Truth(w, p)' = Truth(w, p) /\ tree'[p] = tree[p]
    BY <1>1, <1>4, <1>5, ChangeIsPlain
  <1> HIDE DEF r
  <1>10. Holds
    BY <1>7, <1>8, <1>9 DEF Holds
  <1>11. RequestOK(i)'
    BY <1>1, <1>3 DEF RequestOK, ChangeOK, r
  <1>12. RequestsTrue'
    BY <1>1, <1>5, <1>10, <1>11, OthersStay DEF Truthful
  <1>13. DenialsTrue' /\ LayersTrue'
    BY <1>1, <1>10, MemoryStays DEF Truthful
  <1>14. stage' # "serves" => NotYet'
    BY <1>1, Serves
  <1> QED BY <1>9, <1>12, <1>13, <1>14 DEF Truthful

-----------------------------------------------------------------------------
(* All steps.                                                                 *)

(* The invariant: true as long as there has been no mishap.                   *)
Quiet == mishap = {} => Truthful

LEMMA StaysTruthful == IInv /\ Quiet /\ [Next]_vars => Quiet'
  <1> SUFFICES ASSUME IInv, [Next]_vars, mishap = {} => Truthful, mishap' = {} PROVE Truthful'
    BY DEF Quiet
  <1>0. Truthful
    BY MishapGrows
  <1>1. CASE UNCHANGED vars
    <2>1. UNCHANGED <<disk, stage, snapshot, cache, calls, worker, control>>
      BY <1>1 DEF vars, start
    <2>2. Truthful' <=> Truthful
      BY <2>1 DEF Truthful, disk, NotYet, RequestsTrue, RequestOK, LookOK, ChangeOK, DenialsTrue,
                  LayersTrue, Missing, Right, Agrees, Excused, Made, Underway, Waiting, Exists,
                  Truth, Stat, Children, Lives, Kills, Wipes
    <2> QED BY <1>0, <2>2
  <1>2. CASE Starting
    BY <1>0, <1>2, StartingIsTrue
  <1>3. ASSUME NEW t \in Thread, NEW r \in Wanted[t], Begin(t, r)
        PROVE  Truthful'
    BY <1>0, <1>3, BeginIsTrue, ProxyBounds
  <1>4. ASSUME NEW t \in Thread, Return(t) \/ GiveUp(t)
        PROVE  Truthful'
    BY <1>0, <1>4, AnswerIsTaken, ChangeIsTaken, GiveUpIsTrue
  <1>5. CASE Control
    BY <1>0, <1>5, ControlIsTrue
  <1>6. ASSUME NEW i \in 1..Len(calls),
               \/ Receive(i) \/ Send(i) \/ SendFails(i) \/ Resolve(i) \/ Expire(i)
               \/ Execute(i) \/ Climb(i) \/ Lose(i)
        PROVE  Truthful'
    BY <1>0, <1>6, ReceiveIsTrue, SendIsTrue, SendFailsIsTrue, ResolveIsTrue, ExpireIsTrue,
       LookedIsTrue, FailedIsTrue, MadeIsTrue, ClimbIsTrue, LoseIsTrue
  <1>7. ASSUME NEW p \in Edited, Edit(p)
        PROVE  Truthful'
    BY <1>7 DEF Edit
  <1>8. CASE AtRest
    BY <1>1, <1>8 DEF AtRest
  <1> QED BY <1>1, <1>2, <1>3, <1>4, <1>5, <1>6, <1>7, <1>8 DEF Next

LEMMA AlwaysTruthful == Spec => []Quiet
  <1>1. Init => Quiet
    BY InitTruthful DEF Quiet
  <1> QED BY <1>1, Always, StaysTruthful, PTL DEF Spec

(* As long as there has been no mishap, the negative cache hides nothing that *)
(* is there, unless a change of it is not over yet.                           *)
THEOREM NothingIsDenied == Spec => []NothingDenied
  <1>1. IInv /\ Quiet => NothingDenied
    BY TruthfulSays DEF NothingDenied, Quiet
  <1> QED BY <1>1, Always, AlwaysTruthful, PTL

(* And what the daemon remembers, from the snapshot or from an answer, is what *)
(* the disk holds, version and all.                                           *)
THEOREM MemoryAgrees == Spec => []MemoryIsTrue
  <1>1. IInv /\ Quiet => MemoryIsTrue
    BY TruthfulSays DEF MemoryIsTrue, Quiet
  <1> QED BY <1>1, Always, AlwaysTruthful, PTL

=============================================================================
