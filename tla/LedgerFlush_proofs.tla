------------------------- MODULE LedgerFlush_proofs -------------------------
(* The indices of the access ledger, which every change keeps up by hand, are *)
(* right in every flush of every session, and the plan computed from a ledger *)
(* reaches the files the ledger knows; for any paths, sessions and bounds.    *)
EXTENDS LedgerFlush, NaturalsInduction, WellFoundedInduction, SequenceTheorems, TLAPS

-----------------------------------------------------------------------------
(* Paths and trees.                                                           *)

LEMMA SelfCovers ==
  ASSUME NEW p \in Path
  PROVE  /\ p \in Seq(Name) /\ Len(p) \in Nat \ {0} /\ SubSeq(p, 1, Len(p)) = p
         /\ \A n \in 1..Len(p) : Covers(SubSeq(p, 1, n), p)
  <1>1. p \in Seq(Name) /\ p # <<>>
    BY PathsAreNames
  <1>2. Len(p) \in Nat \ {0} /\ SubSeq(p, 1, Len(p)) = p
    BY <1>1
  <1>3. ASSUME NEW n \in 1..Len(p)
        PROVE  Covers(SubSeq(p, 1, n), p)
    <2>1. CASE n = Len(p)
      BY <1>2, <2>1 DEF Covers
    <2>2. CASE n \in 1..(Len(p) - 1)
      <3>1. SubSeq(p, 1, n) \in Above(p)
        BY <2>2 DEF Above
      <3> QED BY <3>1 DEF Covers
    <2>3. n = Len(p) \/ n \in 1..(Len(p) - 1)
      <3>1. \A k \in Nat : \A m \in 1..k : m = k \/ m \in 1..(k - 1)
        OBVIOUS
      <3> QED BY <1>2, <3>1
    <2> QED BY <2>1, <2>2, <2>3
  <1> QED BY <1>1, <1>2, <1>3

(* Every path has a shallowest missing ancestor, itself at the worst.         *)
LEMMA ShallowestIsPath ==
  ASSUME NEW t, NEW p \in Path
  PROVE  /\ Shallowest(t, p) \in Path
         /\ Shallowest(t, p) = p \/ t[Shallowest(t, p)] = "none"
  <1> DEFINE T == {n \in 1..Len(p) : /\ SubSeq(p, 1, n) \in Path
                                     /\ n = Len(p) \/ t[SubSeq(p, 1, n)] = "none"}
             P(q) == /\ Covers(q, p)
                     /\ q = p \/ t[q] = "none"
                     /\ \A r \in Parents(q) : t[r] # "none"
  <1>1. T \subseteq Nat /\ Len(p) \in T
    <2>1. Len(p) \in 1..Len(p) /\ SubSeq(p, 1, Len(p)) = p
      BY SelfCovers
    <2>2. SubSeq(p, 1, Len(p)) \in Path
      BY <2>1
    <2> QED BY <2>1, <2>2
  <1>2. PICK n \in T : \A m \in T : ~(<<m, n>> \in OpToRel(<, Nat))
    BY <1>1, NatLessThanWellFounded, WFMin
  <1>3. \A m \in T : ~(m < n)
    BY <1>1, <1>2 DEF OpToRel
  <1> DEFINE q == SubSeq(p, 1, n)
  <1>4. q \in Path /\ (q = p \/ t[q] = "none") /\ Covers(q, p)
    BY SelfCovers
  <1>5. \A r \in Parents(q) : t[r] # "none"
    <2> SUFFICES ASSUME NEW m \in 1..(Len(q) - 1), SubSeq(q, 1, m) \in Path
                 PROVE  t[SubSeq(q, 1, m)] # "none"
      BY DEF Above, Parents
    <2>1. p \in Seq(Name) /\ n \in 1..Len(p)
      BY SelfCovers
    <2>2. Len(q) = n
      BY <2>1
    <2>3. m < n /\ m \in 1..Len(p) /\ m \in 1..n
      BY <2>1, <2>2
    <2>4. SubSeq(q, 1, m) = SubSeq(p, 1, m)
      BY <2>1, <2>2, <2>3
    <2> QED BY <1>3, <2>3, <2>4
  <1>6. P(q)
    BY <1>4, <1>5
  <1>7. P(Shallowest(t, p)) /\ Shallowest(t, p) \in Path
    <2>1. Shallowest(t, p) = CHOOSE x \in Path : P(x)
      BY DEF Shallowest
    <2> HIDE DEF P, q
    <2> QED BY <1>4, <1>6, <2>1
  <1> QED BY <1>7

LEMMA ChangedIsTree ==
  ASSUME NEW m \in Mutation, NEW t, t \in [Path -> Kind]
  PROVE  Changed(t, m) \in [Path -> Kind]
  <1>1. m.path \in Path /\ m.to \in Path
    BY DEF Mutation
  <1>2. \A paths : \A k \in Kind : With(t, paths, k) \in [Path -> Kind]
    BY DEF With
  <1>3. "none" \in Kind /\ "dir" \in Kind /\ "file" \in Kind
    BY DEF Kind
  <1>4. CASE m.op = "change"
    <2>1. With(t, Parents(m.path), "dir") \in [Path -> Kind]
      BY <1>2, <1>3
    <2>2. Changed(t, m) = [With(t, Parents(m.path), "dir") EXCEPT ![m.path] = "file"]
      BY <1>4 DEF Changed
    <2> QED BY <1>1, <1>3, <2>1, <2>2
  <1>5. CASE m.op = "mkdir"
    <2>1. Changed(t, m) = With(t, {q \in Path : Covers(q, m.path)}, "dir")
      BY <1>5 DEF Changed
    <2> QED BY <1>2, <1>3, <2>1
  <1>6. CASE m.op \in {"unlink", "rmdir"}
    <2>1. Changed(t, m) = With(t, {m.path}, "none")
      BY <1>6 DEF Changed
    <2> QED BY <1>2, <1>3, <2>1
  <1>7. CASE m.op = "rename"
    <2> DEFINE from(q) == Sources(m, q)
    <2>1. Changed(t, m) = [q \in Path |->
                          IF from(q) # {} THEN t[CHOOSE p \in from(q) : TRUE]
                          ELSE IF Covers(m.path, q) THEN "none" ELSE t[q]]
      BY <1>7 DEF Changed, Moved
    <2>2. \A q : from(q) # {} => (CHOOSE p \in from(q) : TRUE) \in Path
      BY DEF Sources
    <2> HIDE DEF from
    <2> QED BY <1>3, <2>1, <2>2
  <1>8. m.op \in {"change", "mkdir", "unlink", "rmdir", "rename"}
    BY DEF Mutation
  <1> QED BY <1>4, <1>5, <1>6, <1>7, <1>8

(* A path lies in those whose names it begins with.                           *)
LEMMA CoversIs ==
  ASSUME NEW p \in Path, NEW q \in Path
  PROVE  Covers(q, p) <=> Len(q) <= Len(p) /\ \A k \in 1..Len(q) : p[k] = q[k]
  <1>1. /\ p \in Seq(Name) /\ q \in Seq(Name)
        /\ Len(p) \in Nat \ {0} /\ Len(q) \in Nat \ {0}
    BY SelfCovers
  <1>2. ASSUME Covers(q, p)
        PROVE  Len(q) <= Len(p) /\ \A k \in 1..Len(q) : p[k] = q[k]
    <2>1. CASE q = p
      BY <1>1, <2>1
    <2>2. CASE q \in Above(p)
      <3>1. PICK n \in 1..(Len(p) - 1) : q = SubSeq(p, 1, n)
        BY <2>2 DEF Above
      <3>2. n \in Nat /\ n <= Len(p) /\ 1 <= n
        BY <1>1, <3>1
      <3>3. Len(q) = n /\ \A k \in 1..n : q[k] = p[k]
        BY <1>1, <3>1, <3>2
      <3> QED BY <3>2, <3>3
    <2> QED BY <1>2, <2>1, <2>2 DEF Covers
  <1>3. ASSUME Len(q) <= Len(p), \A k \in 1..Len(q) : p[k] = q[k]
        PROVE  Covers(q, p)
    <2>1. CASE Len(q) = Len(p)
      <3>1. q = p
        BY <1>1, <1>3, <2>1, SeqEqual
      <3> QED BY <3>1 DEF Covers
    <2>2. CASE Len(q) # Len(p)
      <3>1. Len(q) \in 1..(Len(p) - 1)
        BY <1>1, <1>3, <2>2
      <3>2. /\ SubSeq(p, 1, Len(q)) \in Seq(Name) /\ Len(SubSeq(p, 1, Len(q))) = Len(q)
            /\ \A k \in 1..Len(q) : SubSeq(p, 1, Len(q))[k] = p[k]
        BY <1>1, <3>1
      <3>3. q = SubSeq(p, 1, Len(q))
        BY <1>1, <1>3, <3>2, SeqEqual
      <3> QED BY <3>1, <3>3 DEF Above, Covers
    <2> QED BY <2>1, <2>2
  <1> QED BY <1>2, <1>3

LEMMA AboveIs ==
  ASSUME NEW p \in Path, NEW q \in Path
  PROVE  q \in Above(p) <=> Covers(q, p) /\ q # p
  <1>1. p \in Seq(Name) /\ Len(p) \in Nat \ {0}
    BY SelfCovers
  <1>2. p \notin Above(p)
    <2> SUFFICES ASSUME NEW n \in 1..(Len(p) - 1), p = SubSeq(p, 1, n) PROVE FALSE
      BY DEF Above
    <2>1. n \in Nat /\ n < Len(p) /\ Len(SubSeq(p, 1, n)) = n
      BY <1>1
    <2> QED BY <1>1, <2>1
  <1> QED BY <1>2 DEF Covers

LEMMA CoversOrder ==
  ASSUME NEW p \in Path, NEW q \in Path, NEW r \in Path, Covers(q, p)
  PROVE  /\ Covers(r, q) => Covers(r, p)
         /\ Covers(r, p) => Covers(r, q) \/ Covers(q, r)
         /\ Covers(p, q) => p = q
  <1>1. /\ Len(p) \in Nat /\ Len(q) \in Nat /\ Len(r) \in Nat
        /\ p \in Seq(Name) /\ q \in Seq(Name)
    BY SelfCovers
  <1>2. Len(q) <= Len(p) /\ \A k \in 1..Len(q) : p[k] = q[k]
    BY CoversIs
  <1>3. ASSUME Covers(r, q) PROVE Covers(r, p)
    <2>1. Len(r) <= Len(q) /\ \A k \in 1..Len(r) : q[k] = r[k]
      BY <1>3, CoversIs
    <2>2. Len(r) <= Len(p) /\ \A k \in 1..Len(r) : p[k] = r[k]
      BY <1>1, <1>2, <2>1
    <2> QED BY <2>2, CoversIs
  <1>4. ASSUME Covers(r, p) PROVE Covers(r, q) \/ Covers(q, r)
    <2>1. Len(r) <= Len(p) /\ \A k \in 1..Len(r) : p[k] = r[k]
      BY <1>4, CoversIs
    <2>2. CASE Len(r) <= Len(q)
      <3>1. \A k \in 1..Len(r) : q[k] = r[k]
        BY <1>1, <1>2, <2>1, <2>2
      <3> QED BY <2>2, <3>1, CoversIs
    <2>3. CASE Len(q) <= Len(r)
      <3>1. \A k \in 1..Len(q) : r[k] = q[k]
        BY <1>1, <1>2, <2>1, <2>3
      <3> QED BY <2>3, <3>1, CoversIs
    <2> QED BY <1>1, <2>2, <2>3
  <1>5. ASSUME Covers(p, q) PROVE p = q
    <2>1. Len(p) <= Len(q)
      BY <1>5, CoversIs
    <2>2. Len(p) = Len(q)
      BY <1>1, <1>2, <2>1
    <2> QED BY <1>1, <1>2, <2>2, SeqEqual
  <1> QED BY <1>3, <1>4, <1>5

(* What moves with a directory comes to lie in its target.                    *)
LEMMA RerootIs ==
  ASSUME NEW p \in Path, NEW from \in Path, NEW to \in Path, NEW q \in Path,
         Covers(from, p), Reroot(p, from, to) = q
  PROVE  Covers(to, q) /\ (p = from <=> q = to)
  <1> DEFINE rest == SubSeq(p, Len(from) + 1, Len(p))
  <1>1. /\ p \in Seq(Name) /\ from \in Seq(Name) /\ to \in Seq(Name)
        /\ Len(p) \in Nat \ {0} /\ Len(from) \in Nat \ {0} /\ Len(to) \in Nat \ {0}
    BY SelfCovers
  <1>2. Len(from) <= Len(p) /\ \A k \in 1..Len(from) : p[k] = from[k]
    BY CoversIs
  <1>3. rest \in Seq(Name) /\ Len(rest) = Len(p) - Len(from)
    BY <1>1, <1>2
  <1>4. q = to \o rest
    BY DEF Reroot
  <1> HIDE DEF rest
  <1>5. /\ Len(q) = Len(to) + Len(rest) /\ Len(rest) \in Nat
        /\ \A k \in 1..Len(to) : q[k] = to[k]
    <2>1. \A s \in Seq(Name) : \A t \in Seq(Name) :
             /\ Len(s \o t) = Len(s) + Len(t) /\ Len(t) \in Nat
             /\ \A k \in 1..Len(s) : (s \o t)[k] = s[k]
      OBVIOUS
    <2>2. to \in Seq(Name) /\ rest \in Seq(Name)
      BY <1>1, <1>3
    <2>3. /\ Len(to \o rest) = Len(to) + Len(rest) /\ Len(rest) \in Nat
          /\ \A k \in 1..Len(to) : (to \o rest)[k] = to[k]
      BY ONLY <2>1, <2>2, Zenon
    <2> QED BY ONLY <1>4, <2>3, Zenon
  <1>6. Covers(to, q)
    <2>1. Len(to) <= Len(q)
      BY <1>1, <1>5
    <2> QED BY <1>5, <2>1, CoversIs
  <1>7. ASSUME p = from PROVE q = to
    <2>1. Len(q) = Len(to)
      BY <1>1, <1>3, <1>5, <1>7
    <2> QED BY <1>1, <1>5, <2>1, SelfCovers, SeqEqual
  <1>8. ASSUME q = to PROVE p = from
    <2>1. Len(rest) = 0
      BY <1>1, <1>5, <1>8
    <2>2. Len(p) = Len(from)
      BY <1>1, <1>3, <2>1
    <2> QED BY <1>1, <1>2, <2>2, SeqEqual
  <1> QED BY <1>6, <1>7, <1>8

LEMMA NothingBelow ==
  ASSUME NEW t, IsTree(t), NEW p \in Path, t[p] # "dir" \/ Bare(t, p)
  PROVE  \A q \in Path : Covers(p, q) /\ q # p => t[q] = "none"
  BY DEF IsTree, Bare, Parents, Covers

LEMMA SourcesAre ==
  ASSUME NEW m \in Mutation, NEW q \in Path
  PROVE  /\ \A p \in Sources(m, q) : /\ p \in Path /\ Covers(m.path, p) /\ Covers(m.to, q)
                                     /\ p = m.path <=> q = m.to
         /\ m.path \in Sources(m, m.to)
  <1>1. m.path \in Path /\ m.to \in Path
    BY DEF Mutation
  <1>2. \A p \in Sources(m, q) : /\ p \in Path /\ Covers(m.path, p)
                                 /\ Covers(m.to, q) /\ (p = m.path <=> q = m.to)
    BY <1>1, RerootIs DEF Sources
  <1>3. Reroot(m.path, m.path, m.to) = m.to
    <2>1. /\ m.path \in Seq(Name) /\ m.to \in Seq(Name) /\ Len(m.path) \in Nat
      BY <1>1, SelfCovers
    <2>2. SubSeq(m.path, Len(m.path) + 1, Len(m.path)) = <<>>
      BY <2>1
    <2>3. m.to \o <<>> = m.to
      BY <2>1
    <2> QED BY <2>2, <2>3 DEF Reroot
  <1>4. m.path \in Sources(m, m.to)
    BY <1>1, <1>3 DEF Sources, Covers
  <1> QED BY <1>2, <1>4

(* A rename of a file or of an empty directory moves nothing else.            *)
LEMMA RenameIsLocal ==
  ASSUME NEW t, t \in [Path -> Kind], IsTree(t), NEW m \in Mutation, m.op = "rename",
         Possible(t, m), Bare(t, m.path)
  PROVE  /\ \A p \in Path \ {m.path, m.to} :
               /\ Changed(t, m)[p] = t[p]
               /\ t[p] # "none" => Sources(m, p) = {} /\ ~Covers(m.path, p)
         /\ \A p \in Path : Covers(m.to, p) /\ p # m.to => t[p] = "none"
         /\ m.path # m.to => Changed(t, m)[m.path] = "none"
         /\ m.path \notin Above(m.to)
  <1>1. m.path \in Path /\ m.to \in Path
    BY DEF Mutation
  <1>2. \A p \in Path : Covers(m.path, p) /\ p # m.path => t[p] = "none"
    BY <1>1, NothingBelow
  <1>3. /\ \A q \in Parents(m.to) : t[q] = "dir"
        /\ t[m.path] # "none"
        /\ IF t[m.path] = "file" THEN t[m.to] # "dir"
           ELSE t[m.to] # "file" /\ Bare(t, m.to) /\ m.path \notin Above(m.to)
    BY DEF Possible
  <1>4. \A p \in Path : Covers(m.to, p) /\ p # m.to => t[p] = "none"
    BY <1>1, <1>3, NothingBelow
  <1>5. m.path \notin Above(m.to)
    BY <1>1, <1>3 DEF Parents
  <1> DEFINE from(q) == Sources(m, q)
             new == [q \in Path |-> IF from(q) # {} THEN t[CHOOSE p \in from(q) : TRUE]
                                    ELSE IF Covers(m.path, q) THEN "none" ELSE t[q]]
  <1>6. Changed(t, m) = new
    BY DEF Changed, Moved
  <1>7. \A q \in Path : from(q) # {} => /\ (CHOOSE p \in from(q) : TRUE) \in from(q)
    OBVIOUS
  <1>8. ASSUME NEW p \in Path \ {m.path, m.to}
        PROVE  new[p] = t[p] /\ (t[p] # "none" => from(p) = {} /\ ~Covers(m.path, p))
    <2>1. CASE from(p) # {}
      <3>1. PICK x \in from(p) : x = CHOOSE y \in from(p) : TRUE
        BY <1>7, <2>1
      <3>2. x \in Path /\ Covers(m.path, x) /\ x # m.path /\ Covers(m.to, p)
        BY <3>1, SourcesAre
      <3>3. t[x] = "none" /\ t[p] = "none"
        BY <1>2, <1>4, <3>2
      <3> QED BY <2>1, <3>1, <3>3
    <2>2. CASE from(p) = {}
      BY <1>2, <2>2
    <2> QED BY <2>1, <2>2
  <1>9. ASSUME m.path # m.to PROVE new[m.path] = "none"
    <2>1. ~Covers(m.to, m.path)
      BY <1>1, <1>3, <1>4, <1>9
    <2>2. from(m.path) = {}
      BY <1>1, <2>1, SourcesAre
    <2> QED BY <1>1, <2>2 DEF Covers
  <1> HIDE DEF new, from
  <1>10. \A p \in Path \ {m.path, m.to} :
            /\ new[p] = t[p]
            /\ t[p] # "none" => Sources(m, p) = {} /\ ~Covers(m.path, p)
    BY <1>8 DEF from
  <1> QED BY <1>4, <1>5, <1>6, <1>9, <1>10

-----------------------------------------------------------------------------
(* Ledgers.                                                                   *)

LedgerOK(L) == L \in Ledger /\ Indexed(L)

-----------------------------------------------------------------------------
(* What each change of the ledger keeps.                                      *)

LEMMA EmptyOK == LedgerOK(EmptyLedger)
  BY DEF LedgerOK, EmptyLedger, Ledger, Indexed, Entry

LEMMA PutOK ==
  ASSUME NEW L, LedgerOK(L), NEW p \in Path, NEW e \in Entry \ {"none"},
         NEW mis \in SUBSET Path, NEW lis \in SUBSET Path,
         L.missing \ {p} \subseteq mis, e = "missing" => p \in mis,
         L.listed \ {p} \subseteq lis, e = "listed" => p \in lis
  PROVE  LedgerOK(Put(L, p, e, mis, lis))
  <1> DEFINE M == Put(L, p, e, mis, lis)
  <1>1. M \in Ledger
    BY DEF LedgerOK, Ledger, Put
  <1>2. \A q \in Path : M.entries[q] = IF q = p THEN e ELSE L.entries[q]
    BY DEF LedgerOK, Ledger, Put
  <1>3. /\ M.all = L.all \cup {p} /\ M.missing = mis /\ M.listed = lis
    BY DEF Put
  <1> HIDE DEF M
  <1>4. M.all = {q \in Path : M.entries[q] # "none"}
    BY <1>2, <1>3 DEF LedgerOK, Indexed
  <1>5. {q \in Path : M.entries[q] = "missing"} \subseteq M.missing
    BY <1>2, <1>3 DEF LedgerOK, Indexed
  <1>6. {q \in Path : M.entries[q] = "listed"} \subseteq M.listed
    BY <1>2, <1>3 DEF LedgerOK, Indexed
  <1>7. LedgerOK(M)
    BY <1>1, <1>4, <1>5, <1>6 DEF LedgerOK, Indexed
  <1> QED BY <1>7 DEF M

LEMMA WithoutOK ==
  ASSUME NEW L, LedgerOK(L), NEW gone, NEW lis \in SUBSET Path,
         L.listed \ gone \subseteq lis
  PROVE  LedgerOK(Without(L, gone, lis))
  BY DEF Without, LedgerOK, Ledger, Indexed, Entry

LEMMA FileOK ==
  ASSUME NEW L, LedgerOK(L), NEW p \in Path
  PROVE  LedgerOK(FilePresent(L, p))
  <1> DEFINE mis == IF L.entries[p] = "missing" THEN L.missing \ {p} ELSE L.missing
             lis == IF L.entries[p] \in Dirs THEN L.listed \ {p} ELSE L.listed
  <1>1. FilePresent(L, p) = Put(L, p, "file", mis, lis)
    BY DEF FilePresent
  <1>2. mis \in SUBSET Path /\ lis \in SUBSET Path
    BY DEF LedgerOK, Ledger
  <1>3. L.missing \ {p} \subseteq mis /\ L.listed \ {p} \subseteq lis
    OBVIOUS
  <1> HIDE DEF mis, lis
  <1> QED BY <1>1, <1>2, <1>3, PutOK DEF Entry

LEMMA DirOK ==
  ASSUME NEW L, LedgerOK(L), NEW p \in Path, NEW seen \in BOOLEAN
  PROVE  LedgerOK(DirPresent(L, p, seen))
  <1> DEFINE e == IF seen \/ L.entries[p] = "listed" THEN "listed" ELSE "dir"
             mis == IF L.entries[p] = "missing" THEN L.missing \ {p} ELSE L.missing
             lis == IF e = "listed" THEN L.listed \cup {p} ELSE L.listed
  <1>1. DirPresent(L, p, seen) = Put(L, p, e, mis, lis)
    BY DEF DirPresent
  <1>2. mis \in SUBSET Path /\ lis \in SUBSET Path
    BY DEF LedgerOK, Ledger
  <1>3. /\ L.missing \ {p} \subseteq mis /\ L.listed \ {p} \subseteq lis
        /\ e = "listed" => p \in lis
    OBVIOUS
  <1>4. e \in {"listed", "dir"}
    OBVIOUS
  <1> HIDE DEF mis, lis, e
  <1> QED BY <1>1, <1>2, <1>3, <1>4, PutOK DEF Entry

LEMMA RemovedOK ==
  ASSUME NEW L, LedgerOK(L), NEW p \in Path
  PROVE  LedgerOK(Removed(L, p))
  <1>1. L.listed \ {p} \in SUBSET Path
    BY DEF LedgerOK, Ledger
  <1> QED BY <1>1, WithoutOK DEF Removed

LEMMA MissingOK ==
  ASSUME NEW L, LedgerOK(L), NEW p \in Path
  PROVE  LedgerOK(Missing(L, p))
  <1>1. CASE \E q \in Above(p) \cap Path : L.entries[q] = "missing"
    <2> DEFINE o == IF L.entries[p] = "missing" THEN L.old \ {p} ELSE L.old
    <2>1. Missing(L, p) = [L EXCEPT !.old = o]
      BY <1>1 DEF Missing
    <2>2. o \subseteq Path
      BY DEF LedgerOK, Ledger
    <2> HIDE DEF o
    <2> QED BY <2>1, <2>2 DEF LedgerOK, Ledger, Indexed
  <1>2. CASE ~\E q \in Above(p) \cap Path : L.entries[q] = "missing"
    <2> DEFINE W == Without(L, Under(L.missing, p), L.listed)
               mis == W.missing \cup {p}
               lis == IF L.entries[p] \in Dirs THEN L.listed \ {p} ELSE L.listed
    <2>1. L.listed \in SUBSET Path
      BY DEF LedgerOK, Ledger
    <2>2. LedgerOK(W)
      BY <2>1, WithoutOK
    <2>3. W.listed = L.listed
      BY DEF Without
    <2>4. Missing(L, p) = Put(W, p, "missing", mis, lis)
      BY <1>2 DEF Missing
    <2> HIDE DEF W
    <2>5. mis \in SUBSET Path /\ lis \in SUBSET Path
      BY <2>1, <2>2 DEF LedgerOK, Ledger
    <2>6. /\ W.missing \ {p} \subseteq mis /\ p \in mis
          /\ W.listed \ {p} \subseteq lis
      BY <2>3
    <2> HIDE DEF mis, lis
    <2> QED BY <2>2, <2>4, <2>5, <2>6, PutOK DEF Entry
  <1> QED BY <1>1, <1>2

LEMMA NotMissingOK ==
  ASSUME NEW L, LedgerOK(L), NEW p \in Path
  PROVE  LedgerOK(NotMissing(L, p))
  <1>1. L.listed \in SUBSET Path
    BY DEF LedgerOK, Ledger
  <1> QED BY <1>1, WithoutOK DEF NotMissing

LEMMA RemovedTreeOK ==
  ASSUME NEW L, LedgerOK(L), NEW p \in Path
  PROVE  LedgerOK(RemovedTree(L, p))
  <1>1. L.listed \ Run(L.all, p) \in SUBSET Path
    BY DEF LedgerOK, Ledger
  <1> QED BY <1>1, WithoutOK DEF RemovedTree

LEMMA RenamedTreeOK ==
  ASSUME NEW L, LedgerOK(L), NEW from \in Path, NEW to \in Path
  PROVE  LedgerOK(RenamedTree(L, from, to))
  <1> DEFINE moved == Run(L.all, from)
             rest == Without(L, moved, L.listed \ moved)
             New(q) == {p \in moved : Reroot(p, from, to) = q}
             came == {q \in Path : New(q) # {}}
             Was(q) == CHOOSE p \in New(q) : TRUE
             of(e) == {q \in came : L.entries[Was(q)] = e}
             es == [q \in Path |-> IF q \in came THEN L.entries[Was(q)]
                                   ELSE rest.entries[q]]
             olds == (rest.old \ came) \cup {q \in came : Was(q) \in L.old}
             R == [entries |-> es, all |-> rest.all \cup came,
                   missing |-> rest.missing \cup of("missing"),
                   listed |-> rest.listed \cup of("listed"), old |-> olds]
  <1>1. RenamedTree(L, from, to) = R
    BY DEF RenamedTree
  <1>2. moved \subseteq L.all
    BY DEF Run, From
  <1>3. LedgerOK(rest)
    <2>1. L.listed \ moved \in SUBSET Path
      BY DEF LedgerOK, Ledger
    <2> HIDE DEF moved
    <2> QED BY <2>1, WithoutOK
  <1>4. \A q \in came : Was(q) \in moved
    <2> TAKE q \in came
    <2>1. New(q) # {}
      OBVIOUS
    <2>2. Was(q) \in New(q)
      BY <2>1
    <2> QED BY <2>2
  <1>5. \A q \in came : L.entries[Was(q)] \in Entry \ {"none"}
    <2> HIDE DEF Was, came, moved
    <2> QED BY <1>2, <1>4 DEF LedgerOK, Ledger, Indexed
  <1>6. came \subseteq Path /\ (\A e : of(e) \subseteq came)
    OBVIOUS
  <1> HIDE DEF moved, New, came, Was, rest
  <1>7. R \in Ledger
    <2>1. es \in [Path -> Entry]
      BY <1>3, <1>5, <1>6 DEF LedgerOK, Ledger
    <2>2. olds \subseteq Path
      BY <1>3, <1>6 DEF LedgerOK, Ledger
    <2>3. /\ rest.all \subseteq Path /\ rest.missing \subseteq Path
          /\ rest.listed \subseteq Path
      BY <1>3 DEF LedgerOK, Ledger
    <2>4. of("missing") \subseteq Path /\ of("listed") \subseteq Path
      BY <1>6
    <2> HIDE DEF es, of, olds
    <2> QED BY <1>6, <2>1, <2>2, <2>3, <2>4 DEF Ledger
  <1>8. Indexed(R)
    <2>1. \A q \in Path : q \in came => es[q] = L.entries[Was(q)]
      OBVIOUS
    <2>2. \A q \in Path : q \notin came => es[q] = rest.entries[q]
      OBVIOUS
    <2>3. R.all = {q \in Path : R.entries[q] # "none"}
      <3>1. \A q \in Path : q \in rest.all <=> rest.entries[q] # "none"
        BY <1>3 DEF LedgerOK, Indexed
      <3>2. rest.all \subseteq Path
        BY <1>3 DEF LedgerOK, Ledger
      <3> HIDE DEF es
      <3> QED BY <1>5, <1>6, <2>1, <2>2, <3>1, <3>2
    <2>4. {q \in Path : R.entries[q] = "missing"} \subseteq R.missing
      <3>1. \A q \in Path : rest.entries[q] = "missing" => q \in rest.missing
        BY <1>3 DEF LedgerOK, Indexed
      <3>2. \A q \in came : L.entries[Was(q)] = "missing" => q \in of("missing")
        OBVIOUS
      <3> HIDE DEF es, of
      <3> QED BY <2>1, <2>2, <3>1, <3>2
    <2>5. {q \in Path : R.entries[q] = "listed"} \subseteq R.listed
      <3>1. \A q \in Path : rest.entries[q] = "listed" => q \in rest.listed
        BY <1>3 DEF LedgerOK, Indexed
      <3>2. \A q \in came : L.entries[Was(q)] = "listed" => q \in of("listed")
        OBVIOUS
      <3> HIDE DEF es, of
      <3> QED BY <2>1, <2>2, <3>1, <3>2
    <2> QED BY <2>3, <2>4, <2>5 DEF Indexed
  <1> QED BY <1>1, <1>7, <1>8 DEF LedgerOK

LEMMA TouchedOK ==
  ASSUME NEW L, LedgerOK(L), NEW p \in Path
  PROVE  LedgerOK(Touched(L, p))
  BY DEF Touched, LedgerOK, Ledger, Indexed

LEMMA AppliedOK ==
  ASSUME NEW L, LedgerOK(L), NEW e \in Event
  PROVE  LedgerOK(Applied(L, e))
  <1> USE DEF Event
  <1>1. e.path \in Path /\ e.to \in Path
    OBVIOUS
  <1>2. CASE e.op = "file"
    BY <1>1, <1>2, FileOK DEF Applied, Dirs
  <1>3. CASE e.op \in Dirs
    BY <1>1, <1>3, DirOK DEF Applied, Dirs
  <1>4. CASE e.op = "missing"
    BY <1>1, <1>4, MissingOK DEF Applied, Dirs
  <1>5. CASE e.op = "change"
    <2>1. LedgerOK(NotMissing(L, e.path))
      BY <1>1, NotMissingOK
    <2> QED BY <1>1, <1>5, <2>1, TouchedOK DEF Applied, Dirs
  <1>6. CASE e.op = "mkdir"
    <2>1. LedgerOK(NotMissing(L, e.path))
      BY <1>1, NotMissingOK
    <2> QED BY <1>1, <1>6, <2>1, DirOK DEF Applied, Dirs
  <1>7. CASE e.op = "unlink"
    BY <1>1, <1>7, RemovedOK DEF Applied, Dirs
  <1>8. CASE e.op = "rmdir"
    BY <1>1, <1>8, RemovedTreeOK DEF Applied, Dirs
  <1>9. CASE e.op = "rename"
    <2>1. LedgerOK(RenamedTree(L, e.path, e.to))
      BY <1>1, RenamedTreeOK
    <2> QED BY <1>1, <1>9, <2>1, NotMissingOK DEF Applied, Dirs
  <1>10. CASE e.op = "hit"
    BY <1>1, <1>10, TouchedOK DEF Applied, Dirs
  <1>11. e.op \in {"file", "dir", "listed", "missing", "change", "mkdir", "unlink",
                   "rmdir", "rename", "hit"}
    OBVIOUS
  <1> QED BY <1>2, <1>3, <1>4, <1>5, <1>6, <1>7, <1>8, <1>9, <1>10, <1>11 DEF Dirs

LEMMA LoadedOK ==
  ASSUME NEW d \in Stored
  PROVE  LedgerOK(Loaded(d)) /\ Loaded(d).all = {p \in Path : Loaded(d).entries[p] # "none"}
  BY DEF Loaded, LedgerOK, Ledger, Stored, Indexed, Entry

LEMMA StoredOK ==
  ASSUME NEW L \in Ledger
  PROVE  toJSON(L) \in Stored
  BY DEF toJSON, Ledger, Stored

LEMMA AgedOK ==
  ASSUME NEW L, LedgerOK(L)
  PROVE  LedgerOK(Aged(L))
  <1>1. L.listed \in SUBSET Path
    BY DEF LedgerOK, Ledger
  <1> QED BY <1>1, WithoutOK DEF Aged

LEMMA PurgedOK ==
  ASSUME NEW d \in Stored
  PROVE  Purged(d) \in Stored
  <1>1. Aged(Loaded(d)) \in Ledger
    BY LoadedOK, AgedOK DEF LedgerOK
  <1> QED BY <1>1, StoredOK DEF Purged

-----------------------------------------------------------------------------
(* What the client answers names paths that exist in the model of its disk.   *)

LEMMA FoundIsEvent ==
  ASSUME NEW p \in Path, NEW op, tree \in [Path -> Kind]
  PROVE  Found(op, p) \in Event \cup {None}
  BY ShallowestIsPath DEF Found, Event, Kind, Exists

-----------------------------------------------------------------------------
(* The inductive invariant is the type and the indices together.              *)

IInv == TypeOK /\ LedgersIndexed

Flush == [pc: {"idle", "waits", "loads", "applies"}, on: Flusher \cup {None},
          todo: Seq(Event), ledger: Ledger, outdated: BOOLEAN]

(* A flush's record is well-formed and its ledger is indexed.                 *)
FlushOK(r) == r \in Flush /\ Indexed(r.ledger)

LEMMA IdleOK ==
  /\ FlushOK(Idle)
  /\ FlushOK([Idle EXCEPT !.pc = "loads"])
  /\ \A f \in Flusher : FlushOK([Idle EXCEPT !.pc = "waits", !.on = f])
  <1>1. EmptyLedger \in Ledger /\ Indexed(EmptyLedger)
    BY EmptyOK DEF LedgerOK
  <1>2. <<>> \in Seq(Event)
    OBVIOUS
  <1> HIDE DEF EmptyLedger
  <1> QED BY <1>1, <1>2 DEF FlushOK, Flush, Idle

LEMMA IdlePC ==
  /\ Idle.pc = "idle"
  /\ [Idle EXCEPT !.pc = "loads"].pc = "loads"
  /\ \A f : [Idle EXCEPT !.pc = "waits", !.on = f].pc = "waits"
  /\ \A f : [Idle EXCEPT !.pc = "waits", !.on = f].on = f
  BY DEF Idle

(* The type of all but the flushes.                                           *)
RestOK ==
    /\ tree \in [Path -> Kind]
    /\ saved \in Stored
    /\ buffer \in [Session -> Seq(Event)]
    /\ flight \in [Session -> Event \cup {None}]
    /\ doing \in [Session -> Mutation \cup {None}]
    /\ inFlight \in [Session -> Flusher \cup {None}]
    /\ closing \in [Session -> Flusher \cup {None}]
    /\ over \subseteq Session
    /\ mishap \subseteq Mishap
    /\ steps \in 0..MaxSteps /\ faults \in 0..MaxFaults

FlushesOK == flusher \in [Flusher -> Flush] /\ \A f \in Flusher : FlushOK(flusher[f])

LEMMA Parts == IInv <=> RestOK /\ FlushesOK
  <1>1. \A f : flusher \in [Flusher -> Flush] /\ f \in Flusher => flusher[f] \in Flush
    OBVIOUS
  <1> QED BY <1>1 DEF IInv, TypeOK, LedgersIndexed, RestOK, FlushesOK, FlushOK, Flush

LEMMA InitOK == Init => IInv
  <1>1. Init => RestOK
    <2>1. toJSON(EmptyLedger) \in Stored
      BY EmptyOK, StoredOK DEF LedgerOK
    <2> QED BY <2>1, FlushBounds DEF Init, RestOK
  <1>2. Init => FlushesOK
    BY IdleOK DEF Init, FlushesOK, FlushOK
  <1> QED BY <1>1, <1>2, Parts

LEMMA NoteOK == \A c, n : n \in Mishap /\ mishap \subseteq Mishap =>
                              mishap \cup Note(c, n) \subseteq Mishap
  BY DEF Note

LEMMA CountOK ==
  ASSUME RestOK
  PROVE  /\ steps + faults < MaxSteps => steps + 1 \in 0..MaxSteps
         /\ faults < MaxFaults => faults + 1 \in 0..MaxFaults
  BY FlushBounds DEF RestOK

LEMMA FinishOK ==
  ASSUME RestOK, FlushesOK, NEW f \in Flusher, NEW written \in BOOLEAN,
         Finish(f, written)
  PROVE  FlushesOK' /\ inFlight' \in [Session -> Flusher \cup {None}]
  <1> DEFINE s == Owner[f]
             waiting == {g \in Flusher : flusher[g].pc = "waits" /\ flusher[g].on = f}
  <1>1. FlushesOK'
    <2>1. \A g \in Flusher :
              FlushOK(IF g = f THEN Idle
                      ELSE IF g \in waiting THEN [Idle EXCEPT !.pc = "loads"]
                      ELSE IF written /\ flusher[g].pc = "applies"
                      THEN [flusher[g] EXCEPT !.outdated = TRUE]
                      ELSE flusher[g])
      <3> TAKE g \in Flusher
      <3>1. FlushOK(flusher[g]) /\ FlushOK(Idle) /\ FlushOK([Idle EXCEPT !.pc = "loads"])
        BY IdleOK DEF FlushesOK
      <3>2. FlushOK([flusher[g] EXCEPT !.outdated = TRUE])
        BY <3>1 DEF FlushOK, Flush
      <3> HIDE DEF waiting
      <3> QED BY <3>1, <3>2
    <2> HIDE DEF waiting
    <2>2. flusher' = [g \in Flusher |->
                         IF g = f THEN Idle
                         ELSE IF g \in waiting THEN [Idle EXCEPT !.pc = "loads"]
                         ELSE IF written /\ flusher[g].pc = "applies"
                         THEN [flusher[g] EXCEPT !.outdated = TRUE]
                         ELSE flusher[g]]
      BY DEF Finish, waiting
    <2> QED BY <2>1, <2>2 DEF FlushesOK, FlushOK
  <1>2. inFlight' \in [Session -> Flusher \cup {None}]
    BY FlushBounds DEF Finish, RestOK
  <1> QED BY <1>1, <1>2

(* The steps that leave the flushes alone.                                    *)
LEMMA QuietStep ==
  ASSUME RestOK, FlushesOK, UNCHANGED flusher
  PROVE  FlushesOK'
  BY DEF FlushesOK, FlushOK

LEMMA SessionStep ==
  ASSUME RestOK, FlushesOK, NEW s \in Session,
         \/ \E a \in Asked[s] : Look(s, a[1], a[2]) \/ Hit(s, a[1], a[2])
         \/ \E m \in Wanted[s] : Begin(s, m)
         \/ Answer(s) \/ Execute(s) \/ Cancel(s) \/ EndSession(s)
  PROVE  RestOK' /\ FlushesOK'
  <1>0. \A e \in Event : \A o \in Session : Append(buffer[o], e) \in Seq(Event)
    BY DEF RestOK
  <1>1. ASSUME NEW a \in Asked[s], Look(s, a[1], a[2])
        PROVE  RestOK' /\ FlushesOK'
    <2>1. a[2] \in Path
      BY FlushBounds
    <2>2. Found(a[1], a[2]) \in Event \cup {None}
      BY <2>1, FoundIsEvent DEF RestOK
    <2>3. "overlap" \in Mishap
      BY DEF Mishap
    <2>4. mishap' \subseteq Mishap
      BY <1>1, <2>3, NoteOK DEF Look, RestOK
    <2>5. steps' \in 0..MaxSteps
      BY <1>1, CountOK DEF Look
    <2> QED BY <1>1, <2>2, <2>4, <2>5, QuietStep DEF Look, RestOK, flushVars
  <1>2. ASSUME NEW a \in Asked[s], Hit(s, a[1], a[2])
        PROVE  RestOK' /\ FlushesOK'
    <2>1. [op |-> "hit", path |-> a[2], to |-> a[2]] \in Event
      BY FlushBounds DEF Event
    <2>2. steps' \in 0..MaxSteps
      BY <1>2, CountOK DEF Hit
    <2> QED BY <1>0, <1>2, <2>1, <2>2, QuietStep DEF Hit, RestOK, flushVars
  <1>3. ASSUME NEW m \in Wanted[s], Begin(s, m)
        PROVE  RestOK' /\ FlushesOK'
    <2>1. m \in Mutation
      BY FlushBounds
    <2>2. m \in Event
      BY <2>1 DEF Mutation, Event
    <2>3. "overlap" \in Mishap
      BY DEF Mishap
    <2>4. mishap' \subseteq Mishap
      BY <1>3, <2>3, NoteOK DEF Begin, RestOK
    <2>5. steps' \in 0..MaxSteps
      BY <1>3, CountOK DEF Begin
    <2> QED BY <1>0, <1>3, <2>1, <2>2, <2>4, <2>5, QuietStep DEF Begin, RestOK, flushVars
  <1>4. CASE Answer(s)
    BY <1>0, <1>4, QuietStep DEF Answer, RestOK, flushVars
  <1>5. CASE Execute(s)
    <2>1. doing[s] \in Mutation
      BY <1>5 DEF Execute, RestOK
    <2>2. tree' \in [Path -> Kind]
      BY <1>5, <2>1, ChangedIsTree DEF Execute, RestOK
    <2>3. mishap' \subseteq Mishap
      BY <1>5 DEF Execute, RestOK, Note, Mishap
    <2> QED BY <1>5, <2>2, <2>3, QuietStep DEF Execute, RestOK, flushVars
  <1>6. CASE Cancel(s)
    <2>1. mishap' \subseteq Mishap
      BY <1>6 DEF Cancel, RestOK, Note, Mishap
    <2>2. faults' \in 0..MaxFaults
      BY <1>6, CountOK DEF Cancel, Trouble
    <2> QED BY <1>6, <2>1, <2>2, QuietStep DEF Cancel, RestOK, flushVars
  <1>7. CASE EndSession(s)
    <2>1. mishap' \subseteq Mishap
      BY <1>7 DEF EndSession, RestOK, Note, Mishap
    <2>2. <<>> \in Seq(Event)
      OBVIOUS
    <2> QED BY <1>7, <2>1, <2>2, QuietStep DEF EndSession, RestOK, flushVars
  <1> QED BY <1>1, <1>2, <1>3, <1>4, <1>5, <1>6, <1>7

LEMMA EnteredOK ==
  ASSUME RestOK, FlushesOK, NEW f \in Flusher
  PROVE  /\ flusher' = Entered(f) => FlushesOK'
         /\ Claimed(f) \in [Session -> Flusher \cup {None}]
  <1>1. Owner[f] \in Session
    BY FlushBounds
  <1>2. Claimed(f) \in [Session -> Flusher \cup {None}]
    BY <1>1 DEF Claimed, RestOK
  <1>3. inFlight[Owner[f]] # None => inFlight[Owner[f]] \in Flusher
    BY <1>1 DEF RestOK
  <1> DEFINE r == IF inFlight[Owner[f]] # None
                  THEN [Idle EXCEPT !.pc = "waits", !.on = inFlight[Owner[f]]]
                  ELSE [Idle EXCEPT !.pc = "loads"]
  <1>4. FlushOK(r)
    BY <1>3, IdleOK
  <1>5. Entered(f) = [flusher EXCEPT ![f] = r]
    BY DEF Entered
  <1> HIDE DEF r
  <1> QED BY <1>2, <1>4, <1>5 DEF FlushesOK, FlushOK

LEMMA FlushStep ==
  ASSUME RestOK, FlushesOK, NEW f \in Flusher,
         \/ FlushCall(f) \/ Shutdown(f) \/ Load(f, TRUE) \/ Load(f, FALSE)
         \/ ApplyOne(f) \/ Write(f) \/ WriteFails(f)
  PROVE  RestOK' /\ FlushesOK'
  <1>0. Owner[f] \in Session
    BY FlushBounds
  <1>1. CASE FlushCall(f)
    BY <1>1, EnteredOK DEF FlushCall, RestOK, sessionVars
  <1>2. CASE Shutdown(f)
    <2>1. faults' \in 0..MaxFaults
      BY <1>2, CountOK DEF Shutdown, Trouble
    <2>2. FlushesOK'
      BY <1>2, EnteredOK, QuietStep DEF Shutdown
    <2>3. inFlight' \in [Session -> Flusher \cup {None}]
      BY <1>2, EnteredOK DEF Shutdown, RestOK
    <2> QED BY <1>0, <1>2, <2>1, <2>2, <2>3 DEF Shutdown, RestOK
  <1>3. ASSUME NEW readable \in BOOLEAN, Load(f, readable)
        PROVE  RestOK' /\ FlushesOK'
    <2> DEFINE d == IF readable THEN saved ELSE toJSON(EmptyLedger)
               r == [pc |-> "applies", on |-> None, todo |-> buffer[Owner[f]],
                     ledger |-> Loaded(d), outdated |-> ~readable]
    <2>1. d \in Stored
      BY EmptyOK, StoredOK DEF LedgerOK, RestOK
    <2>2. Loaded(d) \in Ledger /\ Indexed(Loaded(d))
      BY <2>1, LoadedOK DEF LedgerOK
    <2>3. buffer[Owner[f]] \in Seq(Event)
      BY <1>0 DEF RestOK
    <2>4. flusher' = [flusher EXCEPT ![f] = r]
      BY <1>3 DEF Load
    <2>5. FlushOK(r)
      <3> HIDE DEF d
      <3> QED BY <2>2, <2>3 DEF FlushOK, Flush
    <2>6. FlushesOK'
      <3> HIDE DEF r
      <3> QED BY <2>4, <2>5 DEF FlushesOK, FlushOK
    <2>7. faults' \in 0..MaxFaults
      BY <1>3, CountOK DEF Load, Trouble, RestOK
    <2>8. buffer' \in [Session -> Seq(Event)]
      <3>1. <<>> \in Seq(Event)
        OBVIOUS
      <3> QED BY <1>0, <1>3, <3>1 DEF Load, RestOK
    <2> QED BY <1>3, <2>6, <2>7, <2>8 DEF Load, RestOK
  <1>4. CASE ApplyOne(f)
    <2> DEFINE r == [flusher[f] EXCEPT !.ledger = Applied(flusher[f].ledger, Head(flusher[f].todo)),
                                       !.todo = Tail(flusher[f].todo)]
    <2>1. FlushOK(flusher[f])
      BY DEF FlushesOK
    <2>2. Head(flusher[f].todo) \in Event /\ Tail(flusher[f].todo) \in Seq(Event)
      <3>1. flusher[f].todo \in Seq(Event)
        BY <2>1 DEF FlushOK, Flush
      <3>2. flusher[f].todo # <<>>
        BY <1>4 DEF ApplyOne
      <3> QED BY ONLY <3>1, <3>2, HeadTailProperties
    <2>3. LedgerOK(flusher[f].ledger)
      BY <2>1 DEF FlushOK, Flush, LedgerOK
    <2>4. LedgerOK(Applied(flusher[f].ledger, Head(flusher[f].todo)))
      BY <2>2, <2>3, AppliedOK
    <2>5. FlushOK(r)
      BY <2>1, <2>2, <2>4 DEF FlushOK, Flush, LedgerOK
    <2>6. flusher' = [flusher EXCEPT ![f] = r]
      BY <1>4 DEF ApplyOne
    <2>7. FlushesOK'
      <3> HIDE DEF r
      <3> QED BY <2>5, <2>6 DEF FlushesOK, FlushOK
    <2>8. mishap' \subseteq Mishap
      BY <1>4 DEF ApplyOne, RestOK, Note, Mishap
    <2> QED BY <1>4, <2>7, <2>8 DEF ApplyOne, RestOK, sessionVars
  <1>5. CASE Write(f)
    <2>1. saved' \in Stored
      BY <1>5, StoredOK DEF Write, FlushesOK, FlushOK, Flush
    <2>2. FlushesOK' /\ inFlight' \in [Session -> Flusher \cup {None}]
      BY <1>5, FinishOK DEF Write
    <2>3. mishap' \subseteq Mishap
      BY <1>5 DEF Write, RestOK, Note, Mishap
    <2> QED BY <1>5, <2>1, <2>2, <2>3 DEF Write, RestOK, sessionVars
  <1>6. CASE WriteFails(f)
    <2>1. FlushesOK' /\ inFlight' \in [Session -> Flusher \cup {None}]
      BY <1>6, FinishOK DEF WriteFails
    <2>2. mishap' \subseteq Mishap
      BY <1>6 DEF WriteFails, RestOK, Mishap
    <2>3. faults' \in 0..MaxFaults
      BY <1>6, CountOK DEF WriteFails, Trouble
    <2> QED BY <1>6, <2>1, <2>2, <2>3 DEF WriteFails, RestOK, sessionVars
  <1> QED BY <1>1, <1>2, <1>3, <1>4, <1>5, <1>6

LEMMA OtherStep ==
  ASSUME RestOK, FlushesOK,
         (\E p \in Edited : UserCreates(p) \/ UserRemoves(p)) \/ TimePasses \/ Restart
  PROVE  RestOK' /\ FlushesOK'
  <1>1. ASSUME NEW p \in Edited, UserCreates(p) \/ UserRemoves(p)
        PROVE  RestOK' /\ FlushesOK'
    <2>1. tree' \in [Path -> Kind]
      BY <1>1 DEF UserCreates, UserRemoves, With, RestOK, Kind
    <2>2. faults' \in 0..MaxFaults
      BY <1>1, CountOK DEF UserCreates, UserRemoves, Trouble
    <2>3. mishap' \subseteq Mishap
      BY <1>1 DEF UserCreates, UserRemoves, RestOK, Mishap
    <2> QED BY <1>1, <2>1, <2>2, <2>3, QuietStep
            DEF UserCreates, UserRemoves, RestOK, flushVars, sessionVars
  <1>2. CASE TimePasses
    <2>1. saved' \in Stored
      BY <1>2 DEF TimePasses, RestOK, Stored
    <2>2. faults' \in 0..MaxFaults
      BY <1>2, CountOK DEF TimePasses, Trouble
    <2> QED BY <1>2, <2>1, <2>2, QuietStep DEF TimePasses, RestOK, flushVars, sessionVars
  <1>3. CASE Restart
    <2>1. saved' \in Stored
      BY <1>3, PurgedOK DEF Restart, RestOK
    <2>2. faults' \in 0..MaxFaults
      BY <1>3, CountOK DEF Restart, Trouble
    <2>3. mishap' \subseteq Mishap
      BY <1>3 DEF Restart, RestOK, Note, Mishap
    <2>4. FlushesOK'
      BY <1>3, IdleOK DEF Restart, FlushesOK, FlushOK
    <2>5. <<>> \in Seq(Event)
      OBVIOUS
    <2> QED BY <1>3, <2>1, <2>2, <2>3, <2>4, <2>5 DEF Restart, RestOK
  <1> QED BY <1>1, <1>2, <1>3

LEMMA StepOK == IInv /\ [Next]_vars => IInv'
  <1> SUFFICES ASSUME RestOK, FlushesOK, [Next]_vars
               PROVE  RestOK' /\ FlushesOK'
    BY Parts DEF IInv, TypeOK, LedgersIndexed, RestOK, FlushesOK, FlushOK, Flush
  <1>1. CASE UNCHANGED vars
    BY <1>1, QuietStep DEF vars, flushVars, sessionVars, RestOK
  <1>2. CASE Next
    BY <1>2, SessionStep, FlushStep, OtherStep DEF Next
  <1> QED BY <1>1, <1>2

LEMMA Always == Spec => []IInv
  BY InitOK, StepOK, PTL DEF Spec

-----------------------------------------------------------------------------
(* What is called missing, and what takes it back.                            *)

Claims(e, p) == e.op = "missing" /\ e.path = p

(* An event behind the i-th clears what was said of the path.                 *)
Cleared(es, i, p) == \E j \in DOMAIN es : j > i /\ p \in Creates(es[j])

(* Some events leave the path called missing, whatever they are applied to.   *)
Says(es, p) == \E i \in DOMAIN es : Claims(es[i], p) /\ ~Cleared(es, i, p)

(* Applied to a ledger, they leave it so.                                     *)
Leaves(L, es, p) == Says(es, p) \/ (L.entries[p] = "missing" /\ ~Cleared(es, 0, p))

LEMMA NothingSaid ==
  ASSUME NEW p
  PROVE  /\ ~Says(<<>>, p) /\ ~Cleared(<<>>, 0, p)
         /\ \A L : Leaves(L, <<>>, p) <=> L.entries[p] = "missing"
  BY DEF Says, Cleared, Leaves

LEMMA OneMore ==
  ASSUME NEW es \in Seq(Event), NEW e \in Event, NEW p \in Path
  PROVE  /\ Cleared(Append(es, e), 0, p) <=> Cleared(es, 0, p) \/ p \in Creates(e)
         /\ Says(Append(es, e), p) => \/ Claims(e, p)
                                      \/ Says(es, p) /\ p \notin Creates(e)
  <1> DEFINE fs == Append(es, e)
             n == Len(es)
  <1>1. /\ n \in Nat /\ DOMAIN es = 1..n /\ DOMAIN fs = 1..(n + 1)
        /\ fs[n + 1] = e /\ \A i \in 1..n : fs[i] = es[i]
    OBVIOUS
  <1> HIDE DEF fs, n
  <1>2. Cleared(fs, 0, p) <=> Cleared(es, 0, p) \/ p \in Creates(e)
    <2>1. \A i \in 1..(n + 1) : i > 0 /\ (i \in 1..n \/ i = n + 1)
      BY <1>1
    <2>2. n + 1 \in 1..(n + 1) /\ \A i \in 1..n : i \in 1..(n + 1) /\ i > 0
      BY <1>1
    <2> QED BY <1>1, <2>1, <2>2 DEF Cleared
  <1>3. ASSUME Says(fs, p), ~Claims(e, p)
        PROVE  Says(es, p) /\ p \notin Creates(e)
    <2>1. PICK i \in 1..(n + 1) : Claims(fs[i], p) /\ ~Cleared(fs, i, p)
      BY <1>1, <1>3 DEF Says
    <2>2. i \in 1..n /\ n + 1 > i /\ n + 1 \in 1..(n + 1)
      BY <1>1, <1>3, <2>1
    <2>3. p \notin Creates(e)
      BY <1>1, <2>1, <2>2 DEF Cleared
    <2>4. ~Cleared(es, i, p)
      <3>1. \A j \in 1..n : j \in 1..(n + 1)
        BY <1>1
      <3> QED BY <1>1, <2>1, <3>1 DEF Cleared
    <2> QED BY <1>1, <2>1, <2>2, <2>3, <2>4 DEF Says
  <1> QED BY <1>2, <1>3 DEF fs

(* A path that is called missing after an event was so before it, and the     *)
(* event has not cleared it, or it is what the event says.                    *)
LEMMA AppliedSays ==
  ASSUME NEW L, LedgerOK(L), NEW e \in Event, ~TakesMissing(L, e),
         NEW p \in Path, Applied(L, e).entries[p] = "missing"
  PROVE  Claims(e, p) \/ (L.entries[p] = "missing" /\ p \notin Creates(e))
  <1>1. e.path \in Path /\ e.to \in Path
    BY DEF Event
  <1>2. \A M, gone, lis : Without(M, gone, lis).entries[p]
                             = IF p \in gone THEN "none" ELSE M.entries[p]
    BY DEF Without
  <1>3. \A M, q, k, mis, lis : M.entries \in [Path -> Entry] =>
           Put(M, q, k, mis, lis).entries[p] = IF p = q THEN k ELSE M.entries[p]
    BY DEF Put
  <1>4. L.entries \in [Path -> Entry]
    BY DEF LedgerOK, Ledger
  <1>5. \A gone, lis : L.entries \in [Path -> Entry] =>
           Without(L, gone, lis).entries \in [Path -> Entry]
    BY DEF Without, Entry
  <1>6. \A M, q : NotMissing(M, q).entries[p] = "missing" =>
           M.entries[p] = "missing" /\ ~Covers(p, q)
    BY <1>2 DEF NotMissing
  <1>7. \A M, q : Touched(M, q).entries = M.entries
    BY DEF Touched
  <1>8. CASE e.op \in {"file", "dir", "listed"}
    <2>1. p # e.path => Applied(L, e).entries[p] = L.entries[p]
      BY <1>3, <1>4, <1>8 DEF Applied, FilePresent, DirPresent, Dirs
    <2>2. Applied(L, e).entries[e.path] # "missing"
      BY <1>1, <1>4, <1>8 DEF Applied, FilePresent, DirPresent, Dirs, Put
    <2> QED BY <1>8, <2>1, <2>2 DEF Creates
  <1>9. CASE e.op = "missing"
    <2>1. Applied(L, e) = Missing(L, e.path)
      BY <1>9 DEF Applied, Dirs
    <2>2. Missing(L, e.path).entries[p] = "missing" => L.entries[p] = "missing" \/ p = e.path
      <3>1. CASE \E q \in Above(e.path) \cap Path : L.entries[q] = "missing"
        BY <3>1 DEF Missing
      <3>2. CASE ~\E q \in Above(e.path) \cap Path : L.entries[q] = "missing"
        BY <1>2, <1>3, <1>4, <1>5, <3>2 DEF Missing
      <3> QED BY <3>1, <3>2
    <2> QED BY <1>9, <2>1, <2>2 DEF Claims, Creates
  <1>10. CASE e.op = "change"
    <2>1. Applied(L, e) = Touched(NotMissing(L, e.path), e.path)
      BY <1>10 DEF Applied, Dirs
    <2> QED BY <1>6, <1>7, <1>10, <2>1 DEF Creates
  <1>11. CASE e.op = "mkdir"
    <2>1. Applied(L, e) = DirPresent(NotMissing(L, e.path), e.path, FALSE)
      BY <1>11 DEF Applied, Dirs
    <2>2. NotMissing(L, e.path).entries \in [Path -> Entry]
      BY <1>4, <1>5 DEF NotMissing
    <2>3. NotMissing(L, e.path).entries[p] = "missing"
      BY <1>3, <2>1, <2>2 DEF DirPresent
    <2> QED BY <1>6, <1>11, <2>3 DEF Creates
  <1>12. CASE e.op \in {"unlink", "rmdir"}
    <2>1. PICK gone, lis : Applied(L, e) = Without(L, gone, lis)
      <3>1. CASE e.op = "unlink"
        BY <3>1 DEF Applied, Removed, Dirs
      <3>2. CASE e.op = "rmdir"
        BY <3>2 DEF Applied, RemovedTree, Dirs
      <3> QED BY <1>12, <3>1, <3>2
    <2>2. L.entries[p] = "missing"
      BY <1>2, <2>1
    <2> QED BY <1>12, <2>2 DEF Creates
  <1>13. CASE e.op = "rename"
    <2>1. Applied(L, e) = NotMissing(RenamedTree(L, e.path, e.to), e.to)
      BY <1>13 DEF Applied, Dirs
    <2>2. RenamedTree(L, e.path, e.to).entries[p] = "missing" /\ ~Covers(p, e.to)
      BY <1>6, <2>1
    <2>3. p # e.to
      BY <2>2 DEF Covers
    <2> DEFINE moved == Run(L.all, e.path)
               New(q) == {x \in moved : Reroot(x, e.path, e.to) = q}
               Was(q) == CHOOSE x \in New(q) : TRUE
               rest == Without(L, moved, L.listed \ moved)
    <2>4. RenamedTree(L, e.path, e.to).entries[p]
             = IF New(p) # {} THEN L.entries[Was(p)] ELSE rest.entries[p]
      BY DEF RenamedTree
    <2>5. CASE New(p) # {}
      <3>1. Was(p) \in New(p)
        BY <2>5
      <3>2. PICK x \in moved : Reroot(x, e.path, e.to) = p /\ L.entries[x] = "missing"
        BY <2>2, <2>4, <2>5, <3>1
      <3>3. x = e.path
        BY <1>13, <3>2 DEF TakesMissing
      <3>4. Reroot(e.path, e.path, e.to) = e.to
        <4>1. /\ e.path \in Seq(Name) /\ e.to \in Seq(Name) /\ Len(e.path) \in Nat
          BY <1>1, SelfCovers
        <4>2. SubSeq(e.path, Len(e.path) + 1, Len(e.path)) = <<>>
          BY <4>1
        <4>3. e.to \o <<>> = e.to
          BY <4>1
        <4> QED BY <4>2, <4>3 DEF Reroot
      <3> QED BY <2>3, <3>2, <3>3, <3>4
    <2>6. CASE New(p) = {}
      <3>1. rest.entries[p] = "missing"
        BY <2>2, <2>4, <2>6
      <3> HIDE DEF moved
      <3>2. L.entries[p] = "missing"
        BY <1>2, <3>1
      <3> QED BY <1>13, <2>3, <3>2 DEF Creates
    <2> QED BY <2>5, <2>6
  <1>14. CASE e.op = "hit"
    <2>1. Applied(L, e) = Touched(L, e.path)
      BY <1>14 DEF Applied, Dirs
    <2> QED BY <1>7, <1>14, <2>1 DEF Creates
  <1> QED BY <1>8, <1>9, <1>10, <1>11, <1>12, <1>13, <1>14 DEF Event

LEMMA AppliedLeaves ==
  ASSUME NEW L, LedgerOK(L), NEW es \in Seq(Event), es # <<>>, ~TakesMissing(L, Head(es)),
         NEW p \in Path, Leaves(Applied(L, Head(es)), Tail(es), p)
  PROVE  Leaves(L, es, p)
  <1> DEFINE n == Len(es)
             fs == Tail(es)
  <1>1. /\ n \in Nat \ {0} /\ DOMAIN es = 1..n /\ DOMAIN fs = 1..(n - 1)
        /\ Head(es) = es[1] /\ es[1] \in Event /\ \A i \in 1..(n - 1) : fs[i] = es[i + 1]
    OBVIOUS
  <1> HIDE DEF n, fs
  <1>2. /\ 1 \in 1..n /\ \A i \in 1..(n - 1) : i + 1 \in 1..n /\ i + 1 > 1 /\ i + 1 > 0 /\ i > 0
        /\ \A j \in 1..n : j > 1 => j - 1 \in 1..(n - 1) /\ (j - 1) + 1 = j
        /\ \A j \in 1..n : j = 1 \/ j > 1
    BY <1>1
  <1>3. Cleared(es, 1, p) => Cleared(fs, 0, p)
    <2>1. ASSUME NEW j \in 1..n, j > 1, p \in Creates(es[j])
          PROVE  Cleared(fs, 0, p)
      <3>1. j - 1 \in 1..(n - 1) /\ (j - 1) + 1 = j
        BY <1>2, <2>1
      <3> QED BY <1>1, <1>2, <2>1, <3>1 DEF Cleared
    <2> QED BY <1>1, <2>1 DEF Cleared
  <1>4. CASE Says(fs, p)
    <2>1. PICK i \in 1..(n - 1) : Claims(fs[i], p) /\ ~Cleared(fs, i, p)
      BY <1>1, <1>4 DEF Says
    <2>2. ~Cleared(es, i + 1, p)
      <3>1. ASSUME NEW j \in 1..n, j > i + 1, p \in Creates(es[j])
            PROVE  FALSE
        <4>1. j - 1 \in 1..(n - 1) /\ (j - 1) + 1 = j /\ j - 1 > i
          BY <1>1, <3>1
        <4> QED BY <1>1, <2>1, <3>1, <4>1 DEF Cleared
      <3> QED BY <1>1, <3>1 DEF Cleared
    <2>3. i + 1 \in 1..n /\ Claims(es[i + 1], p)
      BY <1>1, <1>2, <2>1
    <2>4. Says(es, p)
      BY <1>1, <2>2, <2>3 DEF Says
    <2> QED BY <2>4 DEF Leaves
  <1>5. CASE Applied(L, Head(es)).entries[p] = "missing" /\ ~Cleared(fs, 0, p)
    <2>1. ~Cleared(es, 1, p)
      BY <1>3, <1>5
    <2>2. CASE Claims(es[1], p)
      BY <1>1, <1>2, <2>1, <2>2 DEF Says, Leaves
    <2>3. CASE L.entries[p] = "missing" /\ p \notin Creates(es[1])
      <3>1. ~Cleared(es, 0, p)
        BY <1>1, <1>2, <2>1, <2>3 DEF Cleared
      <3> QED BY <2>3, <3>1 DEF Leaves
    <2> QED BY <1>1, <1>5, <2>2, <2>3, AppliedSays
  <1> QED BY <1>4, <1>5 DEF Leaves, fs

LEMMA LoadedSays ==
  ASSUME NEW d \in Stored, NEW p \in Path
  PROVE  /\ Loaded(d).entries[p] = "missing" => d.entries[p] = "missing"
         /\ Purged(d).entries[p] = "missing" => d.entries[p] = "missing"
  <1>1. Loaded(d).entries[p] = "missing" => d.entries[p] = "missing"
    BY DEF Loaded
  <1>2. Aged(Loaded(d)).entries[p] = "missing" => Loaded(d).entries[p] = "missing"
    BY DEF Aged, Without
  <1> QED BY <1>1, <1>2 DEF Purged, toJSON

-----------------------------------------------------------------------------
(* The client's disk.                                                         *)

(* A change makes nothing but what it is said to make, and leaves a tree.     *)
LEMMA ChangeMakes ==
  ASSUME NEW t, t \in [Path -> Kind], IsTree(t), NEW m \in Mutation, Possible(t, m),
         m.op = "rename" => t[m.path] # "dir"
  PROVE  /\ \A p \in Path : Changed(t, m)[p] # "none" => t[p] # "none" \/ p \in Creates(m)
         /\ IsTree(Changed(t, m))
  <1> DEFINE u == Changed(t, m)
  <1>1. m.path \in Path /\ m.to \in Path
    BY DEF Mutation
  <1>2. \A p \in Path : t[p] # "none" => \A q \in Parents(p) : t[q] = "dir"
    BY DEF IsTree
  <1>3. \A p \in Path : \A q \in Parents(p) : q \in Path /\ q # p /\ Covers(q, p)
    BY AboveIs DEF Parents
  <1>4. \A p \in Path : \A q \in Path : Covers(q, p) /\ q # p => q \in Parents(p)
    BY DEF Parents, Covers
  <1>5. CASE m.op \in {"change", "mkdir"}
    <2>1. \A p \in Path : u[p] = IF p = m.path /\ m.op = "change" THEN "file"
                                 ELSE IF Covers(p, m.path) THEN "dir" ELSE t[p]
      <3>1. CASE m.op = "mkdir"
        BY <3>1 DEF Changed, With
      <3>2. CASE m.op = "change"
        <4>1. u = [With(t, Parents(m.path), "dir") EXCEPT ![m.path] = "file"]
          BY <3>2 DEF Changed
        <4>2. \A p \in Path : p # m.path => (p \in Parents(m.path) <=> Covers(p, m.path))
          BY <1>1, <1>3, <1>4
        <4> QED BY <1>1, <3>2, <4>1, <4>2 DEF With
      <3> QED BY <1>5, <3>1, <3>2
    <2> HIDE DEF u
    <2>2. \A p \in Path : Covers(p, m.path) => p \in Creates(m)
      BY <1>5 DEF Creates
    <2>3. Covers(m.path, m.path)
      BY DEF Covers
    <2>4. ASSUME NEW p \in Path, u[p] # "none", NEW q \in Parents(p)
          PROVE  u[q] = "dir"
      <3>1. q \in Path /\ q # p /\ Covers(q, p)
        BY <1>3
      <3>2. CASE Covers(p, m.path)
        <4>1. Covers(q, m.path) /\ q # m.path
          BY <1>1, <3>1, <3>2, CoversOrder
        <4> QED BY <2>1, <3>1, <4>1
      <3>3. CASE ~Covers(p, m.path)
        <4>1. t[p] # "none" /\ t[q] = "dir"
          BY <1>2, <2>1, <2>3, <2>4, <3>3
        <4>2. ~(q = m.path /\ m.op = "change")
          BY <4>1 DEF Possible
        <4> QED BY <2>1, <3>1, <4>1, <4>2
      <3> QED BY <3>2, <3>3
    <2>5. IsTree(u)
      BY <2>4 DEF IsTree
    <2>6. \A p \in Path : u[p] # "none" => t[p] # "none" \/ p \in Creates(m)
      BY <1>1, <2>1, <2>2, <2>3
    <2> QED BY <2>5, <2>6 DEF u
  <1>6. CASE m.op \in {"unlink", "rmdir"}
    <2>1. \A p \in Path : u[p] = IF p = m.path THEN "none" ELSE t[p]
      BY <1>6 DEF Changed, With
    <2>2. \A p \in Path : Covers(m.path, p) /\ p # m.path => t[p] = "none"
      <3>1. t[m.path] # "dir" \/ Bare(t, m.path)
        BY <1>6 DEF Possible
      <3> QED BY <1>1, <3>1, NothingBelow
    <2> HIDE DEF u
    <2>3. IsTree(u)
      BY <1>1, <1>2, <1>3, <2>1, <2>2 DEF IsTree
    <2> QED BY <2>1, <2>3 DEF u
  <1>7. CASE m.op = "rename"
    <2>1. \A p \in Path : Covers(m.path, p) /\ p # m.path => t[p] = "none"
      BY <1>1, <1>7, NothingBelow
    <2>2. Bare(t, m.path)
      BY <1>1, <1>4, <2>1, AboveIs DEF Bare
    <2>3. /\ \A p \in Path \ {m.path, m.to} : u[p] = t[p]
          /\ \A p \in Path : Covers(m.to, p) /\ p # m.to => t[p] = "none"
          /\ m.path # m.to => u[m.path] = "none"
          /\ m.path \notin Above(m.to)
      BY <1>7, <2>2, RenameIsLocal
    <2>4. \A q \in Parents(m.to) : t[q] = "dir" /\ q # m.path
      BY <1>7, <2>3 DEF Possible, Parents
    <2> HIDE DEF u
    <2>5. ASSUME NEW p \in Path, u[p] # "none", NEW q \in Parents(p)
          PROVE  u[q] = "dir"
      <3>1. q \in Path /\ q # p /\ Covers(q, p)
        BY <1>3
      <3>2. CASE p = m.to
        BY <2>3, <2>4, <3>1, <3>2
      <3>3. CASE p # m.to
        <4>1. p # m.path /\ t[p] # "none" /\ t[q] = "dir"
          BY <1>2, <2>3, <2>5, <3>3
        <4>2. q # m.path /\ q # m.to
          BY <2>1, <2>3, <3>1, <4>1
        <4> QED BY <2>3, <3>1, <4>1, <4>2
      <3> QED BY <3>2, <3>3
    <2>6. IsTree(u)
      BY <2>5 DEF IsTree
    <2>7. \A p \in Path : u[p] # "none" => t[p] # "none" \/ p \in Creates(m)
      BY <1>7, <2>3 DEF Creates
    <2> QED BY <2>6, <2>7 DEF u
  <1> QED BY <1>5, <1>6, <1>7 DEF Mutation

-----------------------------------------------------------------------------
(* What the sessions and the ledger say of a path that is there.              *)

(* It is there, or a change that makes it is under way.                       *)
Coming(p) == Exists(p) \/ \E s \in Session : doing[s] # None /\ p \in Creates(doing[s])

(* No answer under way calls it missing, and no session's events do that are  *)
(* still to be applied.                                                       *)
Unsaid(p) == \A s \in Session :
                 /\ flight[s] # None => ~Claims(flight[s], p)
                 /\ ~Says(buffer[s], p)

Applying == {f \in Flusher : flusher[f].pc = "applies"}

(* Flushes that overlap end in a mishap: all but one write over what is newer *)
(* or do not write at all.                                                    *)
Doomed == \/ \E f \in Applying : flusher[f].outdated
          \/ \E f \in Applying : \E g \in Applying : f # g

Owed(p) == \E s \in Session : Cleared(buffer[s], 0, p)

(* If the ledger calls it missing, or will when the flush under way is over,  *)
(* then a session has an event that clears it.                                *)
Settled(p) ==
    /\ \A f \in Applying : Leaves(flusher[f].ledger, flusher[f].todo, p) => Owed(p)
    /\ Applying = {} /\ saved.entries[p] = "missing" => Owed(p)

Honest ==
    /\ IsTree(tree)
    /\ \A p \in Path : Coming(p) => Unsaid(p) /\ (Doomed \/ Settled(p))

(* Until the first mishap.                                                    *)
HInv == mishap = {} => Honest

LEMMA NoMishap == \A c, n : mishap \cup Note(c, n) = {} => mishap = {} /\ ~c
  BY DEF Note

(* A step that leaves the ledger and the running flushes alone, and the disk  *)
(* but for what goes.                                                         *)
LEMMA Undisturbed ==
  ASSUME Honest, IsTree(tree'), UNCHANGED saved, Applying' = Applying,
         \A f \in Applying : flusher'[f] = flusher[f],
         NEW p \in Path, Coming(p), Owed(p) => Owed(p)', Unsaid(p)'
  PROVE  Unsaid(p)' /\ (Doomed' \/ Settled(p)')
  <1>1. Doomed \/ Settled(p)
    BY DEF Honest
  <1>2. Doomed => Doomed'
    BY DEF Doomed
  <1>3. Settled(p) => Settled(p)'
    BY DEF Settled
  <1> QED BY <1>1, <1>2, <1>3

(* An event is noted that calls no path missing that is there.                *)
LEMMA Noted ==
  ASSUME IInv, NEW s \in Session, NEW e \in Event,
         buffer' = [buffer EXCEPT ![s] = Append(@, e)],
         NEW p \in Path
  PROVE  /\ Owed(p) => Owed(p)'
         /\ p \in Creates(e) => Owed(p)'
         /\ \A o \in Session : Says(buffer'[o], p) =>
               \/ (Says(buffer[o], p) /\ (o = s => p \notin Creates(e)))
               \/ o = s /\ Claims(e, p)
  <1>1. \A o \in Session : buffer[o] \in Seq(Event)
    BY DEF IInv, TypeOK
  <1>2. buffer'[s] = Append(buffer[s], e) /\ \A o \in Session \ {s} : buffer'[o] = buffer[o]
    BY DEF IInv, TypeOK
  <1>3. /\ Cleared(buffer'[s], 0, p) <=> Cleared(buffer[s], 0, p) \/ p \in Creates(e)
        /\ Says(buffer'[s], p) => Claims(e, p) \/ (Says(buffer[s], p) /\ p \notin Creates(e))
    <2>1. PICK es \in Seq(Event) : es = buffer[s]
      BY <1>1
    <2>2. /\ Cleared(Append(es, e), 0, p) <=> Cleared(es, 0, p) \/ p \in Creates(e)
          /\ Says(Append(es, e), p) => Claims(e, p) \/ (Says(es, p) /\ p \notin Creates(e))
      BY OneMore
    <2> QED BY <1>2, <2>1, <2>2
  <1> QED BY <1>2, <1>3 DEF Owed

LEMMA HonestSession ==
  ASSUME IInv, HInv, mishap' = {}, NEW s \in Session,
         \/ \E a \in Asked[s] : Look(s, a[1], a[2]) \/ Hit(s, a[1], a[2])
         \/ \E m \in Wanted[s] : Begin(s, m)
         \/ Answer(s) \/ Execute(s) \/ Cancel(s) \/ EndSession(s)
  PROVE  Honest'
  <1>0. /\ buffer \in [Session -> Seq(Event)] /\ flight \in [Session -> Event \cup {None}]
        /\ doing \in [Session -> Mutation \cup {None}] /\ tree \in [Path -> Kind]
    BY DEF IInv, TypeOK
  <1>1. UNCHANGED <<saved, flusher>> /\ mishap = {}
    BY NoMishap DEF Look, Hit, Begin, Answer, Execute, Cancel, EndSession, flushVars, Note
  <1>2. Honest
    BY <1>1 DEF HInv
  <1>3. Applying' = Applying /\ \A f \in Applying : flusher'[f] = flusher[f]
    BY <1>1 DEF Applying
  <1>4. ASSUME NEW a \in Asked[s], Look(s, a[1], a[2])
        PROVE  Honest'
    <2>1. a[2] \in Path
      BY FlushBounds
    <2>2. UNCHANGED <<tree, buffer, doing>>
      BY <1>4 DEF Look
    <2>3. PICK e : e = Found(a[1], a[2]) /\ e # None /\ e \in Event
      BY <1>0, <1>4, <2>1, FoundIsEvent DEF Look
    <2>4. /\ flight'[s] = e /\ \A o \in Session \ {s} : flight'[o] = flight[o]
      BY <1>0, <1>4, <2>3 DEF Look
    <2>5. Denied({e}) \cap UNION {Creates(doing[o]) : o \in {x \in Session : doing[x] # None}} = {}
      BY <1>4, <2>3, NoMishap DEF Look
    <2>6. ASSUME NEW p \in Path, Coming(p), Claims(e, p)
          PROVE  FALSE
      <3>1. p \in Denied({e})
        BY <2>6 DEF Denied, Claims
      <3>2. ~\E o \in Session : doing[o] # None /\ p \in Creates(doing[o])
        BY <2>5, <3>1
      <3>3. ~Exists(p)
        <4>1. ~Exists(a[2]) /\ p = Shallowest(tree, a[2])
          BY <1>0, <2>1, <2>3, <2>6 DEF Found, Claims, Kind
        <4>2. p = a[2] \/ tree[p] = "none"
          BY <2>1, <4>1, ShallowestIsPath
        <4> QED BY <4>1, <4>2 DEF Exists
      <3> QED BY <2>6, <3>2, <3>3 DEF Coming
    <2>7. ASSUME NEW p \in Path, Coming(p)
          PROVE  Unsaid(p)' /\ (Doomed' \/ Settled(p)')
      <3>1. Unsaid(p)
        BY <1>2, <2>7 DEF Honest
      <3>2. Unsaid(p)'
        BY <2>2, <2>4, <2>6, <2>7, <3>1 DEF Unsaid
      <3>3. Owed(p) => Owed(p)'
        BY <2>2 DEF Owed
      <3> QED BY <1>1, <1>2, <1>3, <2>2, <2>7, <3>2, <3>3, Undisturbed DEF Honest
    <2>8. \A p \in Path : Coming(p)' => Coming(p)
      BY <2>2 DEF Coming, Exists
    <2> QED BY <1>2, <2>2, <2>7, <2>8 DEF Honest
  <1>5. ASSUME NEW a \in Asked[s], Hit(s, a[1], a[2])
        PROVE  Honest'
    <2>1. PICK e \in Event : /\ e = [op |-> "hit", path |-> a[2], to |-> a[2]]
                             /\ buffer' = [buffer EXCEPT ![s] = Append(@, e)]
      <3>1. [op |-> "hit", path |-> a[2], to |-> a[2]] \in Event
        BY FlushBounds DEF Event
      <3>2. buffer' = [buffer EXCEPT ![s] = Append(@, [op |-> "hit", path |-> a[2], to |-> a[2]])]
        BY <1>5 DEF Hit
      <3> QED BY ONLY <3>1, <3>2, Zenon
    <2>2. UNCHANGED <<tree, flight, doing>>
      BY <1>5 DEF Hit
    <2>3. ASSUME NEW p \in Path, Coming(p)
          PROVE  Unsaid(p)' /\ (Doomed' \/ Settled(p)')
      <3>1. Unsaid(p) /\ ~Claims(e, p)
        BY <1>2, <2>1, <2>3 DEF Honest, Claims
      <3>2. /\ Owed(p) => Owed(p)'
            /\ \A o \in Session : Says(buffer'[o], p) => Says(buffer[o], p)
        BY <2>1, <3>1, Noted
      <3>3. Unsaid(p)'
        BY <2>2, <3>1, <3>2 DEF Unsaid
      <3> QED BY <1>1, <1>2, <1>3, <2>2, <2>3, <3>2, <3>3, Undisturbed DEF Honest
    <2>4. \A p \in Path : Coming(p)' => Coming(p)
      BY <2>2 DEF Coming, Exists
    <2> QED BY <1>2, <2>2, <2>3, <2>4 DEF Honest
  <1>6. ASSUME NEW m \in Wanted[s], Begin(s, m)
        PROVE  Honest'
    <2>1. m \in Mutation /\ m \in Event /\ m # None
      BY FlushBounds DEF Mutation, Event
    <2>2. /\ UNCHANGED <<tree, flight>> /\ buffer' = [buffer EXCEPT ![s] = Append(@, m)]
          /\ doing' = [doing EXCEPT ![s] = m]
      BY <1>6 DEF Begin
    <2>3. Creates(m) \cap (Denied({flight[o] : o \in {x \in Session : flight[x] # None}})
                           \cup UNION {Denied(InSeq(buffer[o])) : o \in Session \ {s}}) = {}
      BY <1>6, NoMishap DEF Begin
    <2>4. ASSUME NEW p \in Path
          PROVE  /\ Owed(p) => Owed(p)'
                 /\ p \in Creates(m) => Owed(p)'
                 /\ \A o \in Session : Says(buffer'[o], p) =>
                       Says(buffer[o], p) /\ (o = s => p \notin Creates(m))
      <3>1. ~Claims(m, p)
        BY <2>1 DEF Mutation, Claims
      <3> QED BY <2>1, <2>2, <3>1, Noted
    <2>5. ASSUME NEW p \in Creates(m), NEW o \in Session
          PROVE  /\ flight[o] # None => ~Claims(flight[o], p)
                 /\ ~Says(buffer'[o], p)
      <3>0. p \in Path
        BY DEF Creates
      <3>1. ASSUME flight[o] # None, Claims(flight[o], p) PROVE FALSE
        <4>1. flight[o] \in {flight[x] : x \in {y \in Session : flight[y] # None}}
          BY <3>1
        <4>2. p \in Denied({flight[x] : x \in {y \in Session : flight[y] # None}})
          BY <3>1, <4>1 DEF Denied, Claims
        <4> QED BY <2>3, <4>2
      <3>2. ASSUME Says(buffer'[o], p) PROVE FALSE
        <4>1. o # s /\ Says(buffer[o], p)
          BY <2>4, <3>0, <3>2
        <4>2. PICK i \in DOMAIN buffer[o] : Claims(buffer[o][i], p)
          BY <4>1 DEF Says
        <4>3. p \in Denied(InSeq(buffer[o]))
          BY <4>2 DEF Denied, InSeq, Claims
        <4> QED BY <2>3, <4>1, <4>3
      <3> QED BY <3>1, <3>2
    <2>6. ASSUME NEW p \in Path, p \in Creates(m)
          PROVE  Unsaid(p)' /\ (Doomed' \/ Settled(p)')
      BY <2>2, <2>4, <2>5, <2>6 DEF Unsaid, Settled
    <2>7. ASSUME NEW p \in Path, Coming(p)
          PROVE  Unsaid(p)' /\ (Doomed' \/ Settled(p)')
      <3>1. Unsaid(p)
        BY <1>2, <2>7 DEF Honest
      <3>2. Unsaid(p)'
        BY <2>2, <2>4, <3>1 DEF Unsaid
      <3> QED BY <1>1, <1>2, <1>3, <2>2, <2>4, <2>7, <3>2, Undisturbed DEF Honest
    <2>8. \A p \in Path : Coming(p)' => Coming(p) \/ p \in Creates(m)
      BY <1>0, <2>2 DEF Coming, Exists
    <2> QED BY <1>2, <2>2, <2>6, <2>7, <2>8 DEF Honest
  <1>7. CASE Answer(s)
    <2>1. PICK e \in Event : /\ e = flight[s] /\ e # None
                             /\ buffer' = [buffer EXCEPT ![s] = Append(@, e)]
      BY <1>0, <1>7 DEF Answer
    <2>2. UNCHANGED <<tree, doing>> /\ flight' = [flight EXCEPT ![s] = None]
      BY <1>7 DEF Answer
    <2>3. ASSUME NEW p \in Path, Coming(p)
          PROVE  Unsaid(p)' /\ (Doomed' \/ Settled(p)')
      <3>1. Unsaid(p)
        BY <1>2, <2>3 DEF Honest
      <3>2. ~Claims(e, p)
        BY <2>1, <3>1 DEF Unsaid
      <3>3. /\ Owed(p) => Owed(p)'
            /\ \A o \in Session : Says(buffer'[o], p) => Says(buffer[o], p)
        BY <2>1, <3>2, Noted
      <3>4. Unsaid(p)'
        BY <1>0, <2>2, <3>1, <3>3 DEF Unsaid
      <3> QED BY <1>1, <1>2, <1>3, <2>2, <2>3, <3>3, <3>4, Undisturbed DEF Honest
    <2>4. \A p \in Path : Coming(p)' => Coming(p)
      BY <2>2 DEF Coming, Exists
    <2> QED BY <1>2, <2>2, <2>3, <2>4 DEF Honest
  <1>8. CASE Execute(s) \/ Cancel(s)
    <2>1. UNCHANGED <<buffer, flight>> /\ doing' = [doing EXCEPT ![s] = None]
      BY <1>8 DEF Execute, Cancel
    <2>2. /\ IsTree(tree')
          /\ \A p \in Path : tree'[p] # "none" =>
                tree[p] # "none" \/ (doing[s] # None /\ p \in Creates(doing[s]))
      <3>1. CASE tree' = tree
        BY <1>2, <3>1 DEF Honest
      <3>2. CASE tree' # tree
        <4>1. PICK m \in Mutation : m = doing[s]
          BY <1>0, <1>8, <3>2 DEF Execute, Cancel
        <4>2. Possible(tree, m) /\ tree' = Changed(tree, m)
          BY <1>8, <3>2, <4>1 DEF Execute, Cancel
        <4>3. m.op = "rename" => tree[m.path] # "dir"
          BY <1>8, <3>2, <4>1, <4>2 DEF Execute, Cancel, Note
        <4>4. IsTree(tree)
          BY <1>2 DEF Honest
        <4>5. doing[s] # None
          BY <1>8 DEF Execute, Cancel
        <4> QED BY <1>0, <4>1, <4>2, <4>3, <4>4, <4>5, ChangeMakes
      <3> QED BY <3>1, <3>2
    <2>3. ASSUME NEW p \in Path, Coming(p)
          PROVE  Unsaid(p)' /\ (Doomed' \/ Settled(p)')
      <3>1. Unsaid(p)
        BY <1>2, <2>3 DEF Honest
      <3>2. Unsaid(p)' /\ (Owed(p) => Owed(p)')
        BY <2>1, <3>1 DEF Unsaid, Owed
      <3> QED BY <1>1, <1>2, <1>3, <2>2, <2>3, <3>2, Undisturbed
    <2>4. \A p \in Path : Coming(p)' => Coming(p)
      BY <1>0, <2>1, <2>2 DEF Coming, Exists
    <2> QED BY <2>2, <2>3, <2>4 DEF Honest
  <1>9. CASE EndSession(s)
    <2>1. /\ UNCHANGED <<tree, doing>> /\ flight' = [flight EXCEPT ![s] = None]
          /\ buffer' = [buffer EXCEPT ![s] = <<>>]
      BY <1>9 DEF EndSession
    <2>2. buffer[s] = <<>>
      BY <1>9, NoMishap DEF EndSession
    <2>3. \A o \in Session : buffer'[o] = buffer[o]
      BY <1>0, <2>1, <2>2
    <2>4. ASSUME NEW p \in Path, Coming(p)
          PROVE  Unsaid(p)' /\ (Doomed' \/ Settled(p)')
      <3>1. Unsaid(p)
        BY <1>2, <2>4 DEF Honest
      <3>2. Unsaid(p)' /\ (Owed(p) => Owed(p)')
        BY <1>0, <2>1, <2>3, <3>1 DEF Unsaid, Owed
      <3> QED BY <1>1, <1>2, <1>3, <2>1, <2>4, <3>2, Undisturbed DEF Honest
    <2>5. \A p \in Path : Coming(p)' => Coming(p)
      BY <2>1 DEF Coming, Exists
    <2> QED BY <1>2, <2>1, <2>4, <2>5 DEF Honest
  <1> QED BY <1>4, <1>5, <1>6, <1>7, <1>8, <1>9

LEMMA HonestFlush ==
  ASSUME IInv, HInv, mishap' = {}, NEW f \in Flusher,
         \/ FlushCall(f) \/ Shutdown(f) \/ Load(f, TRUE) \/ Load(f, FALSE)
         \/ ApplyOne(f) \/ Write(f) \/ WriteFails(f)
  PROVE  Honest'
  <1>0. /\ buffer \in [Session -> Seq(Event)] /\ flusher \in [Flusher -> Flush]
        /\ saved \in Stored /\ Owner[f] \in Session
        /\ \A g \in Flusher : LedgerOK(flusher[g].ledger)
    <2>1. FlushesOK /\ RestOK
      BY Parts
    <2> QED BY <2>1, FlushBounds DEF FlushesOK, FlushOK, Flush, RestOK, LedgerOK
  <1>1. UNCHANGED <<tree, flight, doing>> /\ mishap = {} /\ ~WriteFails(f)
    BY NoMishap DEF FlushCall, Shutdown, Load, ApplyOne, Write, WriteFails, sessionVars
  <1>2. Honest
    BY <1>1 DEF HInv
  <1>3. \A p \in Path : Coming(p)' => Coming(p)
    BY <1>1 DEF Coming, Exists
  <1>4. Honest' <=> \A p \in Path : Coming(p)' => Unsaid(p)' /\ (Doomed' \/ Settled(p)')
    BY <1>1, <1>2 DEF Honest
  <1>5. CASE FlushCall(f) \/ Shutdown(f)
    <2>1. UNCHANGED <<saved, buffer>>
      BY <1>5 DEF FlushCall, Shutdown, sessionVars
    <2>2. flusher[f].pc = "idle" /\ flusher' \in {flusher, Entered(f)}
      BY <1>5 DEF FlushCall, Shutdown
    <2>3. \A g \in Flusher : g # f => flusher'[g] = flusher[g]
      BY <1>0, <2>2 DEF Entered
    <2>4. flusher'[f].pc # "applies"
      BY <1>0, <2>2, IdlePC DEF Entered
    <2>5. Applying' = Applying /\ \A g \in Applying : flusher'[g] = flusher[g]
      BY <2>2, <2>3, <2>4 DEF Applying
    <2>6. ASSUME NEW p \in Path, Coming(p)
          PROVE  Unsaid(p)' /\ (Doomed' \/ Settled(p)')
      <3>1. Unsaid(p)
        BY <1>2, <2>6 DEF Honest
      <3>2. Unsaid(p)' /\ (Owed(p) => Owed(p)')
        BY <1>1, <2>1, <3>1 DEF Unsaid, Owed
      <3> QED BY <1>1, <1>2, <2>1, <2>5, <2>6, <3>2, Undisturbed DEF Honest
    <2> QED BY <1>3, <1>4, <2>6
  <1>6. ASSUME NEW readable \in BOOLEAN, Load(f, readable)
        PROVE  Honest'
    <2> DEFINE s == Owner[f]
    <2>1. /\ UNCHANGED saved /\ buffer' = [buffer EXCEPT ![s] = <<>>]
          /\ flusher[f].pc = "loads"
      BY <1>6 DEF Load
    <2>2. /\ flusher'[f].pc = "applies" /\ flusher'[f].todo = buffer[s]
          /\ readable => flusher'[f].ledger = Loaded(saved)
          /\ flusher'[f].outdated = ~readable
      BY <1>0, <1>6 DEF Load
    <2>3. \A g \in Flusher : g # f => flusher'[g] = flusher[g]
      BY <1>0, <1>6 DEF Load
    <2>4. Applying' = Applying \cup {f} /\ f \notin Applying
      BY <2>1, <2>2, <2>3 DEF Applying
    <2>5. ASSUME NEW p \in Path, Coming(p)
          PROVE  Unsaid(p)' /\ (Doomed' \/ Settled(p)')
      <3>1. Unsaid(p)
        BY <1>2, <2>5 DEF Honest
      <3>2. buffer'[s] = <<>> /\ \A o \in Session : o # s => buffer'[o] = buffer[o]
        BY <1>0, <2>1
      <3>3. Unsaid(p)'
        BY <1>1, <3>1, <3>2, NothingSaid DEF Unsaid
      <3>4. CASE Applying # {} \/ ~readable
        BY <2>2, <2>4, <3>3, <3>4 DEF Doomed
      <3>5. CASE Applying = {} /\ readable
        <4>1. Settled(p)
          BY <1>2, <2>5, <3>5 DEF Honest, Doomed
        <4>2. ASSUME Leaves(flusher'[f].ledger, flusher'[f].todo, p)
              PROVE  Owed(p)'
          <5>1. saved.entries[p] = "missing" /\ ~Cleared(buffer[s], 0, p)
            BY <1>0, <2>2, <3>1, <3>5, <4>2, LoadedSays DEF Leaves, Unsaid
          <5>2. PICK o \in Session : Cleared(buffer[o], 0, p)
            BY <3>5, <4>1, <5>1 DEF Settled, Owed
          <5> QED BY <3>2, <5>1, <5>2 DEF Owed
        <4>3. Settled(p)'
          BY <2>4, <3>5, <4>2 DEF Settled
        <4> QED BY <3>3, <4>3
      <3> QED BY <3>4, <3>5
    <2> QED BY <1>3, <1>4, <2>5
  <1>7. CASE ApplyOne(f)
    <2> DEFINE r == flusher[f]
    <2>1. r.pc = "applies" /\ r.todo # <<>> /\ r.todo \in Seq(Event) /\ UNCHANGED <<saved, buffer>>
      BY <1>0, <1>7 DEF ApplyOne, sessionVars, Flush
    <2>2. /\ flusher'[f].pc = "applies" /\ flusher'[f].outdated = r.outdated
          /\ flusher'[f].todo = Tail(r.todo)
          /\ flusher'[f].ledger = Applied(r.ledger, Head(r.todo))
      BY <1>0, <1>7 DEF ApplyOne, Flush
    <2>3. \A g \in Flusher : g # f => flusher'[g] = flusher[g]
      BY <1>0, <1>7 DEF ApplyOne
    <2>4. ~TakesMissing(r.ledger, Head(r.todo))
      BY <1>7, NoMishap DEF ApplyOne
    <2>5. Applying' = Applying /\ f \in Applying
      BY <2>1, <2>2, <2>3 DEF Applying
    <2>6. ASSUME NEW p \in Path, Coming(p)
          PROVE  Unsaid(p)' /\ (Doomed' \/ Settled(p)')
      <3>1. Unsaid(p) /\ (Doomed \/ Settled(p))
        BY <1>2, <2>6 DEF Honest
      <3>2. Unsaid(p)' /\ (Owed(p) => Owed(p)')
        BY <1>1, <2>1, <3>1 DEF Unsaid, Owed
      <3>3. Doomed => Doomed'
        BY <2>2, <2>3, <2>5 DEF Doomed
      <3>4. \A g \in Applying : Leaves(flusher'[g].ledger, flusher'[g].todo, p)
                                  => Leaves(flusher[g].ledger, flusher[g].todo, p)
        <4>1. PICK L, es : L = r.ledger /\ es = r.todo
          OBVIOUS
        <4>2. Leaves(Applied(L, Head(es)), Tail(es), p) => Leaves(L, es, p)
          BY <1>0, <2>1, <2>4, <4>1, AppliedLeaves
        <4>3. flusher'[f].ledger = Applied(L, Head(es)) /\ flusher'[f].todo = Tail(es)
          BY <2>2, <4>1
        <4>4. \A g \in Applying : g # f => flusher'[g] = flusher[g]
          BY <2>3 DEF Applying
        <4> QED BY ONLY <4>1, <4>2, <4>3, <4>4
      <3>5. Settled(p) => Settled(p)'
        BY <2>5, <3>2, <3>4 DEF Settled
      <3> QED BY <3>1, <3>2, <3>3, <3>5
    <2> QED BY <1>3, <1>4, <2>6
  <1>8. CASE Write(f)
    <2>1. /\ flusher[f].pc = "applies" /\ flusher[f].todo = <<>> /\ ~flusher[f].outdated
          /\ saved' = toJSON(flusher[f].ledger) /\ UNCHANGED buffer
      BY <1>8, NoMishap DEF Write, sessionVars
    <2>2. f \in Applying
      BY <2>1 DEF Applying
    <2>3. flusher'[f].pc = "idle"
      BY <1>8, IdlePC DEF Write, Finish
    <2>4. ASSUME NEW g \in Flusher, g # f
          PROVE  IF g \in Applying THEN flusher'[g].pc = "applies" /\ flusher'[g].outdated
                 ELSE flusher'[g].pc # "applies"
      <3> DEFINE waiting == {x \in Flusher : flusher[x].pc = "waits" /\ flusher[x].on = f}
      <3>1. flusher'[g] = IF g \in waiting THEN [Idle EXCEPT !.pc = "loads"]
                          ELSE IF flusher[g].pc = "applies"
                          THEN [flusher[g] EXCEPT !.outdated = TRUE] ELSE flusher[g]
        BY <1>8, <2>4 DEF Write, Finish
      <3>2. flusher[g] \in Flush
        BY <1>0
      <3>3. CASE g \in Applying
        <4>1. g \notin waiting /\ flusher[g].pc = "applies"
          BY <3>3 DEF Applying
        <4>2. flusher'[g] = [flusher[g] EXCEPT !.outdated = TRUE]
          BY <3>1, <4>1
        <4> QED BY <3>2, <3>3, <4>1, <4>2 DEF Flush
      <3>4. CASE g \notin Applying
        BY <3>1, <3>4, IdlePC DEF Applying
      <3> QED BY <3>3, <3>4
    <2>5. ASSUME NEW p \in Path, Coming(p)
          PROVE  Unsaid(p)' /\ (Doomed' \/ Settled(p)')
      <3>1. Unsaid(p) /\ (Doomed \/ Settled(p))
        BY <1>2, <2>5 DEF Honest
      <3>2. Unsaid(p)' /\ (Owed(p) => Owed(p)')
        BY <1>1, <2>1, <3>1 DEF Unsaid, Owed
      <3>3. ASSUME NEW g \in Applying, g # f
            PROVE  Doomed'
        <4>1. g \in Applying' /\ flusher'[g].outdated
          BY <2>4, <3>3 DEF Applying
        <4> QED BY <4>1 DEF Doomed
      <3>4. CASE Applying = {f}
        <4>1. Applying' = {}
          BY <2>3, <2>4, <3>4 DEF Applying
        <4>2. Settled(p)
          BY <2>1, <3>1, <3>4 DEF Doomed
        <4>3. saved'.entries[p] = "missing" => Leaves(flusher[f].ledger, flusher[f].todo, p)
          BY <2>1, NothingSaid DEF toJSON
        <4>4. Settled(p)'
          BY <2>2, <3>2, <4>1, <4>2, <4>3 DEF Settled
        <4> QED BY <3>2, <4>4
      <3> QED BY <2>2, <3>2, <3>3, <3>4
    <2> QED BY <1>3, <1>4, <2>5
  <1> QED BY <1>1, <1>5, <1>6, <1>7, <1>8

LEMMA HonestOther ==
  ASSUME IInv, HInv, mishap' = {},
         (\E p \in Edited : UserCreates(p) \/ UserRemoves(p)) \/ TimePasses \/ Restart
  PROVE  Honest'
  <1>0. tree \in [Path -> Kind] /\ saved \in Stored /\ buffer \in [Session -> Seq(Event)]
    BY DEF IInv, TypeOK
  <1>1. mishap = {} /\ UNCHANGED doing
    BY NoMishap DEF UserCreates, UserRemoves, TimePasses, Restart, sessionVars
  <1>2. Honest
    BY <1>1 DEF HInv
  <1>3. ASSUME NEW q \in Edited, UserRemoves(q)
        PROVE  Honest'
    <2>1. q \in Path /\ tree[q] = "file" /\ UNCHANGED <<saved, flusher, buffer, flight>>
      BY <1>3, FlushBounds DEF UserRemoves, flushVars, sessionVars
    <2>2. \A p \in Path : tree'[p] = IF p = q THEN "none" ELSE tree[p]
      BY <1>3 DEF UserRemoves, With
    <2>3. IsTree(tree')
      <3>1. \A p \in Path : Covers(q, p) /\ q # p => tree[p] = "none"
        BY <1>2, <2>1, NothingBelow DEF Honest
      <3>2. \A p \in Path : \A x \in Parents(p) : x \in Path /\ x # p /\ Covers(x, p)
        BY AboveIs DEF Parents
      <3> QED BY <1>2, <2>2, <3>1, <3>2 DEF IsTree, Honest
    <2>4. Applying' = Applying /\ \A f \in Applying : flusher'[f] = flusher[f]
      BY <2>1 DEF Applying
    <2>5. ASSUME NEW p \in Path, Coming(p)
          PROVE  Unsaid(p)' /\ (Doomed' \/ Settled(p)')
      <3>1. Unsaid(p)
        BY <1>2, <2>5 DEF Honest
      <3>2. Unsaid(p)' /\ (Owed(p) => Owed(p)')
        BY <2>1, <3>1 DEF Unsaid, Owed
      <3> QED BY <1>2, <2>1, <2>3, <2>4, <2>5, <3>2, Undisturbed
    <2>6. \A p \in Path : Coming(p)' => Coming(p)
      BY <1>1, <2>1, <2>2 DEF Coming, Exists
    <2> QED BY <2>3, <2>5, <2>6 DEF Honest
  <1>4. ASSUME NEW q \in Edited, UserCreates(q)
        PROVE  FALSE
    BY <1>4 DEF UserCreates
  <1>5. CASE TimePasses
    <2>1. UNCHANGED <<tree, flusher, buffer, flight>> /\ saved'.entries = saved.entries
      BY <1>0, <1>5 DEF TimePasses, flushVars, sessionVars, Stored
    <2>2. Applying' = Applying
      BY <2>1 DEF Applying
    <2>3. \A p \in Path : /\ Coming(p)' => Coming(p)
                          /\ Unsaid(p) => Unsaid(p)'
                          /\ Owed(p) => Owed(p)'
      BY <1>1, <2>1 DEF Coming, Exists, Unsaid, Owed
    <2>4. \A p \in Path : (Doomed => Doomed') /\ (Settled(p) => Settled(p)')
      BY <2>1, <2>2, <2>3 DEF Doomed, Settled
    <2> QED BY <1>2, <2>1, <2>3, <2>4 DEF Honest
  <1>6. CASE Restart
    <2>1. /\ UNCHANGED tree /\ buffer' = [s \in Session |-> <<>>]
          /\ flight' = [s \in Session |-> None] /\ saved' = Purged(saved)
          /\ flusher' = [f \in Flusher |-> Idle]
      BY <1>6 DEF Restart
    <2>2. /\ \A s \in Session : buffer[s] = <<>>
          /\ \A f \in Flusher : flusher[f].pc # "applies"
      BY <1>6, NoMishap DEF Restart
    <2>3. Applying = {} /\ Applying' = {}
      BY <2>1, <2>2, IdlePC DEF Applying
    <2>4. ASSUME NEW p \in Path, Coming(p)
          PROVE  Unsaid(p)' /\ Settled(p)'
      <3>1. Settled(p)
        BY <1>2, <2>3, <2>4 DEF Honest, Doomed
      <3>2. ~Owed(p)
        BY <2>2, NothingSaid DEF Owed
      <3>3. saved'.entries[p] # "missing"
        BY <1>0, <2>1, <2>3, <3>1, <3>2, LoadedSays DEF Settled
      <3>4. Settled(p)'
        BY <2>3, <3>3 DEF Settled
      <3>5. Unsaid(p)'
        BY <2>1, NothingSaid DEF Unsaid
      <3> QED BY <3>4, <3>5
    <2>5. \A p \in Path : Coming(p)' => Coming(p)
      BY <1>1, <2>1 DEF Coming, Exists
    <2> QED BY <1>2, <2>1, <2>4, <2>5 DEF Honest
  <1> QED BY <1>3, <1>4, <1>5, <1>6

LEMMA HInvStep == IInv /\ HInv /\ [Next]_vars => HInv'
  <1> SUFFICES ASSUME IInv, HInv, [Next]_vars, mishap' = {}
               PROVE  Honest'
    BY DEF HInv
  <1>1. CASE UNCHANGED vars
    <2>1. UNCHANGED <<tree, saved, flusher, buffer, flight, doing, mishap>>
      BY <1>1 DEF vars, flushVars, sessionVars
    <2>2. Honest
      BY <2>1 DEF HInv
    <2>3. Honest' = Honest
      BY <2>1 DEF Honest, Coming, Exists, Unsaid, Doomed, Settled, Owed, Applying
    <2> QED BY <2>2, <2>3
  <1>2. CASE Next
    BY <1>2, HonestSession, HonestFlush, HonestOther DEF Next
  <1> QED BY <1>1, <1>2

LEMMA HInvInit == Init => HInv
  <1> SUFFICES ASSUME Init PROVE Honest
    BY DEF HInv
  <1>1. IsTree(tree)
    BY FlushBounds DEF Init
  <1>2. Applying = {}
    BY IdlePC DEF Init, Applying
  <1>3. ASSUME NEW p \in Path
        PROVE  Unsaid(p) /\ Settled(p)
    <2>1. saved.entries[p] # "missing"
      BY DEF Init, toJSON, EmptyLedger
    <2> QED BY <1>2, <2>1, NothingSaid DEF Init, Unsaid, Settled
  <1> QED BY <1>1, <1>3 DEF Honest

(* Once all is written, no path that is on the client's disk is called        *)
(* missing by the ledger, whatever the sessions have looked for, created,     *)
(* renamed and removed in whatever order their flushes ran, until the first   *)
(* of the mishaps.                                                            *)
THEOREM NothingIsHidden == Spec => []NothingHidden
  <1>1. IInv /\ HInv => NothingHidden
    <2> SUFFICES ASSUME HInv, AtRest, mishap = {},
                        NEW p \in Path, saved.entries[p] = "missing", Exists(p)
                 PROVE  FALSE
      BY DEF NothingHidden
    <2>1. Applying = {} /\ \A s \in Session : buffer[s] = <<>>
      BY DEF AtRest, Applying
    <2>2. Coming(p) /\ ~Doomed /\ ~Owed(p)
      BY <2>1, NothingSaid DEF Coming, Doomed, Owed
    <2>3. Settled(p)
      BY <2>2 DEF HInv, Honest
    <2> QED BY <2>1, <2>2, <2>3 DEF Settled
  <1>2. Init => IInv /\ HInv
    BY InitOK, HInvInit
  <1>3. (IInv /\ HInv) /\ [Next]_vars => (IInv /\ HInv)'
    BY StepOK, HInvStep
  <1> QED BY <1>1, <1>2, <1>3, PTL DEF Spec

-----------------------------------------------------------------------------
(* Who waits for whom.                                                        *)

ClaimsRun == \A s \in Session : inFlight[s] # None =>
                 flusher[inFlight[s]].pc \in Running /\ Owner[inFlight[s]] = s

WaitsForOwn == \A f \in Flusher : flusher[f].pc = "waits" =>
                   Owner[flusher[f].on] = Owner[f]

WInv == WaitersAreWoken /\ ClaimsRun /\ WaitsForOwn

LEMMA EnteredWakes ==
  ASSUME RestOK, FlushesOK, WInv, NEW f \in Flusher, flusher[f].pc = "idle",
         flusher' = Entered(f), inFlight' = Claimed(f)
  PROVE  WInv'
  <1> DEFINE s == Owner[f]
             r == IF inFlight[s] # None
                  THEN [Idle EXCEPT !.pc = "waits", !.on = inFlight[s]]
                  ELSE [Idle EXCEPT !.pc = "loads"]
  <1>0. s \in Session
    BY FlushBounds
  <1>1. flusher' = [flusher EXCEPT ![f] = r]
    BY DEF Entered
  <1>2. inFlight' = IF inFlight[s] = None THEN [inFlight EXCEPT ![s] = f] ELSE inFlight
    BY DEF Claimed
  <1>3. /\ inFlight[s] = None => r.pc = "loads"
        /\ inFlight[s] # None => r.pc = "waits" /\ r.on = inFlight[s]
    BY IdlePC
  <1>4. /\ flusher \in [Flusher -> Flush]
        /\ inFlight \in [Session -> Flusher \cup {None}]
    BY DEF FlushesOK, RestOK
  <1>5. "idle" \notin Running /\ "loads" \in Running /\ "waits" \notin Running
    BY DEF Running
  <1> HIDE DEF r
  <1>6. WaitersAreWoken'
    <2> SUFFICES ASSUME NEW g \in Flusher, flusher'[g].pc = "waits"
                 PROVE  /\ flusher'[g].on \in Flusher
                        /\ flusher'[flusher'[g].on].pc \in Running
      BY DEF WaitersAreWoken
    <2>1. CASE g = f
      <3>1. flusher'[g] = r /\ inFlight[s] # None
        BY <1>1, <1>3, <1>4, <2>1
      <3>2. r.on \in Flusher /\ flusher[r.on].pc \in Running /\ r.on # f
        BY <1>0, <1>3, <1>4, <1>5, <3>1 DEF WInv, ClaimsRun
      <3> QED BY <1>1, <1>4, <3>1, <3>2
    <2>2. CASE g # f
      <3>1. flusher'[g] = flusher[g]
        BY <1>1, <1>4, <2>2
      <3>2. flusher[g].on \in Flusher /\ flusher[flusher[g].on].pc \in Running
        BY <3>1 DEF WInv, WaitersAreWoken
      <3>3. flusher[g].on # f
        BY <1>5, <3>2
      <3> QED BY <1>1, <1>4, <3>1, <3>2, <3>3
    <2> QED BY <2>1, <2>2
  <1>7. ClaimsRun'
    <2> SUFFICES ASSUME NEW o \in Session, inFlight'[o] # None
                 PROVE  /\ flusher'[inFlight'[o]].pc \in Running
                        /\ Owner[inFlight'[o]] = o
      BY DEF ClaimsRun
    <2>1. CASE o = s /\ inFlight'[o] = f /\ inFlight[s] = None
      BY <1>1, <1>3, <1>4, <1>5, <2>1
    <2>2. CASE inFlight'[o] = inFlight[o]
      <3>1. /\ inFlight[o] \in Flusher /\ flusher[inFlight[o]].pc \in Running
            /\ Owner[inFlight[o]] = o
        BY <1>4, <2>2 DEF WInv, ClaimsRun
      <3>2. inFlight[o] # f
        BY <1>5, <3>1
      <3> QED BY <1>1, <1>4, <2>2, <3>1, <3>2
    <2> QED BY <1>0, <1>2, <1>4, <2>1, <2>2
  <1>8. WaitsForOwn'
    <2> SUFFICES ASSUME NEW g \in Flusher, flusher'[g].pc = "waits"
                 PROVE  Owner[flusher'[g].on] = Owner[g]
      BY DEF WaitsForOwn
    <2>1. CASE g = f
      <3>1. flusher'[g] = r /\ inFlight[s] # None
        BY <1>1, <1>3, <1>4, <2>1
      <3>2. r.on = inFlight[s] /\ Owner[inFlight[s]] = s
        BY <1>0, <1>3, <3>1 DEF WInv, ClaimsRun
      <3> QED BY <2>1, <3>1, <3>2
    <2>2. CASE g # f
      <3>1. flusher'[g] = flusher[g]
        BY <1>1, <1>4, <2>2
      <3> QED BY <3>1 DEF WInv, WaitsForOwn
    <2> QED BY <2>1, <2>2
  <1> QED BY <1>6, <1>7, <1>8 DEF WInv

LEMMA FinishWakes ==
  ASSUME RestOK, FlushesOK, WInv, NEW f \in Flusher, NEW written \in BOOLEAN,
         flusher[f].pc \in Running, Finish(f, written)
  PROVE  WInv'
  <1> DEFINE s == Owner[f]
             waiting == {g \in Flusher : flusher[g].pc = "waits" /\ flusher[g].on = f}
             Mark(g) == IF written /\ flusher[g].pc = "applies"
                        THEN [flusher[g] EXCEPT !.outdated = TRUE] ELSE flusher[g]
  <1>0. s \in Session /\ flusher \in [Flusher -> Flush]
        /\ inFlight \in [Session -> Flusher \cup {None}]
    BY FlushBounds DEF FlushesOK, RestOK
  <1>1. \A g \in Flusher : Mark(g).pc = flusher[g].pc /\ Mark(g).on = flusher[g].on
    BY <1>0 DEF Flush
  <1>2. \A g \in Flusher :
            /\ g = f => flusher'[g] = Idle
            /\ g # f /\ g \in waiting => flusher'[g] = [Idle EXCEPT !.pc = "loads"]
            /\ g # f /\ g \notin waiting => flusher'[g] = Mark(g)
    BY DEF Finish
  <1>3. f \notin waiting
    BY DEF Running
  <1> HIDE DEF Mark
  <1>4. \A g \in Flusher :
            /\ g \in waiting => flusher'[g].pc = "loads"
            /\ g # f /\ g \notin waiting => /\ flusher'[g].pc = flusher[g].pc
                                          /\ flusher'[g].on = flusher[g].on
            /\ flusher'[f].pc = "idle"
    <2> HIDE DEF waiting
    <2> QED BY <1>1, <1>2, <1>3, IdlePC
  <1>5. \A g \in Flusher : g # f /\ flusher[g].pc \in Running => flusher'[g].pc \in Running
    BY <1>4 DEF Running
  <1>6. WaitersAreWoken'
    <2> SUFFICES ASSUME NEW g \in Flusher, flusher'[g].pc = "waits"
                 PROVE  /\ flusher'[g].on \in Flusher
                        /\ flusher'[flusher'[g].on].pc \in Running
      BY DEF WaitersAreWoken
    <2>1. g # f /\ g \notin waiting
      BY <1>4
    <2>2. flusher[g].pc = "waits" /\ flusher'[g].on = flusher[g].on
      BY <1>4, <2>1
    <2>3. flusher[g].on \in Flusher /\ flusher[flusher[g].on].pc \in Running
      BY <2>2 DEF WInv, WaitersAreWoken
    <2>4. flusher[g].on # f
      BY <2>1, <2>2
    <2> QED BY <1>5, <2>2, <2>3, <2>4
  <1>7. ClaimsRun'
    <2> SUFFICES ASSUME NEW o \in Session, inFlight'[o] # None
                 PROVE  /\ flusher'[inFlight'[o]].pc \in Running
                        /\ Owner[inFlight'[o]] = o
      BY DEF ClaimsRun
    <2>1. \/ o = s /\ inFlight'[o] \in waiting
          \/ inFlight'[o] = inFlight[o] /\ o # s
          \/ inFlight'[o] = inFlight[o] /\ inFlight[o] # f
      BY <1>0 DEF Finish
    <2>2. CASE o = s /\ inFlight'[o] \in waiting
      <3>1. PICK g \in waiting : inFlight'[o] = g
        BY <2>2
      <3>2. WaitsForOwn
        BY DEF WInv
      <3>3. Owner[g] = s
        BY <3>1, <3>2 DEF WaitsForOwn
      <3>4. flusher'[g].pc = "loads"
        BY <1>4, <3>1
      <3> QED BY <2>2, <3>1, <3>3, <3>4 DEF Running
    <2>3. CASE inFlight'[o] = inFlight[o] /\ inFlight[o] # f
      BY <1>0, <1>5, <2>3 DEF WInv, ClaimsRun
    <2>4. CASE inFlight'[o] = inFlight[o] /\ o # s
      <3>1. inFlight[o] # f
        BY <1>0, <2>4 DEF WInv, ClaimsRun
      <3> QED BY <2>3, <2>4, <3>1
    <2> QED BY <2>1, <2>2, <2>3, <2>4
  <1>8. WaitsForOwn'
    <2> SUFFICES ASSUME NEW g \in Flusher, flusher'[g].pc = "waits"
                 PROVE  Owner[flusher'[g].on] = Owner[g]
      BY DEF WaitsForOwn
    <2>1. g # f /\ g \notin waiting
      BY <1>4
    <2>2. flusher[g].pc = "waits" /\ flusher'[g].on = flusher[g].on
      BY <1>4, <2>1
    <2> QED BY <2>2 DEF WInv, WaitsForOwn
  <1> QED BY <1>6, <1>7, <1>8 DEF WInv

(* Steps that keep every flush where it is, or idle.                          *)
LEMMA SteadyWakes ==
  ASSUME RestOK, FlushesOK, WInv, UNCHANGED inFlight,
         \A g \in Flusher : /\ flusher'[g].on = flusher[g].on \/ flusher[g].pc = "loads"
                            /\ \/ flusher'[g].pc = flusher[g].pc
                               \/ flusher[g].pc = "loads" /\ flusher'[g].pc = "applies"
  PROVE  WInv'
  <1>1. \A g \in Flusher : flusher[g].pc \in Running => flusher'[g].pc \in Running
    BY DEF Running
  <1>2. \A g \in Flusher : flusher'[g].pc = "waits" => /\ flusher[g].pc = "waits"
                                                    /\ flusher'[g].on = flusher[g].on
    OBVIOUS
  <1>3. \A s \in Session : inFlight[s] \in Flusher \cup {None}
    BY DEF RestOK
  <1> QED BY <1>1, <1>2, <1>3 DEF WInv, WaitersAreWoken, ClaimsRun, WaitsForOwn

LEMMA WakesStep ==
  ASSUME RestOK, FlushesOK, WInv, [Next]_vars
  PROVE  WInv'
  <1>1. ASSUME UNCHANGED flushVars
        PROVE  WInv'
    BY <1>1 DEF flushVars, WInv, WaitersAreWoken, ClaimsRun, WaitsForOwn
  <1>2. CASE UNCHANGED vars
    BY <1>1, <1>2 DEF vars
  <1>3. ASSUME NEW s \in Session,
               \/ \E a \in Asked[s] : Look(s, a[1], a[2]) \/ Hit(s, a[1], a[2])
               \/ \E m \in Wanted[s] : Begin(s, m)
               \/ Answer(s) \/ Execute(s) \/ Cancel(s) \/ EndSession(s)
        PROVE  WInv'
    BY <1>1, <1>3 DEF Look, Hit, Begin, Answer, Execute, Cancel, EndSession
  <1>4. CASE \/ \E p \in Edited : UserCreates(p) \/ UserRemoves(p)
             \/ TimePasses
    BY <1>1, <1>4 DEF UserCreates, UserRemoves, TimePasses
  <1>5. CASE Restart
    <2>1. /\ \A f \in Flusher : flusher'[f].pc = "idle"
          /\ \A s \in Session : inFlight'[s] = None
      BY <1>5, IdlePC DEF Restart
    <2> QED BY <2>1 DEF WInv, WaitersAreWoken, ClaimsRun, WaitsForOwn
  <1>6. ASSUME NEW f \in Flusher, FlushCall(f) PROVE WInv'
    BY <1>6, EnteredWakes DEF FlushCall
  <1>7. ASSUME NEW f \in Flusher, Shutdown(f) PROVE WInv'
    <2>1. CASE Needed(f)
      BY <1>7, <2>1, EnteredWakes DEF Shutdown
    <2>2. CASE ~Needed(f)
      BY <1>1, <1>7, <2>2 DEF Shutdown, flushVars
    <2> QED BY <2>1, <2>2
  <1>8. ASSUME NEW f \in Flusher, NEW readable \in BOOLEAN, Load(f, readable) PROVE WInv'
    <2>1. /\ flusher[f].pc = "loads" /\ flusher'[f].pc = "applies" /\ UNCHANGED inFlight
          /\ \A g \in Flusher : g # f => flusher'[g] = flusher[g]
      BY <1>8 DEF Load, FlushesOK
    <2> QED BY <2>1, SteadyWakes
  <1>9. ASSUME NEW f \in Flusher, ApplyOne(f) PROVE WInv'
    <2> DEFINE r == [flusher[f] EXCEPT !.ledger = Applied(flusher[f].ledger, Head(flusher[f].todo)),
                                       !.todo = Tail(flusher[f].todo)]
    <2>1. flusher' = [flusher EXCEPT ![f] = r] /\ UNCHANGED inFlight
      BY <1>9 DEF ApplyOne
    <2>2. flusher \in [Flusher -> Flush]
      BY DEF FlushesOK
    <2>3. r.pc = flusher[f].pc /\ r.on = flusher[f].on
      BY <2>2 DEF Flush
    <2> HIDE DEF r
    <2>4. \A g \in Flusher : flusher'[g].pc = flusher[g].pc /\ flusher'[g].on = flusher[g].on
      BY <2>1, <2>2, <2>3
    <2> QED BY <2>1, <2>4, SteadyWakes
  <1>10. ASSUME NEW f \in Flusher, Write(f) \/ WriteFails(f) PROVE WInv'
    BY <1>10, FinishWakes DEF Write, WriteFails, Running
  <1> QED BY <1>2, <1>3, <1>4, <1>5, <1>6, <1>7, <1>8, <1>9, <1>10 DEF Next

(* A flush waits only for one of its session that is loading or writing: none *)
(* is forgotten behind a slow disk, and no two wait for each other.           *)
THEOREM NoFlushIsForgotten == Spec => []WaitersAreWoken
  <1>1. Init => WInv
    BY IdlePC DEF Init, WInv, WaitersAreWoken, ClaimsRun, WaitsForOwn
  <1>2. IInv /\ WInv /\ [Next]_vars => WInv'
    BY WakesStep, Parts
  <1>3. WInv => WaitersAreWoken
    BY DEF WInv
  <1> QED BY <1>1, <1>2, <1>3, Always, PTL DEF Spec

(* Every variable keeps its type: events and paths that a session notes name  *)
(* paths of the tree, even where the client searches for the shallowest one   *)
(* that is missing.                                                           *)
THEOREM TypeCorrect == Spec => []TypeOK
  <1>1. IInv => TypeOK
    BY DEF IInv
  <1> QED BY <1>1, Always, PTL

(* Whatever events are applied in whatever order, by however many flushes,    *)
(* allPathsSorted holds exactly the paths with an entry, and no missing path  *)
(* and no listed directory is lost to its index.                              *)
THEOREM IndicesRight == Spec => []LedgersIndexed
  <1>1. IInv => LedgersIndexed
    BY DEF IInv
  <1> QED BY <1>1, Always, PTL

(* A file the ledger knows is found by the client's first walk of the plan,   *)
(* unless it is two levels or more below a directory that was never listed.   *)
THEOREM PlanFindsKnown == Spec => []PlanReaches
  <1>1. TypeOK => PlanReaches
    <2> SUFFICES ASSUME TypeOK, NEW p \in Path,
                        Loaded(saved).entries[p] = "file", tree[p] = "file",
                        ~\E d \in Planned(Loaded(saved)) :
                            /\ Loaded(saved).entries[d] = "dir"
                            /\ d \in Above(p) /\ Len(p) > Len(d) + 1
                 PROVE  p \in Walked(SyncPlan(Loaded(saved)), tree)
      BY DEF PlanReaches
    <2> DEFINE L == Loaded(saved)
    <2>1. L.all = {q \in Path : L.entries[q] # "none"}
      BY LoadedOK DEF TypeOK
    <2>2. L.entries[p] = "file" /\ p \in L.all
      BY <2>1
    <2>3. ~\E d \in Planned(L) : /\ L.entries[d] = "dir"
                                  /\ d \in Above(p) /\ Len(p) > Len(d) + 1
      OBVIOUS
    <2> HIDE DEF L
    <2>4. SyncPlan(L) =
             [deep    |-> {q \in Planned(L) : L.entries[q] = "listed"},
              shallow |-> {q \in Planned(L) : L.entries[q] = "dir"},
              files   |-> {q \in L.all : L.entries[q] = "file" /\ ~Passed(L, q)}
                          \cup Intermediate(L),
              missing |-> {q \in L.all : L.entries[q] = "missing"}]
      BY <2>2 DEF SyncPlan
    <2>5. p \notin SyncPlan(L).missing
      BY <2>2, <2>4
    <2>6. CASE ~Passed(L, p)
      <3>1. p \in SyncPlan(L).files
        BY <2>2, <2>4, <2>6
      <3> QED BY <2>5, <3>1 DEF Walked, L
    <2>7. CASE Passed(L, p)
      <3>1. PICK q \in Planned(L) : Covers(q, p)
        BY <2>7 DEF Passed
      <3>2. q \in Path /\ L.entries[q] \in Dirs
        BY <2>1, <3>1 DEF Planned
      <3>3. q \in Above(p)
        BY <2>2, <3>1, <3>2 DEF Covers, Dirs
      <3>4. CASE L.entries[q] = "listed"
        <4>1. q \in SyncPlan(L).deep
          BY <2>4, <3>1, <3>4
        <4> QED BY <2>5, <3>3, <4>1 DEF Walked, L
      <3>5. CASE L.entries[q] = "dir"
        <4>1. q \in SyncPlan(L).shallow
          BY <2>4, <3>1, <3>5
        <4>2. ~(Len(p) > Len(q) + 1)
          BY <2>3, <3>1, <3>3, <3>5
        <4>3. Len(q) \in Nat /\ Len(p) \in Nat /\ Len(q) < Len(p)
          <5>1. p \in Seq(Name)
            BY SelfCovers
          <5>2. PICK n \in 1..(Len(p) - 1) : q = SubSeq(p, 1, n)
            BY <3>3 DEF Above
          <5>3. Len(q) = n
            BY <5>1, <5>2
          <5> QED BY <5>1, <5>2, <5>3
        <4>4. Len(p) = Len(q) + 1
          BY <4>2, <4>3
        <4> QED BY <2>5, <3>3, <4>1, <4>4 DEF Walked, L
      <3> QED BY <3>2, <3>4, <3>5 DEF Dirs
    <2> QED BY <2>6, <2>7 DEF L
  <1> QED BY <1>1, TypeCorrect, PTL

=============================================================================
