-------------------------- MODULE FileAgent_proofs --------------------------
(* The cache store and the file agent that uses it, for every set of paths,   *)
(* contents, batches and readers and every bound.  Of the store: its types,   *)
(* the presence of every blob its manifest refers to, and that its manifest   *)
(* file changes exactly as AtomicManifest says.  Of the agent: it uses the    *)
(* store only through the store's own operations, so that all that is proved  *)
(* of the store holds of the device's cache, and what is written while it     *)
(* exists stays in its table of expiry times.                                 *)
EXTENDS FileAgent, TLAPS

-----------------------------------------------------------------------------
(* The store.                                                                 *)

(* What the holder of the lock may have read.                                 *)
Bases == {disk} \cup (IF faults > 0 THEN {EmptyManifest} ELSE {})

(* The paths of its delta that the holder has put into its copy.              *)
Put == DOMAIN Head(queue).change \ todo

(* The copy is what was read, with the changes that have been put.            *)
CopyOf(base) ==
    /\ local.revision = base.revision
    /\ local.truncated = base.truncated
    /\ \A p \in Path \ Put : local.entries[p] = base.entries[p]

DeltaInProgress ==
    (step = "holding" /\ Kind = "apply") =>
        /\ todo \subseteq DOMAIN Head(queue).change
        /\ doomed = {}
        /\ \E base \in Bases : CopyOf(base)
        /\ \A p \in Put : /\ local.entries[p] = Head(queue).change[p]
                          /\ {local.entries[p]} \cap Content \subseteq blobs

OtherInProgress ==
    (step = "holding" /\ Kind # "apply") =>
        /\ todo = {}
        /\ local \in Bases
        /\ Kind # "sweep" => doomed = {}
        /\ doomed \cap Live(local) = {}

Resting == step = "waiting" => todo = {} /\ doomed = {}

HolderExists == step = "holding" => queue # <<>>

(* The inductive invariant: BlobsPresent needs to know what the copy in       *)
(* memory is at each moment, since a commit makes it the manifest.            *)
StoreInv ==
    /\ StoreTypeOK
    /\ HolderExists
    /\ Resting
    /\ DeltaInProgress
    /\ OtherInProgress
    /\ BlobsPresent

-----------------------------------------------------------------------------
\* What an operation of the store carries.
LEMMA OpShape ==
    ASSUME NEW op \in Op
    PROVE  /\ op.kind \in {"apply", "truncate", "remove", "sweep"}
           /\ op.kind = "apply" =>
                 /\ DOMAIN op.change \subseteq Path
                 /\ \A p \in DOMAIN op.change : op.change[p] \in Entry
           /\ op.kind = "truncate" => op.truncated \in BOOLEAN
           /\ op.kind = "remove" => op.path \in Path
<1>1. CASE op \in [kind: {"apply"}, change: Change]
  <2>1. op.kind = "apply" /\ op.change \in Change
    BY <1>1
  <2>2. PICK S \in SUBSET Path : op.change \in [S -> Entry]
    BY <2>1 DEF Change
  <2> QED BY <2>1, <2>2
<1>2. CASE op \in [kind: {"truncate"}, truncated: BOOLEAN]
  BY <1>2
<1>3. CASE op \in [kind: {"remove"}, path: Path]
  BY <1>3
<1>4. CASE op \in [kind: {"sweep"}]
  BY <1>4
<1> QED BY <1>1, <1>2, <1>3, <1>4 DEF Op

LEMMA EmptyIsManifest == EmptyManifest \in Manifest
BY DEF EmptyManifest, Manifest, Entry

\* A manifest with other entries and another revision.
Rewrite(m, e, n) == [m EXCEPT !.entries = e, !.revision = n]

LEMMA Rewritten ==
    ASSUME NEW m \in Manifest, NEW e \in [Path -> Entry], NEW n \in Nat
    PROVE  /\ Rewrite(m, e, n) \in Manifest
           /\ Rewrite(m, e, n).entries = e
           /\ Rewrite(m, e, n).revision = n
           /\ Rewrite(m, e, n).truncated = m.truncated
BY DEF Manifest, Rewrite

\* Every operation but a delta makes a manifest of a manifest, and refers to
\* no content that the manifest did not refer to.
LEMMA AfterOther ==
    ASSUME NEW op \in Op, op.kind # "apply", NEW m \in Manifest
    PROVE  After(op, m) \in Manifest /\ Live(After(op, m)) \subseteq Live(m)
<1>1. CASE op.kind = "truncate"
  BY <1>1, OpShape DEF After, Manifest, Live
<1>2. CASE op.kind = "remove"
  <2>1. CASE m.entries[op.path] = Absent
    BY <1>2, <2>1 DEF After
  <2>2. CASE m.entries[op.path] # Absent
    <3> DEFINE n == [m EXCEPT !.entries[op.path] = Absent, !.revision = @ + 1]
    <3>1. After(op, m) = n
      BY <1>2, <2>2 DEF After
    <3>2. n \in Manifest
      <4>1. n = Rewrite(m, [m.entries EXCEPT ![op.path] = Absent], m.revision + 1)
        BY DEF Manifest, Rewrite
      <4>2. [m.entries EXCEPT ![op.path] = Absent] \in [Path -> Entry]
        BY DEF Manifest, Entry
      <4>3. m.revision + 1 \in Nat
        BY DEF Manifest
      <4> HIDE DEF n
      <4> QED BY <4>1, <4>2, <4>3, Rewritten
    <3>3. \A p \in Path : n.entries[p] \in {m.entries[p], Absent}
      BY <1>2, OpShape DEF Manifest
    <3>4. Live(n) \subseteq Live(m)
      BY <3>3, EntryKinds DEF Live
    <3> QED BY <3>1, <3>2, <3>4
  <2> QED BY <2>1, <2>2
<1>3. CASE op.kind = "sweep"
  BY <1>3 DEF After
<1> QED BY <1>1, <1>2, <1>3, OpShape

\* A caller joins the chain at its tail: the holder of the lock stays.
LEMMA JoinKeepsHolder ==
    ASSUME NEW q \in Seq(Op), NEW op \in Op
    PROVE  /\ Append(q, op) \in Seq(Op)
           /\ Append(q, op) # <<>>
           /\ q # <<>> => Head(Append(q, op)) = Head(q)
<1>1. /\ Append(q, op) \in Seq(Op) /\ Len(Append(q, op)) = Len(q) + 1
      /\ \A i \in 1..Len(q) : Append(q, op)[i] = q[i]
      /\ Len(q) \in Nat
  OBVIOUS
<1>2. Append(q, op) # <<>>
  BY <1>1
<1>3. q # <<>> => 1 \in 1..Len(q) /\ Head(q) = q[1]
  BY <1>1
<1> QED BY <1>1, <1>2, <1>3

LEMMA ReleaseKeepsWaiters ==
    ASSUME NEW q \in Seq(Op), q # <<>>
    PROVE  Tail(q) \in Seq(Op) /\ Head(q) \in Op
OBVIOUS

-----------------------------------------------------------------------------
\* StoreInv is inductive.

LEMMA InitEstablishes == StoreInit => StoreInv
<1> SUFFICES ASSUME StoreInit PROVE StoreInv
  OBVIOUS
<1>1. StoreTypeOK
  BY EmptyIsManifest, StoreBounds DEF StoreInit, StoreTypeOK
<1>2. BlobsPresent
  BY EntryKinds DEF StoreInit, BlobsPresent, Live, EmptyManifest
<1> QED BY <1>1, <1>2 DEF StoreInit, StoreInv, HolderExists, Resting,
                          DeltaInProgress, OtherInProgress

LEMMA RequestKeeps ==
    ASSUME StoreInv, NEW op \in Op, Request(op) PROVE StoreInv'
<1>1. queue' \in Seq(Op) /\ queue' # <<>> /\ (queue # <<>> => Head(queue') = Head(queue))
  BY JoinKeepsHolder DEF StoreInv, StoreTypeOK, Request
<1>2. StoreTypeOK' /\ HolderExists' /\ Resting' /\ BlobsPresent'
  BY <1>1 DEF StoreInv, StoreTypeOK, HolderExists, Resting, BlobsPresent, Live, Request
<1>3. DeltaInProgress' /\ OtherInProgress'
  <2>1. CASE step = "holding"
    <3>1. Head(queue') = Head(queue)
      BY <1>1, <2>1 DEF StoreInv, HolderExists
    <3> QED BY <3>1, <2>1 DEF StoreInv, DeltaInProgress, OtherInProgress, Kind,
                              Put, Bases, CopyOf, Live, Request
  <2>2. CASE step # "holding"
    BY <2>2 DEF DeltaInProgress, OtherInProgress, Request
  <2> QED BY <2>1, <2>2
<1> QED BY <1>2, <1>3 DEF StoreInv

LEMMA LoadKeeps ==
    ASSUME StoreInv, Load PROVE StoreInv'
<1> USE DEF StoreInv, StoreTypeOK
<1>1. Head(queue) \in Op /\ queue' = queue /\ Kind' = Kind /\ disk' = disk /\ blobs' = blobs
  BY ReleaseKeepsWaiters DEF Load, Kind
<1>2. faults' \in 0..MaxFaults /\ faults \in Nat /\ (faults' = 0 => faults = 0)
      /\ local' \in Bases' /\ local' \in Manifest
  <2>1. CASE local' = disk /\ UNCHANGED faults
    BY <1>1, <2>1, StoreBounds DEF Bases
  <2>2. CASE faults < MaxFaults /\ faults' = faults + 1 /\ local' = EmptyManifest
    BY <2>2, StoreBounds, EmptyIsManifest DEF Bases
  <2> QED BY <2>1, <2>2 DEF Load, Read
<1>3. todo' = IF Kind = "apply" THEN DOMAIN Head(queue).change ELSE {}
  BY DEF Load
<1>4. doomed' = IF Kind = "sweep" THEN blobs \ Live(local') ELSE {}
  BY DEF Load
<1>5. StoreTypeOK'
  BY <1>1, <1>2, <1>3, <1>4, OpShape DEF Load, Kind
<1>6. BlobsPresent'
  BY <1>1, <1>2 DEF BlobsPresent, Live
<1>7. DeltaInProgress'
  <2> SUFFICES ASSUME Kind = "apply" PROVE DeltaInProgress'
    BY <1>1 DEF DeltaInProgress
  <2>1. Put' = {} /\ doomed' = {} /\ todo' = DOMAIN Head(queue').change
    BY <1>1, <1>3, <1>4 DEF Put
  <2>2. CopyOf(local)'
    BY DEF CopyOf
  <2>3. \E base \in Bases' : /\ local'.revision = base.revision
                            /\ local'.truncated = base.truncated
                            /\ \A p \in Path \ Put' : local'.entries[p] = base.entries[p]
    BY <1>2
  <2> QED BY <2>1, <2>3 DEF DeltaInProgress, CopyOf
<1>8. OtherInProgress'
  BY <1>1, <1>2, <1>3, <1>4 DEF OtherInProgress, Live
<1>9. HolderExists' /\ Resting'
  BY <1>1 DEF HolderExists, Resting, Load
<1> QED BY <1>5, <1>6, <1>7, <1>8, <1>9

LEMMA PutChangeKeeps ==
    ASSUME StoreInv, NEW p \in Path, PutChange(p) PROVE StoreInv'
<1> DEFINE entry == Head(queue).change[p]
<1>1. step = "holding" /\ p \in todo /\ queue # <<>> /\ Head(queue) \in Op /\ Kind = "apply"
  BY ReleaseKeepsWaiters DEF PutChange, StoreInv, StoreTypeOK, HolderExists, OtherInProgress
<1>2. todo \subseteq DOMAIN Head(queue).change /\ doomed = {} /\ entry \in Entry
  BY <1>1, OpShape DEF StoreInv, DeltaInProgress, Kind
<1>3. /\ queue' = queue /\ Kind' = Kind /\ disk' = disk /\ faults' = faults /\ doomed' = doomed
      /\ step' = step /\ failures' = failures /\ restarts' = restarts
      /\ todo' = todo \ {p}
      /\ blobs' = blobs \cup ({entry} \cap Content)
      /\ local' = [local EXCEPT !.entries[p] = entry]
  BY DEF PutChange, Kind
<1> HIDE DEF entry
<1>4. /\ local' \in Manifest
      /\ local'.revision = local.revision /\ local'.truncated = local.truncated
      /\ \A q \in Path : local'.entries[q] = IF q = p THEN entry ELSE local.entries[q]
  BY <1>2, <1>3 DEF StoreInv, StoreTypeOK, Manifest
<1>5. StoreTypeOK'
  BY <1>3, <1>4 DEF StoreInv, StoreTypeOK
<1>6. BlobsPresent'
  BY <1>3 DEF StoreInv, BlobsPresent, Live
<1>7. DeltaInProgress'
  <2>1. Put' = Put \cup {p} /\ Bases' = Bases
    BY <1>1, <1>2, <1>3 DEF Put, Bases
  <2>2. PICK base \in Bases : CopyOf(base)
    BY <1>1 DEF StoreInv, DeltaInProgress
  <2>3. CopyOf(base)'
    BY <2>1, <2>2, <1>3, <1>4 DEF CopyOf
  <2>4. \A q \in Put' : /\ local'.entries[q] = Head(queue').change[q]
                        /\ {local'.entries[q]} \cap Content \subseteq blobs'
    <3> SUFFICES ASSUME NEW q \in Put'
                 PROVE  /\ local'.entries[q] = Head(queue').change[q]
                        /\ {local'.entries[q]} \cap Content \subseteq blobs'
      OBVIOUS
    <3>1. q \in Path
      BY <1>1, <1>3, OpShape DEF Put, Kind
    <3>2. CASE q = p
      BY <3>1, <3>2, <1>3, <1>4 DEF entry
    <3>3. CASE q # p
      BY <3>1, <3>3, <2>1, <1>1, <1>3, <1>4 DEF StoreInv, DeltaInProgress
    <3> QED BY <3>2, <3>3
  <2> QED BY <2>1, <2>3, <2>4, <1>2, <1>3 DEF DeltaInProgress
<1>8. HolderExists' /\ Resting' /\ OtherInProgress'
  BY <1>1, <1>3 DEF HolderExists, Resting, OtherInProgress
<1> QED BY <1>5, <1>6, <1>7, <1>8 DEF StoreInv

LEMMA SweepBlobKeeps ==
    ASSUME StoreInv, NEW c \in Content, SweepBlob(c) PROVE StoreInv'
<1> USE DEF SweepBlob
<1>1. step = "holding" /\ c \in doomed /\ queue # <<>> /\ Kind = "sweep"
  BY DEF StoreInv, HolderExists, DeltaInProgress, OtherInProgress
<1>2. c \notin Live(local) /\ local \in Bases /\ todo = {}
  BY <1>1 DEF StoreInv, OtherInProgress
<1>3. StoreTypeOK' /\ HolderExists' /\ Resting'
  BY <1>1 DEF StoreInv, StoreTypeOK, HolderExists, Resting
<1>4. BlobsPresent'
  BY <1>2 DEF StoreInv, BlobsPresent, Bases, Live
<1>5. DeltaInProgress' /\ OtherInProgress'
  BY <1>1, <1>2 DEF StoreInv, DeltaInProgress, OtherInProgress, Kind, Bases, Live
<1> QED BY <1>3, <1>4, <1>5 DEF StoreInv

\* What a commit writes is a manifest, and while no read has failed it refers
\* to blobs that are there.
LEMMA WrittenIsBacked ==
    ASSUME StoreInv, step = "holding", todo = {}
    PROVE  Written \in Manifest /\ (faults = 0 => Live(Written) \subseteq blobs)
<1>1. queue # <<>> /\ Head(queue) \in Op /\ local \in Manifest /\ disk \in Manifest
  BY ReleaseKeepsWaiters DEF StoreInv, StoreTypeOK, HolderExists
<1>2. CASE Kind = "apply"
  <2>1. local.revision + 1 \in Nat
    BY <1>1 DEF Manifest
  <2>2. Written = [local EXCEPT !.revision = local.revision + 1]
    BY <1>2 DEF Written
  <2>3. Written \in Manifest /\ Written.entries = local.entries
    BY <2>1, <2>2, <1>1 DEF Manifest
  <2>4. ASSUME faults = 0 PROVE Live(Written) \subseteq blobs
    <3>1. CopyOf(disk) /\ Put = DOMAIN Head(queue).change
      BY <1>2, <2>4 DEF StoreInv, DeltaInProgress, Bases, Put
    <3> SUFFICES ASSUME NEW p \in Path, local.entries[p] \in Content
                 PROVE  local.entries[p] \in blobs
      BY <2>3 DEF Live
    <3>2. CASE p \in Put
      BY <3>2, <1>2 DEF StoreInv, DeltaInProgress
    <3>3. CASE p \notin Put
      BY <3>1, <3>3, <2>4 DEF CopyOf, StoreInv, BlobsPresent, Live
    <3> QED BY <3>2, <3>3
  <2> QED BY <2>3, <2>4
<1>3. CASE Kind # "apply"
  <2>1. Written \in {After(Head(queue), local), disk} /\ local \in Bases
    BY <1>3 DEF Written, Stored, StoreInv, OtherInProgress
  <2>2. After(Head(queue), local) \in Manifest
        /\ Live(After(Head(queue), local)) \subseteq Live(local)
    BY <1>1, <1>3, AfterOther DEF Kind
  <2> QED BY <1>1, <2>1, <2>2 DEF Bases, StoreInv, BlobsPresent
<1> QED BY <1>2, <1>3

\* Once nobody holds the lock, the parts of StoreInv about the holder are void.
LEMMA IdleKeeps ==
    ASSUME StoreInv, Idle, queue' \in Seq(Op), blobs' = blobs, faults' = faults,
           disk' \in Manifest, BlobsPresent',
           failures' \in 0..MaxFailures, restarts' \in 0..MaxRestarts
    PROVE  StoreInv'
<1>1. StoreTypeOK'
  BY EmptyIsManifest DEF StoreInv, StoreTypeOK, Idle
<1> QED BY <1>1 DEF StoreInv, Idle, HolderExists, Resting, DeltaInProgress, OtherInProgress

LEMMA CommitKeeps ==
    ASSUME StoreInv, Commit PROVE StoreInv'
<1>1. queue # <<>> /\ queue' \in Seq(Op)
  BY ReleaseKeepsWaiters DEF StoreInv, StoreTypeOK, HolderExists, Commit, Released
<1>2. disk' \in Manifest /\ BlobsPresent'
  BY WrittenIsBacked DEF Commit, BlobsPresent, Live
<1> QED BY <1>1, <1>2, IdleKeeps DEF StoreInv, StoreTypeOK, Commit, Released

LEMMA FailKeeps ==
    ASSUME StoreInv, Fail PROVE StoreInv'
<1>1. queue' \in Seq(Op) /\ failures' \in 0..MaxFailures
  BY ReleaseKeepsWaiters, StoreBounds DEF StoreInv, StoreTypeOK, Fail, Released
<1>2. disk' \in Manifest /\ BlobsPresent'
  BY DEF StoreInv, StoreTypeOK, Fail, BlobsPresent, Live
<1> QED BY <1>1, <1>2, IdleKeeps DEF StoreInv, StoreTypeOK, Fail, Released

LEMMA RestartKeeps ==
    ASSUME StoreInv, Restart PROVE StoreInv'
<1>1. queue' \in Seq(Op) /\ restarts' \in 0..MaxRestarts
  BY StoreBounds DEF StoreInv, StoreTypeOK, Restart
<1>2. disk' \in Manifest /\ BlobsPresent'
  BY DEF StoreInv, StoreTypeOK, Restart, BlobsPresent, Live
<1> QED BY <1>1, <1>2, IdleKeeps DEF StoreInv, StoreTypeOK, Restart

LEMMA StepKeeps == StoreInv /\ [StoreNext]_storeVars => StoreInv'
<1> SUFFICES ASSUME StoreInv, [StoreNext]_storeVars PROVE StoreInv'
  OBVIOUS
<1>1. CASE \E op \in Op : Request(op)
  BY <1>1, RequestKeeps
<1>2. CASE Load
  BY <1>2, LoadKeeps
<1>3. CASE \E p \in Path : PutChange(p)
  BY <1>3, PutChangeKeeps
<1>4. CASE \E c \in Content : SweepBlob(c)
  BY <1>4, SweepBlobKeeps
<1>5. CASE Commit
  BY <1>5, CommitKeeps
<1>6. CASE Fail
  BY <1>6, FailKeeps
<1>7. CASE Restart
  BY <1>7, RestartKeeps
<1>8. CASE UNCHANGED storeVars
  BY <1>8 DEF storeVars, StoreInv, StoreTypeOK, HolderExists, Resting, DeltaInProgress,
              OtherInProgress, BlobsPresent, Kind, Put, Bases, CopyOf, Live
<1> QED BY <1>1, <1>2, <1>3, <1>4, <1>5, <1>6, <1>7, <1>8 DEF StoreNext, Working

\* StoreInv holds at every moment of the store's life.
THEOREM StoreIsSound == StoreSpec => []StoreInv
BY InitEstablishes, StepKeeps, PTL DEF StoreSpec

\* Every variable of the store keeps its type.
THEOREM StoreTypes == StoreSpec => []StoreTypeOK
<1>1. StoreInv => StoreTypeOK
  BY DEF StoreInv
<1> QED BY <1>1, StoreIsSound, PTL

\* As long as the manifest could be read, every blob it refers to is there.
THEOREM BlobsArePresent == StoreSpec => []BlobsPresent
<1>1. StoreInv => BlobsPresent
  BY DEF StoreInv
<1> QED BY <1>1, StoreIsSound, PTL

-----------------------------------------------------------------------------
\* The store implements AtomicManifest.

LEMMA SameManifest ==
    ASSUME NEW m \in Manifest, NEW n \in Manifest, m.entries = n.entries,
           m.revision = n.revision, m.truncated = n.truncated
    PROVE  m = n
BY DEF Manifest

\* What a delta commits is what the delta, as one operation, makes of the
\* manifest that its holder has read.
LEMMA DeltaIsOneStep ==
    ASSUME StoreInv, step = "holding", todo = {}, Kind = "apply"
    PROVE  \E base \in Bases : Written = Stored(Head(queue), base, disk)
<1> DEFINE op == Head(queue)
<1>1. op \in Op /\ local \in Manifest /\ disk \in Manifest
  BY ReleaseKeepsWaiters DEF StoreInv, StoreTypeOK, HolderExists
<1>2. PICK base \in Bases : CopyOf(base)
  BY DEF StoreInv, DeltaInProgress
<1>3. base \in Manifest
  BY <1>1, EmptyIsManifest DEF Bases
<1>4. base.revision \in Nat /\ base.revision + 1 \in Nat /\ base.revision + 1 # base.revision
      /\ local.revision = base.revision /\ local.truncated = base.truncated
  BY <1>2, <1>3 DEF Manifest, CopyOf
<1>5. local.entries = Patched(base.entries, op.change)
  <2>1. \A p \in Path : local.entries[p]
                         = IF p \in DOMAIN op.change THEN op.change[p] ELSE base.entries[p]
    BY <1>2 DEF CopyOf, Put, StoreInv, DeltaInProgress
  <2>2. local.entries \in [Path -> Entry]
    BY <1>1 DEF Manifest
  <2> QED BY <2>1, <2>2 DEF Patched
<1>6. local.entries \in [Path -> Entry]
  BY <1>1 DEF Manifest
<1> DEFINE new == Rewrite(base, local.entries, base.revision + 1)
<1>7. new \in Manifest /\ new.entries = local.entries /\ new.revision = base.revision + 1
      /\ new.truncated = base.truncated
  BY <1>3, <1>4, <1>6, Rewritten
<1>8. After(op, base) = new
  BY <1>5 DEF After, Kind, Rewrite
<1>9. Written \in Manifest /\ Written.entries = local.entries
      /\ Written.revision = base.revision + 1 /\ Written.truncated = base.truncated
  <2>1. Written = [local EXCEPT !.revision = base.revision + 1]
    BY <1>4 DEF Written
  <2> QED BY <2>1, <1>1, <1>4 DEF Manifest
<1> HIDE DEF new, op
<1>10. Written = new
  BY <1>7, <1>9, SameManifest
<1>11. new # base
  BY <1>4, <1>7
<1>12. Stored(op, base, disk) = new
  BY <1>8, <1>11 DEF Stored
<1> QED BY <1>2, <1>10, <1>12 DEF op

\* Each step of the store is one step of AtomicManifest or none.
LEMMA StepRefines ==
    ASSUME StoreInv, [StoreNext]_storeVars PROVE [Atomic!Next]_(Atomic!vars)
<1>1. CASE \E op \in Op : Request(op)
  BY <1>1 DEF Request, Atomic!Next, Atomic!Ask, Atomic!Op, Op, Atomic!Change, Change,
              Atomic!Entry, Entry
<1>2. CASE Commit
  <2>1. queue # <<>> /\ queue' = Tail(queue) /\ disk' = Written
        /\ step = "holding" /\ todo = {}
    BY <1>2 DEF Commit, Released, StoreInv, HolderExists
  <2>2. PICK base \in Bases : Written = Stored(Head(queue), base, disk)
    <3>1. CASE Kind = "apply"
      BY <2>1, <3>1, DeltaIsOneStep
    <3>2. CASE Kind # "apply"
      BY <2>1, <3>2 DEF Written, StoreInv, OtherInProgress
    <3> QED BY <3>1, <3>2
  <2>3. base \in {disk} \cup (IF MaxFaults > 0 THEN {EmptyManifest} ELSE {})
    BY StoreBounds DEF Bases, StoreInv, StoreTypeOK
  <2>4. Atomic!Stored(Head(queue), base, disk) = Stored(Head(queue), base, disk)
    BY DEF Atomic!Stored, Atomic!After, Atomic!Patched, Stored, After, Patched
  <2>5. Atomic!EmptyManifest = EmptyManifest
    BY DEF Atomic!EmptyManifest, EmptyManifest
  <2>6. Atomic!Perform
    BY <2>1, <2>2, <2>3, <2>4, <2>5 DEF Atomic!Perform
  <2> QED BY <2>6 DEF Atomic!Next
<1>3. CASE Fail
  BY <1>3 DEF Fail, Released, Atomic!Next, Atomic!Refuse
<1>4. CASE Restart
  BY <1>4 DEF Restart, Atomic!Next, Atomic!Forget
<1>5. CASE Working \/ UNCHANGED storeVars
  BY <1>5 DEF Working, Load, PutChange, SweepBlob, storeVars, Atomic!vars
<1> QED BY <1>1, <1>2, <1>3, <1>4, <1>5 DEF StoreNext

\* The manifest file behaves as AtomicManifest says: deltas, truncation marks,
\* removals and sweeps take effect one at a time, in order, whole or not at all.
THEOREM StoreIsAtomic == StoreSpec => AtomicSpec
<1>1. StoreInit => Atomic!Init
  BY DEF StoreInit, Atomic!Init, Atomic!EmptyManifest, EmptyManifest
<1>2. StoreInv /\ [StoreNext]_storeVars => [Atomic!Next]_(Atomic!vars)
  BY StepRefines
<1> QED BY <1>1, <1>2, StoreIsSound, PTL DEF StoreSpec, AtomicSpec, Atomic!Spec

-----------------------------------------------------------------------------
(* The agent.                                                                 *)

\* Every step of the agent is a step of the store or leaves the store alone.
LEMMA AgentStepIsStoreStep == [Next]_vars => [StoreNext]_storeVars
<1> SUFFICES ASSUME [Next]_vars PROVE [StoreNext]_storeVars
  OBVIOUS
<1>1. CASE OpenSession \/ \E p \in Path : TimePasses(p) \/ Fetched(p)
  BY <1>1 DEF OpenSession, TimePasses, Fetched
<1>2. CASE \E d \in Delta : ReceiveDelta(d)
  <2>1. PICK d \in Delta : ReceiveDelta(d)
    BY <1>2
  <2>2. [kind |-> "apply", change |-> d] \in Op
    BY AgentBounds DEF Op
  <2> QED BY <2>1, <2>2 DEF ReceiveDelta, Arrives, StoreNext
<1>3. CASE \E t \in BOOLEAN : ReceiveTruncated(t)
  <2>1. PICK t \in BOOLEAN : ReceiveTruncated(t)
    BY <1>3
  <2>2. [kind |-> "truncate", truncated |-> t] \in Op
    BY DEF Op
  <2> QED BY <2>1, <2>2 DEF ReceiveTruncated, Arrives, StoreNext
<1>4. CASE \E r \in Reader : \/ Reading(r)
                             \/ \E p \in Path, kind \in {"fuse", "prefetch"} : LookUp(r, kind, p)
  BY <1>4 DEF Reading, LookUp, ServeFuse, PrefetchHot, PrefetchMiss
<1>5. CASE Collecting
  <2>1. CASE GcTimer
    BY <2>1 DEF GcTimer
  <2>2. CASE GcSweep
    <3>1. [kind |-> "sweep"] \in Op
      BY DEF Op
    <3> QED BY <2>2, <3>1 DEF GcSweep, StoreNext
  <2>3. CASE \E p \in Path : GcEvict(p)
    <3>1. PICK p \in Path : GcEvict(p)
      BY <2>3
    <3>2. [kind |-> "remove", path |-> p] \in Op
      BY DEF Op
    <3> QED BY <3>1, <3>2 DEF GcEvict, StoreNext
  <2> QED BY <1>5, <2>1, <2>2, <2>3 DEF Collecting
<1>6. CASE StoreWorks \/ StoreFails \/ ServerRestarts
  BY <1>6 DEF StoreWorks, StoreFails, ServerRestarts, StoreNext
<1>7. CASE Committing
  BY <1>7 DEF Committing, DeltaApplied, Truncated, Evicted, Swept, StoreNext
<1>8. CASE UNCHANGED vars
  BY <1>8 DEF vars
<1> QED BY <1>1, <1>2, <1>3, <1>4, <1>5, <1>6, <1>7, <1>8 DEF Next

\* The store's behaviour is not touched by who uses it.
THEOREM AgentUsesStore == Spec => StoreSpec
<1>1. Init => StoreInit
  BY DEF Init
<1> QED BY <1>1, AgentStepIsStoreStep, PTL DEF Spec, StoreSpec

\* With clients, collections, reads and restarts at work, a blob that the
\* manifest refers to is there as long as the manifest could be read.
THEOREM AgentKeepsBlobs == Spec => []BlobsPresent
BY AgentUsesStore, BlobsArePresent, PTL

\* With all of them at work, the manifest changes as AtomicManifest says.
THEOREM AgentIsAtomic == Spec => AtomicSpec
BY AgentUsesStore, StoreIsAtomic, PTL

-----------------------------------------------------------------------------

(* WrittenIsTracked needs what StoreInv says of a removal and of a delta at   *)
(* their commits, and that nothing is recorded before there is an agent.      *)
AgentInv ==
    /\ StoreInv
    /\ TypeOK
    /\ ~agent => since = {}
    /\ WrittenIsTracked

\* What a reader may be doing.
Activity == [pc: {"idle", "found", "fetching"}, kind: {"fuse", "prefetch"},
             path: Path, entry: Entry]

LEMMA NoReaderTyped == NoReader \in Activity
<1>1. (CHOOSE p \in Path : TRUE) \in Path
  BY AgentBounds
<1> QED BY <1>1 DEF NoReader, Activity, Entry

LEMMA AgentInitEstablishes == Init => AgentInv
<1> SUFFICES ASSUME Init PROVE AgentInv
  OBVIOUS
<1>1. StoreInv
  BY InitEstablishes DEF Init
<1>2. NoCollection \in [run: BOOLEAN, due: BOOLEAN, todo: SUBSET Path]
  BY DEF NoCollection
<1>3. NoReader \in Activity
  BY NoReaderTyped
<1>4. reader \in [Reader -> Activity] /\ 0 \in 0..MaxDeltas
  BY <1>3, AgentBounds DEF Init
<1>5. ttl \in [Path -> {"none", "live", "expired"}] /\ fetch \in [Path -> BOOLEAN]
  BY DEF Init
<1>6. TypeOK
  BY <1>1, <1>2, <1>4, <1>5 DEF Init, TypeOK, StoreInv, Activity
<1> QED BY <1>1, <1>6 DEF Init, AgentInv, WrittenIsTracked

\* A read that failed is never taken back.
LEMMA FaultsStay ==
    ASSUME StoreInv, [StoreNext]_storeVars PROVE faults' = 0 => faults = 0
<1>1. faults \in Nat /\ faults + 1 # 0
  BY StoreBounds DEF StoreInv, StoreTypeOK
<1> QED BY <1>1 DEF StoreNext, Working, Request, Load, Read, PutChange, SweepBlob,
                    Commit, Fail, Restart, storeVars

\* A step that is the store's own business only, or none of the store's, keeps
\* AgentInv if it keeps what is tracked.
LEMMA AgentInvFrom ==
    ASSUME AgentInv, [Next]_vars, TypeOK', since' = since, agent => agent',
           disk'.entries = disk.entries,
           \A p \in Path : ttl[p] # "none" => ttl'[p] # "none"
    PROVE  AgentInv'
<1>1. StoreInv'
  BY AgentStepIsStoreStep, StepKeeps DEF AgentInv
<1>2. faults' = 0 => faults = 0
  BY AgentStepIsStoreStep, FaultsStay DEF AgentInv
<1>3. WrittenIsTracked'
  BY <1>2 DEF AgentInv, WrittenIsTracked, TypeOK
<1> QED BY <1>1, <1>3 DEF AgentInv

\* Opening a session, time passing, and reads.
LEMMA ReadingKeeps ==
    ASSUME AgentInv, [Next]_vars,
           \/ OpenSession
           \/ \E p \in Path : TimePasses(p) \/ Fetched(p)
           \/ \E r \in Reader : Reading(r)
           \/ \E r \in Reader, p \in Path, kind \in {"fuse", "prefetch"} : LookUp(r, kind, p)
    PROVE  AgentInv'
<1>1. ASSUME OpenSession PROVE AgentInv'
  <2>1. TypeOK'
    BY <1>1 DEF AgentInv, TypeOK, StoreTypeOK, OpenSession, storeVars
  <2> QED BY <1>1, <2>1, AgentInvFrom DEF OpenSession, storeVars
<1>2. ASSUME NEW p \in Path, TimePasses(p) PROVE AgentInv'
  <2>1. TypeOK' /\ \A q \in Path : ttl[q] # "none" => ttl'[q] # "none"
    BY <1>2 DEF AgentInv, TypeOK, StoreTypeOK, TimePasses, storeVars
  <2> QED BY <1>2, <2>1, AgentInvFrom DEF TimePasses, storeVars
<1>3. ASSUME NEW p \in Path, Fetched(p) PROVE AgentInv'
  <2>1. reader' \in [Reader -> Activity]
    BY <1>3, NoReaderTyped DEF AgentInv, TypeOK, Fetched, Activity
  <2>2. TypeOK' /\ \A q \in Path : ttl[q] # "none" => ttl'[q] # "none"
    BY <1>3, <2>1 DEF AgentInv, TypeOK, StoreTypeOK, Fetched, storeVars, Bumped, Activity
  <2> QED BY <1>3, <2>2, AgentInvFrom DEF Fetched, storeVars
<1>4. ASSUME NEW r \in Reader, Reading(r) PROVE AgentInv'
  <2>1. reader[r] \in Activity
    BY DEF AgentInv, TypeOK, Activity
  <2>2. reader' \in [Reader -> Activity]
    <3>1. CASE ServeFuse(r) \/ PrefetchHot(r)
      BY <3>1, NoReaderTyped DEF AgentInv, TypeOK, ServeFuse, PrefetchHot, Done, Activity
    <3>2. CASE PrefetchMiss(r)
      BY <3>2, <2>1 DEF AgentInv, TypeOK, PrefetchMiss, Activity
    <3> QED BY <1>4, <3>1, <3>2 DEF Reading
  <2>3. /\ UNCHANGED <<storeVars, agent, gc, deltas, since>>
        /\ ttl' \in {ttl, Bumped({reader[r].path})}
        /\ fetch' \in [Path -> BOOLEAN]
    BY <1>4, <2>1 DEF Reading, ServeFuse, PrefetchHot, PrefetchMiss, AgentInv, TypeOK
  <2>4. TypeOK' /\ \A q \in Path : ttl[q] # "none" => ttl'[q] # "none"
    BY <2>2, <2>3 DEF AgentInv, TypeOK, StoreTypeOK, storeVars, Bumped, Activity
  <2> QED BY <2>3, <2>4, AgentInvFrom DEF storeVars
<1>5. ASSUME NEW r \in Reader, NEW p \in Path, NEW kind \in {"fuse", "prefetch"},
             LookUp(r, kind, p)
      PROVE  AgentInv'
  <2>1. disk.entries[p] \in Entry
    BY DEF AgentInv, StoreInv, StoreTypeOK, Manifest
  <2>2. TypeOK'
    BY <1>5, <2>1 DEF AgentInv, TypeOK, StoreTypeOK, LookUp, storeVars
  <2> QED BY <1>5, <2>2, AgentInvFrom DEF LookUp, storeVars
<1> QED BY <1>1, <1>2, <1>3, <1>4, <1>5

\* What clients and the collection ask for, and the store at work.
LEMMA AskingKeeps ==
    ASSUME AgentInv, [Next]_vars,
           \/ \E d \in Delta : ReceiveDelta(d)
           \/ \E t \in BOOLEAN : ReceiveTruncated(t)
           \/ Collecting
           \/ StoreWorks
           \/ StoreFails
    PROVE  AgentInv'
<1>1. StoreTypeOK'
  BY AgentStepIsStoreStep, StepKeeps DEF AgentInv, StoreInv
<1>2. ASSUME NEW op, Arrives(op) PROVE AgentInv'
  <2>1. TypeOK'
    BY <1>1, <1>2, AgentBounds DEF AgentInv, TypeOK, Arrives
  <2> QED BY <1>2, <2>1, AgentInvFrom DEF Arrives, Request
<1>3. ASSUME GcTimer PROVE AgentInv'
  <2>1. TypeOK'
    BY <1>1, <1>3 DEF AgentInv, TypeOK, GcTimer
  <2> QED BY <1>3, <2>1, AgentInvFrom DEF GcTimer, storeVars
<1>4. ASSUME GcSweep PROVE AgentInv'
  <2>1. gc \in [run: BOOLEAN, due: BOOLEAN, todo: SUBSET Path]
    BY DEF AgentInv, TypeOK
  <2>2. gc' = [run |-> gc.run, due |-> FALSE, todo |-> {}]
    BY <1>4, <2>1 DEF GcSweep
  <2>3. gc' \in [run: BOOLEAN, due: BOOLEAN, todo: SUBSET Path]
    BY <2>1, <2>2
  <2>4. TypeOK'
    BY <1>1, <1>4, <2>3 DEF AgentInv, TypeOK, GcSweep
  <2> QED BY <1>4, <2>4, AgentInvFrom DEF GcSweep, Request
<1>5. ASSUME NEW p \in Path, GcEvict(p) PROVE AgentInv'
  <2>1. PICK skipped \in SUBSET gc.todo :
           gc' = [gc EXCEPT !.due = FALSE, !.todo = @ \ (skipped \cup {p})]
    BY <1>5 DEF GcEvict
  <2>2. gc \in [run: BOOLEAN, due: BOOLEAN, todo: SUBSET Path]
    BY DEF AgentInv, TypeOK
  <2>3. gc' = [run |-> gc.run, due |-> FALSE, todo |-> gc.todo \ (skipped \cup {p})]
    BY <2>1, <2>2
  <2>4. gc' \in [run: BOOLEAN, due: BOOLEAN, todo: SUBSET Path]
    BY <2>2, <2>3
  <2>5. TypeOK'
    BY <1>1, <1>5, <2>4 DEF AgentInv, TypeOK, GcEvict
  <2> QED BY <1>5, <2>5, AgentInvFrom DEF GcEvict, Request
<1>6. ASSUME StoreWorks PROVE AgentInv'
  <2>1. TypeOK'
    BY <1>1, <1>6 DEF AgentInv, TypeOK, StoreWorks, agentVars
  <2>2. disk' = disk
    BY <1>6 DEF StoreWorks, Working, Load, PutChange, SweepBlob
  <2> QED BY <1>6, <2>1, <2>2, AgentInvFrom DEF StoreWorks, agentVars
<1>7. ASSUME StoreFails PROVE AgentInv'
  <2>1. gc' \in [run: BOOLEAN, due: BOOLEAN, todo: SUBSET Path]
    BY <1>7 DEF StoreFails, AgentInv, TypeOK, NoCollection
  <2>2. TypeOK'
    BY <1>1, <1>7, <2>1 DEF AgentInv, TypeOK, StoreFails
  <2> QED BY <1>7, <2>2, AgentInvFrom DEF StoreFails, Fail
<1> QED BY <1>2, <1>3, <1>4, <1>5, <1>6, <1>7 DEF ReceiveDelta, ReceiveTruncated, Collecting

\* While no read has failed, an operation other than a delta leaves an entry
\* as it is, and a removal leaves none at its path.
LEMMA OtherCommits ==
    ASSUME StoreInv, Commit, Kind # "apply", faults = 0
    PROVE  /\ \A p \in Path : disk'.entries[p] \in {disk.entries[p], Absent}
           /\ Kind = "remove" => disk'.entries[Head(queue).path] = Absent
<1> DEFINE op == Head(queue)
<1>1. op \in Op /\ op.kind = Kind /\ op.kind # "apply" /\ disk \in Manifest
  BY ReleaseKeepsWaiters DEF StoreInv, StoreTypeOK, HolderExists, Commit, Kind
<1>2. disk' = After(op, disk)
  BY DEF Commit, Written, Stored, StoreInv, OtherInProgress, Bases
<1> HIDE DEF op
<1>3. CASE op.kind = "truncate"
  BY <1>1, <1>2, <1>3 DEF After, Manifest
<1>4. CASE op.kind = "sweep"
  BY <1>1, <1>2, <1>4 DEF After
<1>5. CASE op.kind = "remove" /\ disk.entries[op.path] = Absent
  BY <1>1, <1>2, <1>5 DEF After, op
<1>6. CASE op.kind = "remove" /\ disk.entries[op.path] # Absent
  <2>1. disk' = [disk EXCEPT !.entries[op.path] = Absent, !.revision = @ + 1]
    BY <1>2, <1>6 DEF After
  <2>2. \A p \in Path : disk'.entries[p] = IF p = op.path THEN Absent ELSE disk.entries[p]
    BY <2>1, <1>1, <1>6, OpShape DEF Manifest
  <2> QED BY <2>2, <1>1, <1>6, OpShape DEF op
<1> QED BY <1>1, <1>3, <1>4, <1>5, <1>6, OpShape

\* While no read has failed, a delta leaves the entries it does not name.
LEMMA DeltaCommits ==
    ASSUME StoreInv, Commit, Kind = "apply", faults = 0
    PROVE  /\ DOMAIN Head(queue).change \subseteq Path
           /\ \A p \in Path \ DOMAIN Head(queue).change :
                  disk'.entries[p] = disk.entries[p]
<1>1. Head(queue) \in Op /\ local \in Manifest
  BY ReleaseKeepsWaiters DEF StoreInv, StoreTypeOK, HolderExists, Commit
<1>2. CopyOf(disk) /\ Put = DOMAIN Head(queue).change
  BY DEF StoreInv, DeltaInProgress, Bases, Put, Commit
<1>3. disk'.entries = local.entries
  BY <1>1 DEF Commit, Written, Manifest
<1> QED BY <1>1, <1>2, <1>3, OpShape DEF CopyOf, Kind

\* Commits.
LEMMA CommittingKeeps ==
    ASSUME AgentInv, [Next]_vars, Committing PROVE AgentInv'
<1>1. StoreInv'
  BY AgentStepIsStoreStep, StepKeeps DEF AgentInv
<1>2. StoreTypeOK' /\ faults' = faults /\ StoreInv
  BY <1>1 DEF StoreInv, Commit, Committing, DeltaApplied, Truncated, Evicted, Swept, AgentInv
<1>3. ASSUME DeltaApplied PROVE AgentInv'
  <2> DEFINE paths == DOMAIN Head(queue).change
  <2>1. paths \subseteq Path
    <3>1. Head(queue) \in Op
      BY <1>3, ReleaseKeepsWaiters DEF DeltaApplied, Commit, AgentInv, StoreInv, StoreTypeOK, HolderExists
    <3> QED BY <1>3, <3>1, OpShape DEF DeltaApplied, Kind
  <2>2. \/ agent /\ ttl' = Bumped(paths) /\ since' = since \cup paths
        \/ ~agent /\ ttl' = ttl /\ since' = since
    BY <1>3 DEF DeltaApplied
  <2>3. UNCHANGED <<agent, gc, fetch, reader, deltas>>
    BY <1>3 DEF DeltaApplied
  <2>4. faults = 0 => \A p \in Path \ paths : disk'.entries[p] = disk.entries[p]
    BY <1>2, <1>3, DeltaCommits DEF DeltaApplied
  <2> HIDE DEF paths
  <2>5. TypeOK'
    BY <1>2, <2>1, <2>2, <2>3 DEF AgentInv, TypeOK, Bumped
  <2>6. WrittenIsTracked'
    <3> SUFFICES ASSUME faults = 0, NEW p \in since', disk'.entries[p] # Absent
                 PROVE  ttl'[p] # "none"
      BY <1>2 DEF WrittenIsTracked
    <3>1. agent /\ p \in Path
      BY <2>1, <2>2 DEF AgentInv, TypeOK
    <3>2. CASE p \in paths
      BY <3>1, <3>2, <2>2 DEF Bumped
    <3>3. CASE p \notin paths
      BY <3>1, <3>3, <2>2, <2>4 DEF Bumped, AgentInv, WrittenIsTracked
    <3> QED BY <3>2, <3>3
  <2>7. ~agent' => since' = {}
    BY <2>2, <2>3 DEF AgentInv
  <2> QED BY <1>1, <2>5, <2>6, <2>7 DEF AgentInv
<1>4. ASSUME Truncated \/ Evicted \/ Swept PROVE AgentInv'
  <2>1. Commit /\ Kind # "apply" /\ UNCHANGED <<agent, fetch, reader, deltas, since>>
    BY <1>4 DEF Truncated, Evicted, Swept, agentVars
  <2>2. /\ gc' \in [run: BOOLEAN, due: BOOLEAN, todo: SUBSET Path]
        /\ \/ ttl' = ttl
           \/ Kind = "remove" /\ ttl' = [ttl EXCEPT ![Head(queue).path] = "none"]
    <3>1. CASE Truncated
      BY <3>1 DEF Truncated, agentVars, AgentInv, TypeOK
    <3>2. CASE Evicted
      BY <3>2 DEF Evicted, AgentInv, TypeOK
    <3>3. CASE Swept
      BY <3>3 DEF Swept, NoCollection, AgentInv, TypeOK
    <3> QED BY <1>4, <3>1, <3>2, <3>3
  <2>3. TypeOK'
    BY <1>2, <2>1, <2>2 DEF AgentInv, TypeOK
  <2>4. WrittenIsTracked'
    <3> SUFFICES ASSUME faults = 0, NEW p \in since, disk'.entries[p] # Absent
                 PROVE  ttl'[p] # "none"
      BY <1>2, <2>1 DEF WrittenIsTracked
    <3>1. p \in Path /\ disk.entries[p] # Absent
          /\ (Kind = "remove" => p # Head(queue).path)
      BY <1>2, <2>1, OtherCommits DEF AgentInv, TypeOK
    <3>2. ttl[p] # "none"
      BY <3>1 DEF AgentInv, WrittenIsTracked
    <3> QED BY <2>2, <3>1, <3>2 DEF AgentInv, TypeOK
  <2> QED BY <1>1, <2>1, <2>3, <2>4 DEF AgentInv
<1> QED BY <1>3, <1>4 DEF Committing

LEMMA RestartingKeeps ==
    ASSUME AgentInv, [Next]_vars, ServerRestarts PROVE AgentInv'
<1>1. StoreInv'
  BY AgentStepIsStoreStep, StepKeeps DEF AgentInv
<1>2. reader' \in [Reader -> Activity]
  BY NoReaderTyped DEF ServerRestarts
<1>3. TypeOK'
  BY <1>1, <1>2 DEF ServerRestarts, AgentInv, TypeOK, StoreInv, NoCollection, Activity
<1> QED BY <1>1, <1>3 DEF ServerRestarts, AgentInv, WrittenIsTracked

LEMMA AgentStepKeeps == AgentInv /\ [Next]_vars => AgentInv'
<1> SUFFICES ASSUME AgentInv, [Next]_vars PROVE AgentInv'
  OBVIOUS
<1>1. CASE UNCHANGED vars
  <2>1. TypeOK'
    BY <1>1 DEF AgentInv, TypeOK, StoreTypeOK, vars, storeVars, agentVars
  <2> QED BY <1>1, <2>1, AgentInvFrom DEF vars, storeVars, agentVars
<1> QED BY <1>1, ReadingKeeps, AskingKeeps, CommittingKeeps, RestartingKeeps DEF Next

\* AgentInv holds at every moment.
THEOREM AgentIsSound == Spec => []AgentInv
BY AgentInitEstablishes, AgentStepKeeps, PTL DEF Spec

\* Every variable of the agent and of its store keeps its type.
THEOREM AgentTypes == Spec => []TypeOK
<1>1. AgentInv => TypeOK
  BY DEF AgentInv
<1> QED BY <1>1, AgentIsSound, PTL

\* What is written while the agent exists is in its table of expiry times.
THEOREM AgentTracksWhatIsWritten == Spec => []WrittenIsTracked
<1>1. AgentInv => WrittenIsTracked
  BY DEF AgentInv
<1> QED BY <1>1, AgentIsSound, PTL
=============================================================================
