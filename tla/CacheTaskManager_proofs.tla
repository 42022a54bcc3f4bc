----------------------- MODULE CacheTaskManager_proofs -----------------------
(***************************************************************************)
(* Proofs about CacheTaskManager, for any set of connections, any bounds   *)
(* and any length of the promise chain: IInv is inductive, and with it the *)
(* fence around the store's writes, the consistency of the active executor *)
(* and its assignment, and the rule that no assignment inherits "ready".   *)
(***************************************************************************)
EXTENDS CacheTaskManager, SequenceTheorems, TLAPS

USE DEF store

\* An op joins the chain at its tail: the holder of the lock stays the same.
LEMMA EnqueueKeepsHolder ==
    ASSUME NEW q \in Seq(Op), NEW op \in Op
    PROVE  /\ Append(q, op) \in Seq(Op)
           /\ Append(q, op) # <<>>
           /\ q # <<>> => Head(Append(q, op)) = Head(q)
           /\ \A i \in DOMAIN Append(q, op) :
                 Append(q, op)[i] = op \/ (i \in DOMAIN q /\ Append(q, op)[i] = q[i])
<1>1. /\ Append(q, op) \in Seq(Op) /\ Len(Append(q, op)) = Len(q) + 1
      /\ \A i \in 1..Len(q) : Append(q, op)[i] = q[i]
      /\ Append(q, op)[Len(q) + 1] = op
      /\ Len(q) \in Nat /\ DOMAIN q = 1..Len(q)
      /\ DOMAIN Append(q, op) = 1..Len(q) + 1
  OBVIOUS
<1>2. Append(q, op) # <<>>
  BY <1>1
<1>3. q # <<>> => Head(Append(q, op)) = Head(q)
  <2>1. q # <<>> => 1 \in 1..Len(q)
    BY <1>1
  <2>2. q # <<>> => Head(q) = q[1]
    OBVIOUS
  <2> QED BY <1>1, <1>2, <2>1, <2>2
<1>4. ASSUME NEW i \in DOMAIN Append(q, op)
      PROVE  Append(q, op)[i] = op \/ (i \in DOMAIN q /\ Append(q, op)[i] = q[i])
  <2>1. i \in 1..Len(q) \/ i = Len(q) + 1
    BY <1>1
  <2> QED BY <1>1, <2>1
<1> QED BY <1>1, <1>2, <1>3, <1>4

\* Releasing the lock drops the holder and keeps everybody behind it.
LEMMA ReleaseKeepsWaiters ==
    ASSUME NEW q \in Seq(Op), q # <<>>
    PROVE  /\ Tail(q) \in Seq(Op)
           /\ Head(q) \in Op /\ Head(q) = q[1] /\ 1 \in DOMAIN q
           /\ \A i \in DOMAIN Tail(q) : i + 1 \in DOMAIN q /\ Tail(q)[i] = q[i + 1]
  OBVIOUS

\* The conjuncts about the queue survive an op for a connection, or no op.
LEMMA EnqueueQueuedOps ==
    ASSUME queue \in Seq(Op), QueuedOps, NEW op \in Op,
           op.kind # "sweep" => op.conn \in Conns,
           op.kind = "hello" => op.conn \in Capable,
           Enqueue(op)
    PROVE  QueuedOps' /\ queue' \in Seq(Op) /\ queue' # <<>>
           /\ (queue # <<>> => Head(queue') = Head(queue))
  BY EnqueueKeepsHolder DEF QueuedOps, Enqueue

LEMMA ReleaseQueuedOps ==
    ASSUME queue \in Seq(Op), queue # <<>>, QueuedOps, Release
    PROVE  QueuedOps' /\ queue' \in Seq(Op)
  BY ReleaseKeepsWaiters DEF QueuedOps, Release

-----------------------------------------------------------------------------
\* Events that leave the record, the disk and the assignments alone: the queue
\* is kept or extended while nobody, or a holder at an await, has the lock.
LEMMA EventKeepsIInv ==
    ASSUME IInv, TypeOK', QueuedOps', EventLoopIdle,
           UNCHANGED <<mapped, gen, task, pick, pc, storeRev, setBack, owner>>,
           queue # <<>> => queue' # <<>> /\ Head(queue') = Head(queue)
    PROVE  IInv'
<1>1. WriteFenced'
  <2>1. CASE pc \in {"write", "complete"}
    BY <2>1 DEF IInv, LockHolder, WriteFenced, Holder
  <2>2. CASE pc \notin {"write", "complete"}
    BY <2>2 DEF WriteFenced
  <2> QED BY <2>1, <2>2
<1>2. LockHolder'
  BY <1>1 DEF IInv, LockHolder
<1>3. UnmappedIsEmpty' /\ ActiveHoldsNewest' /\ RevisionOnDisk' /\ LegacyNeverElected'
  BY DEF IInv, UnmappedIsEmpty, ActiveHoldsNewest, RevisionOnDisk, LegacyNeverElected, EmptyTask
<1> QED BY <1>2, <1>3 DEF IInv

LEMMA ConnectKeepsIInv ==
    ASSUME IInv, NEW c \in Conns, Connect(c) PROVE IInv'
<1>1. TypeOK'
  BY DEF IInv, TypeOK, Connect, regVars, taskVars, outVars
<1>2. QueuedOps'
  BY DEF IInv, QueuedOps, Connect
<1> QED BY <1>1, <1>2, EventKeepsIInv DEF Connect, taskVars, outVars

LEMMA SocketShutsKeepsIInv ==
    ASSUME IInv, NEW c \in Conns, SocketShuts(c) PROVE IInv'
<1>1. TypeOK'
  BY DEF IInv, TypeOK, SocketShuts, taskVars, outVars
<1>2. QueuedOps'
  BY DEF IInv, QueuedOps, SocketShuts
<1> QED BY <1>1, <1>2, EventKeepsIInv DEF SocketShuts, taskVars, outVars

LEMMA ReceiveHelloKeepsIInv ==
    ASSUME IInv, NEW c \in Conns, ReceiveHello(c) PROVE IInv'
<1>1. CASE c \in Capable
  <2> DEFINE op == [kind |-> "hello", conn |-> c, of |-> 0, asg |-> 0, base |-> 0]
  <2>1. op \in Op /\ Enqueue(op)
    BY <1>1 DEF ReceiveHello, Op
  <2>2. QueuedOps' /\ queue' \in Seq(Op) /\ queue' # <<>>
        /\ (queue # <<>> => Head(queue') = Head(queue))
    BY <1>1, <2>1, EnqueueQueuedOps DEF IInv, TypeOK
  <2>3. TypeOK'
    BY <1>1, <2>2 DEF IInv, TypeOK, ReceiveHello, taskVars
  <2> QED BY <1>1, <2>2, <2>3, EventKeepsIInv DEF ReceiveHello, taskVars
<1>2. CASE c \notin Capable
  <2>1. told' = [told EXCEPT ![c] = [role |-> "inactive", asg |-> 0]]
        /\ helloed' = helloed \cup {c}
        /\ UNCHANGED <<conn, joinedAt, taskVars, pc, storeRev, setBack, owner, sending, queue>>
    BY <1>2 DEF ReceiveHello
  <2>2. [role |-> "inactive", asg |-> 0] \in Assignment
    BY DEF Assignment
  <2>3. TypeOK' /\ QueuedOps'
    BY <2>1, <2>2 DEF IInv, TypeOK, QueuedOps, taskVars
  <2> QED BY <2>1, <2>3, EventKeepsIInv DEF ReceiveHello, taskVars
<1> QED BY <1>1, <1>2

LEMMA CloseEventKeepsIInv ==
    ASSUME IInv, NEW c \in Conns, CloseEvent(c) PROVE IInv'
<1>1. CASE c \in helloed /\ mapped
  <2> DEFINE op == [kind |-> "disconnect", conn |-> c, of |-> gen, asg |-> 0, base |-> 0]
  <2>1. op \in Op /\ Enqueue(op)
    BY <1>1 DEF CloseEvent, Op, IInv, TypeOK
  <2>2. QueuedOps' /\ queue' \in Seq(Op) /\ queue' # <<>>
        /\ (queue # <<>> => Head(queue') = Head(queue))
    BY <2>1, EnqueueQueuedOps DEF IInv, TypeOK
  <2>3. TypeOK'
    BY <1>1, <2>2 DEF IInv, TypeOK, CloseEvent, taskVars, outVars
  <2> QED BY <1>1, <2>2, <2>3, EventKeepsIInv DEF CloseEvent, taskVars, outVars
<1>2. CASE ~(c \in helloed /\ mapped)
  <2>1. TypeOK' /\ QueuedOps'
    BY <1>2 DEF IInv, TypeOK, QueuedOps, CloseEvent, taskVars, outVars
  <2> QED BY <1>2, <2>1, EventKeepsIInv DEF CloseEvent, taskVars, outVars
<1> QED BY <1>1, <1>2

LEMMA ReceiveKeepsIInv ==
    ASSUME IInv, NEW c \in Conns, NEW kind \in {"beat", "fatal", "delta", "sync"},
           NEW base \in Nat, ReceiveFromExecutor(c, kind, base)
    PROVE  IInv'
<1>1. PICK a \in DOMAIN owner :
         Enqueue([kind |-> kind, conn |-> c, of |-> gen, asg |-> a, base |-> base])
  BY DEF ReceiveFromExecutor
<1> DEFINE op == [kind |-> kind, conn |-> c, of |-> gen, asg |-> a, base |-> base]
<1>2. op \in Op
  BY DEF Op, IInv, TypeOK
<1>3. QueuedOps' /\ queue' \in Seq(Op) /\ queue' # <<>>
      /\ (queue # <<>> => Head(queue') = Head(queue))
  BY <1>1, <1>2, EnqueueQueuedOps DEF IInv, TypeOK
<1>4. TypeOK'
  BY <1>3 DEF IInv, TypeOK, ReceiveFromExecutor, regVars, taskVars, outVars
<1> QED BY <1>3, <1>4, EventKeepsIInv DEF ReceiveFromExecutor, taskVars, outVars

LEMMA SweepTimerKeepsIInv ==
    ASSUME IInv, SweepTimer PROVE IInv'
<1> DEFINE op == [kind |-> "sweep", conn |-> None, of |-> gen, asg |-> 0, base |-> 0]
<1>1. op \in Op /\ Enqueue(op)
  BY DEF SweepTimer, Op, IInv, TypeOK
<1>2. QueuedOps' /\ queue' \in Seq(Op) /\ queue' # <<>>
      /\ (queue # <<>> => Head(queue') = Head(queue))
  BY <1>1, EnqueueQueuedOps DEF IInv, TypeOK
<1>3. TypeOK'
  BY <1>2 DEF IInv, TypeOK, SweepTimer, regVars, taskVars, outVars
<1> QED BY <1>2, <1>3, EventKeepsIInv DEF SweepTimer, taskVars, outVars

\* Time changes what the record says of its heartbeat and cooldown, no more.
LEMMA TimeKeepsIInv ==
    ASSUME IInv, TimeoutElapses \/ CooldownElapses PROVE IInv'
<1> USE DEF IInv
<1>1. /\ mapped /\ mapped' = mapped /\ task' \in Task
      /\ task'.active = task.active /\ task'.asg = task.asg
      /\ task'.rev = task.rev /\ task'.cands = task.cands
  BY DEF TimeoutElapses, CooldownElapses, TypeOK, Task
<1>2. UNCHANGED <<conn, joinedAt, helloed, gen, pick, queue, pc, storeRev, setBack, owner, told, sending>>
  BY DEF TimeoutElapses, CooldownElapses, regVars, outVars
<1>3. TypeOK'
  BY <1>1, <1>2 DEF TypeOK
<1>4. LockHolder' /\ UnmappedIsEmpty' /\ QueuedOps'
  BY <1>1, <1>2 DEF LockHolder, WriteFenced, Holder, UnmappedIsEmpty, QueuedOps
<1>5. ActiveHoldsNewest' /\ RevisionOnDisk' /\ LegacyNeverElected'
  BY <1>1, <1>2 DEF ActiveHoldsNewest, RevisionOnDisk, LegacyNeverElected
<1> QED BY <1>3, <1>4, <1>5

LEMMA OtherWriterKeepsIInv ==
    ASSUME IInv, OtherWriter PROVE IInv'
<1> USE DEF IInv
<1>1. /\ \E read \in RevisionsRead :
            storeRev' \in {read, read + 1} /\ setBack' = (setBack \/ read # storeRev)
      /\ UNCHANGED <<conn, joinedAt, helloed, mapped, gen, task, pick, queue, pc,
                     owner, told, sending>>
  BY DEF OtherWriter, regVars, taskVars, outVars
<1>2. storeRev' \in Nat /\ setBack' \in BOOLEAN /\ (setBack' \/ storeRev' >= storeRev)
      /\ (setBack => setBack')
  <2>1. PICK read \in RevisionsRead :
          storeRev' \in {read, read + 1} /\ setBack' = (setBack \/ read # storeRev)
    BY <1>1
  <2>2. setBack' \in BOOLEAN /\ (setBack => setBack') /\ (setBack' \/ read = storeRev)
    BY <2>1, Zenon
  <2>3. storeRev' \in Nat /\ (read = storeRev => storeRev' >= storeRev)
    BY <2>1 DEF TypeOK, RevisionsRead
  <2> QED BY <2>2, <2>3
<1>3. TypeOK' /\ RevisionOnDisk'
  BY <1>1, <1>2 DEF TypeOK, RevisionOnDisk, Task
<1>4. LockHolder' /\ UnmappedIsEmpty' /\ QueuedOps' /\ ActiveHoldsNewest' /\ LegacyNeverElected'
  BY <1>1 DEF LockHolder, WriteFenced, Holder, UnmappedIsEmpty, EmptyTask, QueuedOps,
              ActiveHoldsNewest, LegacyNeverElected
<1> QED BY <1>3, <1>4

LEMMA SendKeepsIInv ==
    ASSUME IInv, NEW s \in sending, SocketFlushed(s) \/ SendFailed(s) PROVE IInv'
<1>1. s \in [on: Conns, rest: SUBSET Conns, asg: Nat]
  BY DEF IInv, TypeOK
<1>2. told' \in [Conns -> Assignment]
  <2>1. [role |-> "inactive", asg |-> s.asg] \in Assignment
    BY <1>1 DEF Assignment
  <2>2. CASE SendFailed(s)
    BY <2>2 DEF IInv, TypeOK, SendFailed
  <2>3. CASE SocketFlushed(s)
    <3>1. PICK c \in s.rest : told' \in {told, [told EXCEPT ![c] = [role |-> "inactive", asg |-> s.asg]]}
      BY <2>3 DEF SocketFlushed
    <3> QED BY <1>1, <2>1, <3>1 DEF IInv, TypeOK
  <2> QED BY <2>2, <2>3
<1>3. sending' \in SUBSET [on: Conns, rest: SUBSET Conns, asg: Nat]
  <2>1. CASE SendFailed(s)
    BY <2>1 DEF IInv, TypeOK, SendFailed
  <2>2. CASE SocketFlushed(s)
    <3>1. PICK c \in s.rest :
            sending' \in {sending \ {s},
                          (sending \ {s}) \cup {[on |-> c, rest |-> s.rest \ {c}, asg |-> s.asg]}}
      BY <2>2 DEF SocketFlushed
    <3>2. [on |-> c, rest |-> s.rest \ {c}, asg |-> s.asg] \in [on: Conns, rest: SUBSET Conns, asg: Nat]
      BY <1>1
    <3> QED BY <3>1, <3>2 DEF IInv, TypeOK
  <2> QED BY <2>1, <2>2
<1>4. UNCHANGED <<conn, joinedAt, helloed, mapped, gen, task, pick, queue, pc, storeRev, setBack, owner>>
      /\ EventLoopIdle
  BY DEF SocketFlushed, SendFailed, regVars, taskVars
<1>5. TypeOK'
  BY <1>2, <1>3, <1>4 DEF IInv, TypeOK
<1>6. QueuedOps'
  BY <1>4 DEF IInv, QueuedOps
<1> QED BY <1>4, <1>5, <1>6, EventKeepsIInv
-----------------------------------------------------------------------------
(* Critical sections change the record and pass the lock on.  IInv in three *)
(* parts, so that each action only argues about those it touches.           *)

RegistryOK ==
    /\ conn \in [Conns -> {"new", "open", "shut", "leaving", "gone"}]
    /\ joinedAt \in [Conns -> Nat] /\ helloed \in SUBSET Conns
    /\ told \in [Conns -> Assignment]
    /\ sending \in SUBSET [on: Conns, rest: SUBSET Conns, asg: Nat]

RecordOK ==
    /\ mapped \in BOOLEAN /\ gen \in Nat /\ task \in Task
    /\ storeRev \in Nat /\ setBack \in BOOLEAN /\ owner \in Seq(Conns)
    /\ UnmappedIsEmpty /\ ActiveHoldsNewest /\ RevisionOnDisk /\ LegacyNeverElected

LockOK ==
    /\ queue \in Seq(Op) /\ QueuedOps
    /\ pc \in {"free", "elected", "failover", "resync", "write", "complete"}
    /\ pick \in Conns \cup {None}
    /\ LockHolder

LEMMA IInvParts == IInv <=> RegistryOK /\ RecordOK /\ LockOK
  BY DEF IInv, TypeOK, RegistryOK, RecordOK, LockOK

LEMMA ReleaseKeepsLock ==
    ASSUME LockOK, queue # <<>>, Release, pick' \in Conns \cup {None}
    PROVE  LockOK'
<1>1. QueuedOps' /\ queue' \in Seq(Op) /\ pc' = "free"
  BY ReleaseQueuedOps DEF LockOK, Release
<1> QED BY <1>1 DEF LockOK, LockHolder, WriteFenced

\* The holder of the lock, when its critical section begins.
LEMMA HolderTyped ==
    ASSUME LockOK, NEW kind, Enter(kind)
    PROVE  /\ queue # <<>> /\ Holder \in Op /\ Holder.kind = kind
           /\ kind # "sweep" => Holder.conn \in Conns
           /\ kind = "hello" => Holder.conn \in Capable
  BY ReleaseKeepsWaiters DEF LockOK, QueuedOps, Enter, Holder

\* Nobody active, nothing else disturbed: the record stays consistent.
LEMMA VacantRecordOK ==
    ASSUME RecordOK, UNCHANGED <<storeRev, setBack, owner>>, mapped' = TRUE, gen' \in Nat,
           task' \in Task, task'.active = None, task'.asg = 0, (setBack \/ task'.rev <= storeRev)
    PROVE  RecordOK'
  BY DEF RecordOK, UnmappedIsEmpty, ActiveHoldsNewest, RevisionOnDisk, LegacyNeverElected

LEMMA CleanupRecordOK ==
    ASSUME RecordOK, UNCHANGED <<storeRev, setBack, owner>>, mapped,
           NEW t \in Task, t.active = None <=> t.asg = 0, (setBack \/ t.rev <= storeRev),
           t.active # None => t.active = task.active /\ t.asg = task.asg /\ t.active \in t.cands,
           KeepOrCleanup(t)
    PROVE  RecordOK'
<1>1. CASE t.active = None /\ t.cands = {}
  <2>1. mapped' = FALSE /\ task' = EmptyTask /\ gen' = gen
    BY <1>1 DEF KeepOrCleanup
  <2>2. EmptyTask \in Task
    BY DEF EmptyTask, Task, Phase
  <2>3. EmptyTask.active = None /\ EmptyTask.asg = 0 /\ EmptyTask.rev = 0
    BY DEF EmptyTask
  <2>4. UnmappedIsEmpty' /\ ActiveHoldsNewest'
    BY <2>1, <2>3 DEF UnmappedIsEmpty, ActiveHoldsNewest, EmptyTask
  <2>5. RevisionOnDisk' /\ LegacyNeverElected'
    BY <2>1, <2>3 DEF RecordOK, RevisionOnDisk, LegacyNeverElected
  <2> QED BY <2>1, <2>2, <2>4, <2>5 DEF RecordOK
<1>2. CASE ~(t.active = None /\ t.cands = {})
  <2>1. mapped' = mapped /\ gen' = gen /\ task' = t
    BY <1>2 DEF KeepOrCleanup, Keep
  <2> QED BY <2>1 DEF RecordOK, UnmappedIsEmpty, ActiveHoldsNewest, RevisionOnDisk, LegacyNeverElected
<1> QED BY <1>1, <1>2

LEMMA ElectionKeeps ==
    ASSUME RecordOK, LockOK, queue # <<>>, UNCHANGED <<storeRev, setBack, owner>>,
           NEW t \in Task, t.active = None, t.asg = 0, (setBack \/ t.rev <= storeRev),
           NEW number \in Nat, NEW reason \in {"elected", "failover"},
           StartElection(t, number, reason)
    PROVE  RecordOK' /\ LockOK'
<1>1. CASE Eligible(t.cands) = {}
  <2> DEFINE u == [t EXCEPT !.active = None, !.asg = 0, !.phase = "idle", !.beat = "none"]
  <2>1. Put(u, number) /\ Release /\ pick' = pick
    BY <1>1 DEF StartElection
  <2>2. u \in Task /\ u.active = None /\ u.asg = 0 /\ u.rev = t.rev
    BY DEF Task, Phase, Cleared, Granted
  <2>3. RecordOK'
    BY <2>1, <2>2, VacantRecordOK DEF Put
  <2>4. LockOK'
    BY <2>1, ReleaseKeepsLock DEF LockOK
  <2> QED BY <2>3, <2>4
<1>2. CASE Eligible(t.cands) # {}
  <2>1. /\ task' = t /\ mapped' = TRUE /\ gen' = number
        /\ pick' \in Eligible(t.cands) /\ pick' \in Conns
        /\ pc' = reason /\ queue' = queue
    BY <1>2 DEF StartElection, Put, Oldest
  <2>2. RecordOK'
    BY <2>1, VacantRecordOK
  <2>3. LockHolder'
    BY <2>1 DEF LockHolder, WriteFenced, Eligible
  <2>4. QueuedOps'
    BY <2>1 DEF LockOK, QueuedOps
  <2> QED BY <2>1, <2>2, <2>3, <2>4 DEF LockOK
<1> QED BY <1>1, <1>2

LEMMA FailoverKeeps ==
    ASSUME RecordOK, LockOK, queue # <<>>, mapped, UNCHANGED <<storeRev, setBack, owner>>,
           NEW t \in Task, (setBack \/ t.rev <= storeRev), Failover(t)
    PROVE  RecordOK' /\ LockOK'
<1>1. Cleared(t) \in Task /\ Cleared(t).active = None /\ Cleared(t).asg = 0 /\ Cleared(t).rev = t.rev
  BY DEF Task, Phase, Cleared, Granted
<1>2. CASE t.cands = {}
  <2>1. KeepOrCleanup(Cleared(t)) /\ Release /\ pick' = pick
    BY <1>2 DEF Failover
  <2>2. RecordOK'
    <3> QED BY <1>1, <2>1, CleanupRecordOK
  <2>3. LockOK'
    BY <2>1, ReleaseKeepsLock DEF LockOK
  <2> QED BY <2>2, <2>3
<1>3. CASE t.cands # {}
  <2>1. StartElection(Cleared(t), gen, "failover")
    BY <1>3 DEF Failover
  <2>2. gen \in Nat
    BY DEF RecordOK
  <2> QED BY <1>1, <2>1, <2>2, ElectionKeeps
<1> QED BY <1>2, <1>3

LEMMA IgnoreKeepsIInv ==
    ASSUME IInv, queue # <<>>, Ignore PROVE IInv'
<1>1. RegistryOK /\ RecordOK /\ LockOK
  BY IInvParts
<1>2. Release /\ UNCHANGED <<taskVars, storeRev, setBack, regVars, outVars>>
  BY DEF Ignore
<1>3. RegistryOK'
  BY <1>1, <1>2 DEF RegistryOK, regVars, outVars
<1>4. RecordOK'
  BY <1>1, <1>2 DEF RecordOK, UnmappedIsEmpty, ActiveHoldsNewest, RevisionOnDisk,
                    LegacyNeverElected, EmptyTask, taskVars, outVars
<1>5. LockOK'
  BY <1>1, <1>2, ReleaseKeepsLock DEF LockOK, taskVars
<1> QED
  <2>1. (IInv <=> RegistryOK /\ RecordOK /\ LockOK)'
    BY IInvParts, PTL
  <2> QED BY <1>3, <1>4, <1>5, <2>1
-----------------------------------------------------------------------------
(* The critical sections, one lemma each                                   *)

LEMMA EnterHelloKeepsIInv ==
    ASSUME IInv, EnterHello PROVE IInv'
<1> DEFINE c == Holder.conn
           old == IF mapped THEN task ELSE EmptyTask
           t == Joined(old, c)
           number == IF mapped THEN gen ELSE gen + 1
<1>1. RegistryOK /\ RecordOK /\ LockOK
  BY IInvParts
<1>2. queue # <<>> /\ c \in Capable /\ c \in Conns
  BY <1>1, HolderTyped DEF EnterHello
<1>3. old = task /\ number \in Nat
  BY <1>1 DEF RecordOK, UnmappedIsEmpty
<1>4. /\ t \in Task /\ t.active = task.active /\ t.asg = task.asg /\ t.rev = task.rev
      /\ t.cands = task.cands \cup {c}
  BY <1>1, <1>2, <1>3 DEF RecordOK, Task, Joined
<1>5. (setBack \/ t.rev <= storeRev) /\ UNCHANGED <<conn, joinedAt, helloed, storeRev, setBack, owner, sending>>
  BY <1>1, <1>4 DEF RecordOK, RevisionOnDisk, EnterHello, regVars
<1>6. told' \in [Conns -> Assignment]
  <2>1. [role |-> "inactive", asg |-> t.asg] \in Assignment
    BY <1>4 DEF Assignment, Task
  <2>2. told' \in {told, [told EXCEPT ![c] = [role |-> "inactive", asg |-> t.asg]]}
    BY DEF EnterHello, ToldStandby
  <2> QED BY <1>1, <1>2, <2>1, <2>2 DEF RegistryOK
<1>7. RegistryOK'
  BY <1>1, <1>5, <1>6 DEF RegistryOK
<1>8. RecordOK' /\ LockOK'
  <2>1. CASE t.active = None
    <3>1. StartElection(t, number, "elected")
      BY <1>2, <2>1, ConstantsAssumption DEF EnterHello
    <3>2. t.asg = 0
      BY <1>1, <1>4, <2>1 DEF RecordOK, ActiveHoldsNewest
    <3> HIDE DEF t, number
    <3> QED BY <1>1, <1>2, <1>3, <1>4, <1>5, <2>1, <3>1, <3>2, ElectionKeeps
  <2>2. CASE t.active # None
    <3>1. Keep(t)
      BY <1>2, <2>2 DEF EnterHello
    <3>2. mapped
      BY <1>1, <1>4, <2>2 DEF RecordOK, UnmappedIsEmpty, EmptyTask
    <3>3. RecordOK'
      BY <1>1, <1>4, <1>5, <3>1, <3>2 DEF RecordOK, UnmappedIsEmpty, ActiveHoldsNewest,
                                          RevisionOnDisk, LegacyNeverElected, Keep
    <3>4. \/ Release /\ pick' = pick
          \/ t.active = c /\ pick' = c /\ pc' = "resync" /\ queue' = queue
      BY <2>2 DEF EnterHello
    <3>5. LockOK'
      <4>1. CASE Release /\ pick' = pick
        BY <1>1, <1>2, <4>1, ReleaseKeepsLock DEF LockOK
      <4>2. CASE t.active = c /\ pick' = c /\ pc' = "resync" /\ queue' = queue
        <5>1. LockHolder'
          BY <1>2, <1>4, <2>2, <3>1, <3>2, <4>2 DEF LockHolder, WriteFenced, Keep
        <5>2. QueuedOps'
          BY <1>1, <4>2 DEF LockOK, QueuedOps
        <5> QED BY <1>1, <1>2, <4>2, <5>1, <5>2 DEF LockOK
      <4> QED BY <3>4, <4>1, <4>2
    <3> QED BY <3>3, <3>5
  <2> QED BY <2>1, <2>2
<1> QED
  <2>1. (IInv <=> RegistryOK /\ RecordOK /\ LockOK)'
    BY IInvParts, PTL
  <2> QED BY <1>7, <1>8, <2>1

LEMMA EnterDisconnectKeepsIInv ==
    ASSUME IInv, EnterDisconnect PROVE IInv'
<1> DEFINE c == Holder.conn
           t == Left(task, c)
<1>1. RegistryOK /\ RecordOK /\ LockOK
  BY IInvParts
<1>2. queue # <<>> /\ c \in Conns
  BY <1>1, HolderTyped DEF EnterDisconnect
<1>3. UNCHANGED <<joinedAt, helloed, storeRev, setBack, owner, told, sending>>
      /\ conn' = [conn EXCEPT ![c] = "gone"]
  BY DEF EnterDisconnect, outVars
<1>4. RegistryOK'
  BY <1>1, <1>2, <1>3 DEF RegistryOK
<1>5. /\ t \in Task /\ t.active = task.active /\ t.asg = task.asg /\ t.rev = task.rev
      /\ t.cands = task.cands \ {c} /\ (setBack \/ t.rev <= storeRev)
  BY <1>1 DEF RecordOK, Task, RevisionOnDisk, Left
<1>6. RecordOK' /\ LockOK'
  <2>1. CASE ~OnLiveRecord
    <3>1. Release /\ UNCHANGED taskVars
      BY <2>1 DEF EnterDisconnect
    <3>2. LockOK'
      BY <1>1, <1>2, <3>1, ReleaseKeepsLock DEF LockOK, taskVars
    <3>3. RecordOK'
      BY <1>1, <1>3, <3>1 DEF RecordOK, UnmappedIsEmpty, ActiveHoldsNewest, RevisionOnDisk,
                              LegacyNeverElected, EmptyTask, taskVars
    <3> QED BY <3>2, <3>3
  <2>2. CASE OnLiveRecord /\ task.active = c
    <3>1. Failover(t) /\ mapped
      BY <2>2 DEF EnterDisconnect, OnLiveRecord
    <3> HIDE DEF t
    <3> QED BY <1>1, <1>2, <1>3, <1>5, <3>1, FailoverKeeps
  <2>3. CASE OnLiveRecord /\ task.active # c
    <3> DEFINE u == [t EXCEPT !.phase =
                        IF t.active = None /\ t.cands = {} THEN "idle" ELSE @]
    <3>1. KeepOrCleanup(u) /\ Release /\ pick' = pick /\ mapped
      BY <2>3 DEF EnterDisconnect, OnLiveRecord
    <3>2. /\ u \in Task /\ u.active = task.active /\ u.asg = task.asg
          /\ u.rev = task.rev /\ u.cands = task.cands \ {c}
      BY <1>5 DEF Task, Phase, Cleared, Granted
    <3>3. /\ (u.active = None) <=> (u.asg = 0)
          /\ u.active # None => u.active \in u.cands
      BY <1>1, <2>3, <3>2 DEF RecordOK, ActiveHoldsNewest
    <3>4. RecordOK'
      <4> HIDE DEF u
      <4> QED BY <1>1, <1>3, <1>5, <3>1, <3>2, <3>3, CleanupRecordOK
    <3>5. LockOK'
      BY <1>1, <1>2, <3>1, ReleaseKeepsLock DEF LockOK
    <3> QED BY <3>4, <3>5
  <2> QED BY <2>1, <2>2, <2>3
<1> QED
  <2>1. (IInv <=> RegistryOK /\ RecordOK /\ LockOK)'
    BY IInvParts, PTL
  <2> QED BY <1>4, <1>6, <2>1

\* A fatal fault and an overdue heartbeat both fail over to the others.
LEMMA ReplaceExecutorKeepsIInv ==
    ASSUME IInv, queue # <<>>, mapped, NEW c,
           Failover(Left(task, c)),
           UNCHANGED <<regVars, storeRev, setBack, outVars>>
    PROVE  IInv'
<1> DEFINE t == Left(task, c)
<1>1. RegistryOK /\ RecordOK /\ LockOK
  BY IInvParts
<1>2. t \in Task /\ (setBack \/ t.rev <= storeRev)
  BY <1>1 DEF RecordOK, Task, RevisionOnDisk, Left
<1>3. RegistryOK'
  BY <1>1 DEF RegistryOK, regVars, outVars
<1>4. RecordOK' /\ LockOK'
  <2>1. Failover(t) /\ UNCHANGED <<storeRev, setBack, owner>>
    BY DEF outVars
  <2> HIDE DEF t
  <2> QED BY <1>1, <1>2, <2>1, FailoverKeeps
<1> QED
  <2>1. (IInv <=> RegistryOK /\ RecordOK /\ LockOK)'
    BY IInvParts, PTL
  <2> QED BY <1>3, <1>4, <2>1

LEMMA EnterFatalFaultKeepsIInv ==
    ASSUME IInv, EnterFatalFault PROVE IInv'
<1>1. queue # <<>>
  BY DEF EnterFatalFault, Enter
<1>2. CASE Ignore
  BY <1>1, <1>2, IgnoreKeepsIInv
<1>3. CASE FromCurrent /\ Failover(Left(task, Holder.conn))
           /\ UNCHANGED <<regVars, storeRev, setBack, outVars>>
  BY <1>1, <1>3, ReplaceExecutorKeepsIInv DEF FromCurrent, OnLiveRecord
<1> QED BY <1>2, <1>3 DEF EnterFatalFault

LEMMA EnterSweepKeepsIInv ==
    ASSUME IInv, EnterSweep PROVE IInv'
<1>1. queue # <<>>
  BY DEF EnterSweep, Enter
<1>2. CASE Ignore
  BY <1>1, <1>2, IgnoreKeepsIInv
<1>3. CASE OnLiveRecord /\ Failover(Left(task, task.active))
           /\ UNCHANGED <<regVars, storeRev, setBack, outVars>>
  BY <1>1, <1>3, ReplaceExecutorKeepsIInv DEF OnLiveRecord
<1> QED BY <1>2, <1>3 DEF EnterSweep

\* The holder keeps the record but for its heartbeat or phase.
LEMMA TouchKeepsIInv ==
    ASSUME IInv, queue # <<>>, mapped, NEW t \in Task,
           t.active = task.active, t.asg = task.asg, t.rev = task.rev, t.cands = task.cands,
           Keep(t), Release, UNCHANGED <<pick, regVars, storeRev, setBack, outVars>>
    PROVE  IInv'
<1>1. RegistryOK /\ RecordOK /\ LockOK
  BY IInvParts
<1>2. RegistryOK'
  BY <1>1 DEF RegistryOK, regVars, outVars
<1>3. RecordOK'
  BY <1>1 DEF RecordOK, UnmappedIsEmpty, ActiveHoldsNewest, RevisionOnDisk,
              LegacyNeverElected, Keep, outVars
<1>4. LockOK'
  BY <1>1, ReleaseKeepsLock DEF LockOK
<1> QED
  <2>1. (IInv <=> RegistryOK /\ RecordOK /\ LockOK)'
    BY IInvParts, PTL
  <2> QED BY <1>2, <1>3, <1>4, <2>1

LEMMA EnterHeartbeatKeepsIInv ==
    ASSUME IInv, EnterHeartbeat PROVE IInv'
<1>1. queue # <<>>
  BY DEF EnterHeartbeat, Enter
<1>2. CASE Ignore
  BY <1>1, <1>2, IgnoreKeepsIInv
<1>3. CASE FromCurrent /\ Keep([task EXCEPT !.beat = "fresh"]) /\ Release
           /\ UNCHANGED <<pick, regVars, storeRev, setBack, outVars>>
  <2> DEFINE t == [task EXCEPT !.beat = "fresh"]
  <2>1. /\ t \in Task /\ t.active = task.active /\ t.asg = task.asg
        /\ t.rev = task.rev /\ t.cands = task.cands
    BY DEF IInv, TypeOK, Task
  <2>2. mapped /\ Keep(t)
    BY <1>3 DEF FromCurrent, OnLiveRecord
  <2> HIDE DEF t
  <2> QED BY <1>1, <1>3, <2>1, <2>2, TouchKeepsIInv
<1> QED BY <1>2, <1>3 DEF EnterHeartbeat

LEMMA EnterSyncCompleteKeepsIInv ==
    ASSUME IInv, EnterSyncComplete PROVE IInv'
<1>1. queue # <<>> /\ Holder.conn \in Conns
  BY HolderTyped, IInvParts DEF EnterSyncComplete
<1>2. CASE Ignore
  BY <1>1, <1>2, IgnoreKeepsIInv
<1>3. CASE FromCurrent /\ pick' = Holder.conn /\ pc' = "resync"
           /\ UNCHANGED <<regVars, mapped, gen, task, queue, storeRev, setBack, outVars>>
  <2>1. TypeOK'
    BY <1>1, <1>3 DEF IInv, TypeOK, regVars, outVars
  <2>2. LockHolder'
    <3>1. Holder.conn # None
      BY <1>1, ConstantsAssumption
    <3> QED BY <1>1, <1>3, <3>1 DEF LockHolder, WriteFenced, FromCurrent, OnLiveRecord
  <2>3. UnmappedIsEmpty' /\ QueuedOps' /\ ActiveHoldsNewest' /\ RevisionOnDisk'
        /\ LegacyNeverElected'
    BY <1>3 DEF IInv, UnmappedIsEmpty, EmptyTask, QueuedOps, ActiveHoldsNewest,
                RevisionOnDisk, LegacyNeverElected, outVars
  <2> QED BY <2>1, <2>2, <2>3 DEF IInv
<1>4. CASE FromCurrent /\ pc' = "complete"
           /\ UNCHANGED <<regVars, taskVars, queue, storeRev, setBack, outVars>>
  <2>1. TypeOK'
    BY <1>4 DEF IInv, TypeOK, regVars, taskVars, outVars
  <2>2. Holder.kind = "sync"
    BY DEF EnterSyncComplete, Enter
  <2>3. LockHolder'
    BY <1>1, <1>4, <2>2 DEF LockHolder, WriteFenced, FromCurrent, OnLiveRecord, Holder, taskVars
  <2>4. UnmappedIsEmpty' /\ QueuedOps' /\ ActiveHoldsNewest' /\ RevisionOnDisk'
        /\ LegacyNeverElected'
    BY <1>4 DEF IInv, UnmappedIsEmpty, EmptyTask, QueuedOps, ActiveHoldsNewest,
                RevisionOnDisk, LegacyNeverElected, outVars, taskVars
  <2> QED BY <2>1, <2>3, <2>4 DEF IInv
<1> QED BY <1>2, <1>3, <1>4 DEF EnterSyncComplete

LEMMA EnterDeltaKeepsIInv ==
    ASSUME IInv, EnterDelta PROVE IInv'
<1>1. queue # <<>> /\ Holder.kind = "delta"
  BY DEF EnterDelta, Enter
<1>2. CASE Ignore
  BY <1>1, <1>2, IgnoreKeepsIInv
<1>3. CASE FromCurrent /\ pc' = "write"
           /\ UNCHANGED <<regVars, taskVars, queue, storeRev, setBack, outVars>>
  <2>1. TypeOK'
    BY <1>3 DEF IInv, TypeOK, regVars, taskVars, outVars
  <2>2. LockHolder'
    BY <1>1, <1>3 DEF LockHolder, WriteFenced, FromCurrent, OnLiveRecord, Holder, taskVars
  <2>3. UnmappedIsEmpty' /\ QueuedOps' /\ ActiveHoldsNewest' /\ RevisionOnDisk'
        /\ LegacyNeverElected'
    BY <1>3 DEF IInv, UnmappedIsEmpty, EmptyTask, QueuedOps, ActiveHoldsNewest,
                RevisionOnDisk, LegacyNeverElected, outVars, taskVars
  <2> QED BY <2>1, <2>2, <2>3 DEF IInv
<1> QED BY <1>2, <1>3 DEF EnterDelta

LEMMA AssignedKeepsIInv ==
    ASSUME IInv, Assigned PROVE IInv'
<1> DEFINE a == Len(owner) + 1
           rest == Others(task)
<1>1. RegistryOK /\ RecordOK /\ LockOK
  BY IInvParts
<1>0. PICK read \in RevisionsRead : Keep(Granted(task, a, read))
  BY DEF Assigned
<1> DEFINE t == Granted(task, a, read)
<1>2. /\ pc \in {"elected", "failover", "resync"}
      /\ Keep(t) /\ owner' = Append(owner, pick) /\ pick' = None /\ Release
      /\ UNCHANGED <<regVars, storeRev>> /\ setBack' = FALSE
  BY <1>0 DEF Assigned
<1>3. pick \in Conns /\ pick \in Capable /\ pick \in task.cands /\ queue # <<>> /\ mapped
  <2>1. queue # <<>> /\ mapped
    BY <1>1, <1>2 DEF LockOK, LockHolder
  <2>2. CASE pc = "resync"
    BY <1>1, <2>1, <2>2 DEF LockOK, LockHolder, RecordOK, ActiveHoldsNewest, LegacyNeverElected, Task
  <2>3. CASE pc # "resync"
    BY <1>1, <1>2, <2>1, <2>3, ConstantsAssumption DEF LockOK, LockHolder
  <2> QED BY <2>1, <2>2, <2>3
<1>4. a \in Nat /\ a # 0 /\ owner' \in Seq(Conns) /\ Len(owner') = a /\ owner'[a] = pick
      /\ DOMAIN owner' = 1..a /\ \A b \in DOMAIN owner : owner'[b] = owner[b]
      /\ DOMAIN owner = 1..(a - 1)
  BY <1>1, <1>2, <1>3 DEF RecordOK
<1>5. /\ t \in Task /\ t.active = pick /\ t.asg = a /\ t.rev = read
      /\ t.cands = task.cands /\ read <= storeRev
  <2>1. storeRev \in Nat /\ task \in Task /\ read \in Nat /\ read <= storeRev
    BY <1>1 DEF RecordOK, RevisionsRead
  <2>2. (task.cooldown \/ pc = "failover") \in BOOLEAN
    OBVIOUS
  <2> QED BY <1>3, <1>4, <2>1, <2>2 DEF Task, Phase, Cleared, Granted
<1>6. RecordOK'
  <2>1. mapped' /\ task' = t /\ gen' = gen /\ storeRev' = storeRev
    BY <1>2, <1>3 DEF Keep
  <2>2. UnmappedIsEmpty'
    BY <2>1 DEF UnmappedIsEmpty
  <2>3. ActiveHoldsNewest'
    BY <1>3, <1>4, <1>5, <2>1, ConstantsAssumption DEF ActiveHoldsNewest
  <2>4. RevisionOnDisk'
    BY <1>1, <1>5, <2>1 DEF RecordOK, RevisionOnDisk
  <2>5. LegacyNeverElected'
    <3>1. \A b \in 1..a : b \in DOMAIN owner \/ b = a
      BY <1>4
    <3> QED BY <1>1, <1>3, <1>4, <3>1 DEF RecordOK, LegacyNeverElected
  <2>6. mapped' \in BOOLEAN /\ task' \in Task
    BY <1>1, <1>2, <1>5, <2>1 DEF RecordOK, Keep
  <2>7. setBack' \in BOOLEAN
    BY <1>2
  <2> QED BY <1>1, <1>4, <2>1, <2>2, <2>3, <2>4, <2>5, <2>6, <2>7 DEF RecordOK
<1>7. LockOK'
  BY <1>1, <1>2, <1>3, ReleaseKeepsLock
<1>8. RegistryOK'
  <2>1. [role |-> "active", asg |-> a] \in Assignment
    BY <1>4 DEF Assignment
  <2>2. told' \in {told, [told EXCEPT ![pick] = [role |-> "active", asg |-> a]]}
    BY DEF Assigned
  <2>3. sending' \in {sending, sending \cup {[on |-> pick, rest |-> rest, asg |-> a]}}
    BY DEF Assigned
  <2>4. [on |-> pick, rest |-> rest, asg |-> a] \in [on: Conns, rest: SUBSET Conns, asg: Nat]
    BY <1>3, <1>4, <1>5 DEF Task, Others
  <2>5. told' \in [Conns -> Assignment]
    BY <1>1, <1>3, <2>1, <2>2 DEF RegistryOK
  <2>6. sending' \in SUBSET [on: Conns, rest: SUBSET Conns, asg: Nat]
    <3> HIDE DEF a, rest
    <3> QED BY <1>1, <2>3, <2>4 DEF RegistryOK
  <2> QED BY <1>1, <1>2, <2>5, <2>6 DEF RegistryOK, regVars
<1> QED
  <2>1. (IInv <=> RegistryOK /\ RecordOK /\ LockOK)'
    BY IInvParts, PTL
  <2> QED BY <1>6, <1>7, <1>8, <2>1

LEMMA DeltaWrittenKeepsIInv ==
    ASSUME IInv, DeltaWritten PROVE IInv'
<1> DEFINE t == [task EXCEPT !.rev = storeRev']
<1>1. RegistryOK /\ RecordOK /\ LockOK
  BY IInvParts
<1>2. /\ \E read \in RevisionsRead : storeRev' = read + 1
      /\ setBack' = FALSE /\ Keep(t) /\ Release
      /\ UNCHANGED <<pick, regVars, outVars>>
  BY DEF DeltaWritten
<1>3. queue # <<>> /\ mapped
  BY <1>1 DEF DeltaWritten, LockOK, LockHolder
<1>4. storeRev' \in Nat
  BY <1>1, <1>2 DEF RecordOK, RevisionsRead
<1>5. /\ t \in Task /\ t.active = task.active /\ t.asg = task.asg
      /\ t.rev = storeRev' /\ t.cands = task.cands
  BY <1>1, <1>4 DEF RecordOK, Task, Joined
<1>6. RecordOK'
  <2> HIDE DEF t
  <2>1. setBack' \in BOOLEAN
    BY <1>2
  <2>2. UNCHANGED <<mapped, gen, owner>> /\ task' = t
    BY <1>2 DEF Keep, outVars
  <2>3. RevisionOnDisk'
    BY <1>4, <1>5, <2>2 DEF RevisionOnDisk
  <2> QED BY <1>1, <1>3, <1>4, <1>5, <2>1, <2>2, <2>3 DEF RecordOK, UnmappedIsEmpty,
                              ActiveHoldsNewest, LegacyNeverElected
<1>7. LockOK'
  BY <1>1, <1>2, <1>3, ReleaseKeepsLock DEF LockOK
<1>8. RegistryOK'
  BY <1>1, <1>2 DEF RegistryOK, regVars, outVars
<1> QED
  <2>1. (IInv <=> RegistryOK /\ RecordOK /\ LockOK)'
    BY IInvParts, PTL
  <2> QED BY <1>6, <1>7, <1>8, <2>1

LEMMA DeltaFailedKeepsIInv ==
    ASSUME IInv, DeltaFailed PROVE IInv'
<1>1. queue # <<>>
  BY DEF DeltaFailed, IInv, LockHolder
<1> QED BY <1>1, IgnoreKeepsIInv DEF DeltaFailed

LEMMA SyncNotCompletedKeepsIInv ==
    ASSUME IInv, SyncNotCompleted PROVE IInv'
<1>1. queue # <<>>
  BY DEF SyncNotCompleted, IInv, LockHolder
<1> QED BY <1>1, IgnoreKeepsIInv DEF SyncNotCompleted

LEMMA SyncCompletedKeepsIInv ==
    ASSUME IInv, SyncCompleted PROVE IInv'
<1> DEFINE t == [task EXCEPT !.phase = "ready"]
<1>1. RegistryOK /\ RecordOK /\ LockOK
  BY IInvParts
<1>2. /\ storeRev' \in RevisionsRead /\ setBack' = (setBack \/ storeRev' # storeRev)
      /\ Keep(t) /\ Release /\ UNCHANGED <<pick, regVars, outVars>>
  BY DEF SyncCompleted
<1>3. queue # <<>> /\ mapped
  BY <1>1 DEF SyncCompleted, LockOK, LockHolder
<1>4. /\ storeRev' \in Nat /\ setBack' \in BOOLEAN
      /\ setBack' \/ (~setBack /\ storeRev' = storeRev)
  <2>1. storeRev' \in Nat
    BY <1>1, <1>2 DEF RecordOK, RevisionsRead
  <2>2. setBack' \in BOOLEAN /\ (setBack' \/ (~setBack /\ storeRev' = storeRev))
    BY <1>2, Zenon
  <2> QED BY <2>1, <2>2
<1>5. /\ t \in Task /\ t.active = task.active /\ t.asg = task.asg
      /\ t.rev = task.rev /\ t.cands = task.cands
  BY <1>1 DEF RecordOK, Task, Phase
<1>6. RecordOK'
  <2> HIDE DEF t
  <2> QED BY <1>1, <1>2, <1>3, <1>4, <1>5 DEF RecordOK, UnmappedIsEmpty, ActiveHoldsNewest,
                              RevisionOnDisk, LegacyNeverElected, Keep, outVars
<1>7. LockOK'
  BY <1>1, <1>2, <1>3, ReleaseKeepsLock DEF LockOK
<1>8. RegistryOK'
  BY <1>1, <1>2 DEF RegistryOK, regVars, outVars
<1> QED
  <2>1. (IInv <=> RegistryOK /\ RecordOK /\ LockOK)'
    BY IInvParts, PTL
  <2> QED BY <1>6, <1>7, <1>8, <2>1

-----------------------------------------------------------------------------
LEMMA InitIInv == Init => IInv
<1> SUFFICES ASSUME Init PROVE IInv
  OBVIOUS
<1>1. TypeOK
  <2>1. EmptyTask \in Task
    BY DEF EmptyTask, Task, Phase
  <2>2. [role |-> "none", asg |-> 0] \in Assignment
    BY DEF Assignment
  <2>3. <<>> \in Seq(Op) /\ <<>> \in Seq(Conns)
    BY EmptySeq
  <2>4. told \in [Conns -> Assignment]
    BY <2>2 DEF Init
  <2>5. conn \in [Conns -> {"new", "open", "shut", "leaving", "gone"}]
        /\ joinedAt \in [Conns -> Nat]
    BY DEF Init
  <2> QED BY <2>1, <2>3, <2>4, <2>5 DEF Init, TypeOK
<1>2. LockHolder /\ UnmappedIsEmpty /\ QueuedOps
  BY DEF Init, LockHolder, WriteFenced, UnmappedIsEmpty, QueuedOps
<1>3. ActiveHoldsNewest /\ RevisionOnDisk /\ LegacyNeverElected
  BY DEF Init, EmptyTask, ActiveHoldsNewest, RevisionOnDisk, LegacyNeverElected
<1> QED BY <1>1, <1>2, <1>3 DEF IInv

LEMMA StepIInv == IInv /\ [Next]_vars => IInv'
<1> SUFFICES ASSUME IInv, [Next]_vars PROVE IInv'
  OBVIOUS
<1>1. ASSUME NEW c \in Conns, Connect(c) \/ ReceiveHello(c) \/ SocketShuts(c) \/ CloseEvent(c)
      PROVE  IInv'
  BY <1>1, ConnectKeepsIInv, ReceiveHelloKeepsIInv, SocketShutsKeepsIInv, CloseEventKeepsIInv
<1>2. ASSUME NEW c \in Conns,
             ReceiveHeartbeat(c) \/ ReceiveFault(c) \/ ReceiveDelta(c) \/ ReceiveSyncComplete(c)
      PROVE  IInv'
  <2>1. PICK kind \in {"beat", "fatal", "delta", "sync"}, base \in Nat :
          ReceiveFromExecutor(c, kind, base)
    BY <1>2, ConstantsAssumption
       DEF ReceiveHeartbeat, ReceiveFault, ReceiveDelta, ReceiveSyncComplete, IInv, TypeOK
  <2> QED BY <2>1, ReceiveKeepsIInv
<1>3. CASE SweepTimer \/ TimeoutElapses \/ CooldownElapses \/ OtherWriter
  BY <1>3, SweepTimerKeepsIInv, TimeKeepsIInv, OtherWriterKeepsIInv
<1>4. CASE \E s \in sending : SocketFlushed(s) \/ SendFailed(s)
  BY <1>4, SendKeepsIInv
<1>5. CASE Server
  BY <1>5, EnterHelloKeepsIInv, EnterDisconnectKeepsIInv, EnterHeartbeatKeepsIInv,
     EnterFatalFaultKeepsIInv, EnterSweepKeepsIInv, EnterDeltaKeepsIInv,
     EnterSyncCompleteKeepsIInv, AssignedKeepsIInv, DeltaWrittenKeepsIInv,
     DeltaFailedKeepsIInv, SyncCompletedKeepsIInv, SyncNotCompletedKeepsIInv DEF Server
<1>6. CASE UNCHANGED vars
  BY <1>6 DEF vars, IInv, TypeOK, LockHolder, WriteFenced, Holder, UnmappedIsEmpty, EmptyTask,
     QueuedOps, ActiveHoldsNewest, RevisionOnDisk, LegacyNeverElected
<1> QED BY <1>1, <1>2, <1>3, <1>4, <1>5, <1>6 DEF Next

\* The inductive invariant holds in every reachable state.
THEOREM Invariance == Spec => []IInv
  BY InitIInv, StepIInv, PTL DEF Spec

\* Every variable keeps the shape the code gives it.
THEOREM TypeCorrect == Spec => []TypeOK
<1>1. IInv => TypeOK
  BY DEF IInv
<1> QED BY <1>1, Invariance, PTL

\* applyDelta, completeInitialSync: no sweep, fault, disconnect or hello that
\* comes in during the store's write lets a connection write, or call the task
\* ready, that is not the current executor under its current assignment.
THEOREM FencedWrites == Spec => []WriteFenced
<1>1. IInv => WriteFenced
  BY DEF IInv, LockHolder
<1> QED BY <1>1, Invariance, PTL

\* electActiveClient, reassignActiveClient, failoverTask: the active executor
\* always holds the newest assignment and is one of the candidates.
THEOREM ActiveConsistent == Spec => []ActiveHoldsNewest
<1>1. IInv => ActiveHoldsNewest
  BY DEF IInv
<1> QED BY <1>1, Invariance, PTL

\* applyDelta, electActiveClient: the revision deltas are checked against is one
\* the manifest has reached, unless it was written from a read that failed since
\* the task took that revision over (store.ts loadManifest).
THEOREM RevisionReached == Spec => []RevisionOnDisk
<1>1. IInv => RevisionOnDisk
  BY DEF IInv
<1> QED BY <1>1, Invariance, PTL

\* electCandidate: a client without cacheTaskV1 is never given an assignment.
THEOREM LegacyExcluded == Spec => []LegacyNeverElected
<1>1. IInv => LegacyNeverElected
  BY DEF IInv
<1> QED BY <1>1, Invariance, PTL

\* electActiveClient, reassignActiveClient: a new assignment never starts out
\* "ready", so a cached snapshot is only served under the assignment whose
\* initial sync was completed.
THEOREM ReadyStartsOver == Spec => ReadyIsNotInherited
<1>1. ASSUME IInv, [Next]_vars, task.phase = "ready", task'.phase = "ready"
      PROVE  task'.asg = task.asg
  <2>1. task \in Task
    BY <1>1 DEF IInv, TypeOK
  <2>2. ASSUME NEW t \in Task, NEW n, NEW r, StartElection(t, n, r), t.phase # "ready"
        PROVE  task'.phase # "ready"
    BY <2>2 DEF StartElection, Put, Task
  <2>3. ASSUME NEW t \in Task, Failover(t) PROVE task'.phase # "ready"
    <3>1. Cleared(t) \in Task /\ Cleared(t).phase # "ready"
      BY DEF Task, Phase, Cleared, Granted
    <3>2. CASE t.cands = {}
      BY <2>3, <3>1, <3>2 DEF Failover, KeepOrCleanup, Keep, EmptyTask
    <3>3. CASE t.cands # {}
      <4>1. StartElection(Cleared(t), gen, "failover")
        BY <2>3, <3>3 DEF Failover
      <4> QED BY <2>2, <3>1, <4>1
    <3> QED BY <3>2, <3>3
  <2>4. CASE task' = task
    BY <2>4
  <2>5. CASE TimeoutElapses \/ CooldownElapses \/ EnterHeartbeat \/ EnterSyncComplete
             \/ DeltaWritten \/ DeltaFailed \/ EnterDelta \/ SyncCompleted \/ SyncNotCompleted
    BY <2>1, <2>5 DEF TimeoutElapses, CooldownElapses, EnterHeartbeat, EnterSyncComplete,
       DeltaWritten, DeltaFailed, EnterDelta, SyncCompleted, SyncNotCompleted, Ignore,
       taskVars, Keep, Task
  <2>6. CASE Assigned
    BY <1>1, <2>1, <2>6 DEF Assigned, Granted, Keep, Task
  <2>7. CASE EnterFatalFault \/ EnterSweep
    <3>1. ASSUME NEW c, Failover(Left(task, c)) PROVE FALSE
      <4>1. Left(task, c) \in Task
        BY <2>1 DEF Left, Task
      <4> QED BY <1>1, <2>3, <3>1, <4>1
    <3>2. CASE Ignore
      BY <3>2 DEF Ignore, taskVars
    <3> QED BY <2>7, <3>1, <3>2 DEF EnterFatalFault, EnterSweep
  <2>8. CASE EnterDisconnect
    <3> DEFINE t == Left(task, Holder.conn)
    <3>1. t \in Task /\ t.asg = task.asg
      BY <2>1 DEF Left, Task
    <3>2. CASE Failover(t)
      BY <1>1, <2>3, <3>1, <3>2
    <3>3. CASE UNCHANGED taskVars
      BY <3>3 DEF taskVars
    <3>4. CASE KeepOrCleanup([t EXCEPT !.phase =
                  IF t.active = None /\ t.cands = {} THEN "idle" ELSE @])
      <4> DEFINE u == [t EXCEPT !.phase =
                          IF t.active = None /\ t.cands = {} THEN "idle" ELSE @]
      <4>1. u.asg = t.asg
        BY <3>1 DEF Task
      <4>2. EmptyTask.phase # "ready"
        BY DEF EmptyTask
      <4>3. task' = u \/ task' = EmptyTask
        BY <3>4 DEF KeepOrCleanup, Keep
      <4> HIDE DEF u
      <4> QED BY <1>1, <3>1, <4>1, <4>2, <4>3
    <3> QED BY <2>8, <3>2, <3>3, <3>4 DEF EnterDisconnect
  <2>9. CASE EnterHello
    <3> DEFINE c == Holder.conn
               old == IF mapped THEN task ELSE EmptyTask
               t == Joined(old, c)
               number == IF mapped THEN gen ELSE gen + 1
    <3>1. c \in Conns
      BY <1>1, <2>9, HolderTyped, IInvParts DEF EnterHello
    <3>2. old = task
      BY <1>1 DEF IInv, UnmappedIsEmpty
    <3>3. t \in Task /\ t.asg = task.asg /\ t.active = task.active
      BY <2>1, <3>1, <3>2 DEF Joined, Task
    <3>4. Keep(t) => task'.asg = task.asg
      BY <3>3 DEF Keep
    <3>5. CASE t.active = None /\ StartElection(t, number, "elected")
      <4>1. CASE Eligible(t.cands) = {}
        BY <1>1, <3>3, <3>5, <4>1 DEF StartElection, Put, Task
      <4>2. CASE Eligible(t.cands) # {}
        BY <3>3, <3>5, <4>2 DEF StartElection, Put
      <4> QED BY <4>1, <4>2
    <3> QED BY <2>9, <3>4, <3>5 DEF EnterHello
  <2> QED
    <3>1. ASSUME NEW c \in Conns,
                 \/ Connect(c) \/ ReceiveHello(c) \/ SocketShuts(c) \/ CloseEvent(c)
                 \/ ReceiveHeartbeat(c) \/ ReceiveFault(c) \/ ReceiveDelta(c)
                 \/ ReceiveSyncComplete(c)
          PROVE  task' = task
      BY <3>1 DEF Connect, ReceiveHello, SocketShuts, CloseEvent, ReceiveHeartbeat,
         ReceiveFault, ReceiveDelta, ReceiveSyncComplete, ReceiveFromExecutor, taskVars
    <3>2. CASE SweepTimer \/ OtherWriter \/ UNCHANGED vars
      BY <2>4, <3>2 DEF SweepTimer, OtherWriter, vars, taskVars
    <3>3. CASE \E s \in sending : SocketFlushed(s) \/ SendFailed(s)
      BY <2>4, <3>3 DEF SocketFlushed, SendFailed, taskVars
    <3> QED BY <1>1, <2>4, <2>5, <2>6, <2>7, <2>8, <2>9, <3>1, <3>2, <3>3 DEF Next, Server
<1> QED BY <1>1, Invariance, PTL DEF Spec, ReadyIsNotInherited

-----------------------------------------------------------------------------
(* The standbys: who may be elected, who believes to be the executor and    *)
(* whether a record has a client left, as the invariant Standbys.           *)

\* The hello of a queued handler stays one the registry has attached.
HelloOpsOK ==
    \A i \in DOMAIN queue : queue[i].kind = "hello" => queue[i].conn \in helloed

LEMMA HelloOpsKept ==
    ASSUME IInv, HelloOpsOK, helloed \subseteq helloed',
           \/ queue' = queue
           \/ queue # <<>> /\ Release
           \/ \E op \in Op : Enqueue(op) /\ (op.kind = "hello" => op.conn \in helloed')
    PROVE  HelloOpsOK'
<1>1. queue \in Seq(Op)
  BY DEF IInv, TypeOK
<1>2. CASE queue' = queue
  BY <1>2 DEF HelloOpsOK
<1>3. CASE queue # <<>> /\ Release
  BY <1>1, <1>3, ReleaseKeepsWaiters DEF HelloOpsOK, Release
<1>4. ASSUME NEW op \in Op, Enqueue(op), op.kind = "hello" => op.conn \in helloed'
      PROVE  HelloOpsOK'
  BY <1>1, <1>4, EnqueueKeepsHolder DEF HelloOpsOK, Enqueue
<1> QED BY <1>2, <1>3, <1>4

\* A step that adds no candidate and replaces no executor: connections only
\* come to their end, nobody is made to believe in an assignment.
LEMMA SameRecordKeepsStandbys ==
    ASSUME IInv, Standbys, HelloOpsOK',
           task'.cands = task.cands, task'.active = task.active, mapped' = mapped,
           \/ pc' = pc /\ pick' = pick
           \/ pc \notin {"elected", "failover"} /\ pc' \notin {"elected", "failover"},
           helloed \subseteq helloed', \A c \in helloed' : conn'[c] # "new",
           \A c \in helloed : conn'[c] = conn[c] \/ conn'[c] \in {"shut", "leaving", "gone"},
           \A c \in helloed : conn'[c] # "gone" => conn[c] # "gone",
           \A c \in helloed : conn'[c] = "open" => conn[c] = "open",
           \A c \in Conns : told'[c].role = "active" => told[c].role = "active"
    PROVE  Standbys'
<1>1. CandidatesHelloed'
  BY DEF Standbys, CandidatesHelloed, HelloOpsOK
<1>2. Eligible(task.cands)' \subseteq Eligible(task.cands)
  <2>1. \A c \in task.cands : c \in helloed /\ conn[c] # "new" /\ c \in Conns
    BY DEF Standbys, CandidatesHelloed, IInv, TypeOK
  <2>2. \A c \in Conns : conn[c] \in {"new", "open", "shut", "leaving", "gone"}
    BY DEF IInv, TypeOK
  <2> QED BY <2>1, <2>2 DEF Eligible, Registered
<1>3. VacantOnlyInElection'
  BY <1>2 DEF Standbys, VacantOnlyInElection
<1>4. BelieverIsElected'
  <2>1. \A c \in task.cands : c \in helloed /\ c \in Conns
    BY DEF Standbys, CandidatesHelloed, IInv, TypeOK
  <2> QED BY <2>1 DEF Standbys, BelieverIsElected
<1>5. RecordServes'
  BY DEF Standbys, RecordServes
<1> QED BY <1>1, <1>3, <1>4, <1>5 DEF Standbys

\* Nothing of the record changes, and nobody's connection or belief.
LEMMA QuietKeepsStandbys ==
    ASSUME IInv, Standbys, HelloOpsOK', UNCHANGED <<conn, helloed, told>>,
           task'.cands = task.cands, task'.active = task.active, mapped' = mapped,
           \/ pc' = pc /\ pick' = pick
           \/ pc \notin {"elected", "failover"} /\ pc' \notin {"elected", "failover"}
    PROVE  Standbys'
<1>1. \A c \in helloed : conn[c] # "new"
  BY DEF Standbys, CandidatesHelloed
<1> QED BY <1>1, SameRecordKeepsStandbys

LEMMA EventKeepsStandbys ==
    ASSUME IInv, Standbys, NEW c \in Conns,
           Connect(c) \/ ReceiveHello(c) \/ SocketShuts(c) \/ CloseEvent(c)
    PROVE  Standbys'
<1>1. HelloOpsOK /\ conn \in [Conns -> {"new", "open", "shut", "leaving", "gone"}]
      /\ told \in [Conns -> Assignment] /\ helloed \subseteq Conns
      /\ \A d \in helloed : conn[d] # "new"
  BY DEF Standbys, CandidatesHelloed, HelloOpsOK, IInv, TypeOK
<1>2. CASE Connect(c)
  <2>1. UNCHANGED <<helloed, taskVars, queue, pc, storeRev, setBack, outVars>> /\ conn[c] = "new"
        /\ conn' = [conn EXCEPT ![c] = "open"]
    BY <1>2 DEF Connect
  <2>2. HelloOpsOK' /\ c \notin helloed
    BY <1>1, <2>1, HelloOpsKept
  <2> QED BY <1>1, <2>1, <2>2, SameRecordKeepsStandbys DEF taskVars, outVars
<1>3. CASE ReceiveHello(c)
  <2>1. /\ conn[c] = "open" /\ helloed' = helloed \cup {c}
        /\ UNCHANGED <<conn, joinedAt, taskVars, pc, storeRev, setBack, owner, sending>>
        /\ told' \in {told, [told EXCEPT ![c] = [role |-> "inactive", asg |-> 0]]}
    BY <1>3 DEF ReceiveHello
  <2>2. HelloOpsOK'
    <3> DEFINE op == [kind |-> "hello", conn |-> c, of |-> 0, asg |-> 0, base |-> 0]
    <3>1. op \in Op /\ op.conn \in helloed'
      BY <2>1 DEF Op
    <3>2. Enqueue(op) \/ queue' = queue
      BY <1>3 DEF ReceiveHello
    <3> HIDE DEF op
    <3> QED BY <1>1, <2>1, <3>1, <3>2, HelloOpsKept
  <2>3. \A d \in Conns : told'[d].role = "active" => told[d].role = "active"
    BY <1>1, <2>1
  <2> QED BY <1>1, <2>1, <2>2, <2>3, SameRecordKeepsStandbys DEF taskVars
<1>4. CASE SocketShuts(c)
  <2>1. UNCHANGED <<helloed, taskVars, queue, pc, storeRev, setBack, outVars>>
        /\ conn' = [conn EXCEPT ![c] = "shut"] /\ conn[c] = "open"
    BY <1>4 DEF SocketShuts
  <2>2. HelloOpsOK'
    BY <1>1, <2>1, HelloOpsKept
  <2> QED BY <1>1, <2>1, <2>2, SameRecordKeepsStandbys DEF taskVars, outVars
<1>5. CASE CloseEvent(c)
  <2> DEFINE op == [kind |-> "disconnect", conn |-> c, of |-> gen, asg |-> 0, base |-> 0]
  <2>1. /\ UNCHANGED <<helloed, taskVars, pc, storeRev, setBack, outVars>> /\ conn[c] = "shut"
        /\ conn' \in {[conn EXCEPT ![c] = "leaving"], [conn EXCEPT ![c] = "gone"]}
        /\ Enqueue(op) \/ queue' = queue
    BY <1>5 DEF CloseEvent
  <2>2. op \in Op /\ op.kind # "hello"
    BY DEF Op, IInv, TypeOK
  <2>3. HelloOpsOK'
    <3> HIDE DEF op
    <3> QED BY <1>1, <2>1, <2>2, HelloOpsKept
  <2> QED BY <1>1, <2>1, <2>3, SameRecordKeepsStandbys DEF taskVars, outVars
<1> QED BY <1>2, <1>3, <1>4, <1>5

LEMMA RequestKeepsStandbys ==
    ASSUME IInv, Standbys, NEW op \in Op, op.kind # "hello", Enqueue(op),
           UNCHANGED <<regVars, taskVars, pc, storeRev, setBack, outVars>>
    PROVE  Standbys'
<1>1. HelloOpsOK'
  BY HelloOpsKept DEF Standbys, CandidatesHelloed, HelloOpsOK, regVars
<1> QED BY <1>1, QuietKeepsStandbys DEF regVars, taskVars, outVars

LEMMA ReceiveKeepsStandbys ==
    ASSUME IInv, Standbys, NEW c \in Conns, NEW kind \in {"beat", "fatal", "delta", "sync"},
           NEW base \in Nat, ReceiveFromExecutor(c, kind, base)
    PROVE  Standbys'
<1>1. PICK a \in DOMAIN owner :
         Enqueue([kind |-> kind, conn |-> c, of |-> gen, asg |-> a, base |-> base])
  BY DEF ReceiveFromExecutor
<1>2. [kind |-> kind, conn |-> c, of |-> gen, asg |-> a, base |-> base] \in Op
  BY DEF Op, IInv, TypeOK
<1> QED BY <1>1, <1>2, RequestKeepsStandbys DEF ReceiveFromExecutor

LEMMA TimersKeepStandbys ==
    ASSUME IInv, Standbys, SweepTimer \/ TimeoutElapses \/ CooldownElapses \/ OtherWriter
    PROVE  Standbys'
<1>1. HelloOpsOK /\ task \in Task
  BY DEF Standbys, CandidatesHelloed, HelloOpsOK, IInv, TypeOK
<1>2. CASE SweepTimer
  <2> DEFINE op == [kind |-> "sweep", conn |-> None, of |-> gen, asg |-> 0, base |-> 0]
  <2>1. op \in Op /\ op.kind # "hello" /\ Enqueue(op)
    BY <1>2 DEF SweepTimer, Op, IInv, TypeOK
  <2> HIDE DEF op
  <2> QED BY <1>2, <2>1, RequestKeepsStandbys DEF SweepTimer
<1>3. CASE TimeoutElapses \/ CooldownElapses \/ OtherWriter
  <2>1. UNCHANGED <<conn, joinedAt, helloed, mapped, pick, queue, pc, told>>
        /\ task'.cands = task.cands /\ task'.active = task.active
    BY <1>1, <1>3 DEF TimeoutElapses, CooldownElapses, OtherWriter, regVars, outVars, taskVars, Task
  <2>2. HelloOpsOK'
    BY <1>1, <2>1, HelloOpsKept
  <2> QED BY <2>1, <2>2, QuietKeepsStandbys
<1> QED BY <1>2, <1>3

LEMMA SendKeepsStandbys ==
    ASSUME IInv, Standbys, NEW s \in sending, SocketFlushed(s) \/ SendFailed(s)
    PROVE  Standbys'
<1>1. /\ UNCHANGED <<conn, joinedAt, helloed, mapped, gen, task, pick, queue, pc>>
      /\ \A c \in Conns : told'[c].role = "active" => told[c].role = "active"
  <2>1. CASE SendFailed(s)
    BY <2>1 DEF SendFailed, regVars, taskVars
  <2>2. CASE SocketFlushed(s)
    <3>1. PICK c \in s.rest : told' \in {told, [told EXCEPT ![c] = [role |-> "inactive", asg |-> s.asg]]}
      BY <2>2 DEF SocketFlushed
    <3>2. told \in [Conns -> Assignment]
      BY DEF IInv, TypeOK
    <3>3. \A d \in Conns : told'[d].role = "active" => told[d].role = "active"
      BY <3>1, <3>2
    <3> QED BY <2>2, <3>3 DEF SocketFlushed, regVars, taskVars
  <2> QED BY <2>1, <2>2
<1>2. HelloOpsOK' /\ \A c \in helloed : conn[c] # "new"
  BY <1>1, HelloOpsKept DEF Standbys, CandidatesHelloed, HelloOpsOK
<1> QED BY <1>1, <1>2, SameRecordKeepsStandbys

\* The holder ends without touching candidates and executor.
LEMMA EndKeepsStandbys ==
    ASSUME IInv, Standbys, queue # <<>>, Release, pc \notin {"elected", "failover"},
           UNCHANGED <<conn, helloed, told, mapped>>,
           task'.cands = task.cands, task'.active = task.active
    PROVE  Standbys'
<1>1. HelloOpsOK'
  BY HelloOpsKept DEF Standbys, CandidatesHelloed, HelloOpsOK
<1> QED BY <1>1, QuietKeepsStandbys DEF Release

LEMMA IgnoreKeepsStandbys ==
    ASSUME IInv, Standbys, queue # <<>>, pc \notin {"elected", "failover"}, Ignore
    PROVE  Standbys'
  BY EndKeepsStandbys DEF Ignore, regVars, taskVars, outVars

\* failoverTask: whoever is left as a candidate was one before, and was not
\* the executor.
LEMMA FailoverKeepsStandbys ==
    ASSUME IInv, Standbys, queue # <<>>, pc = "free", mapped,
           NEW t \in Task, t.cands \subseteq task.cands \ {task.active}, Failover(t),
           UNCHANGED <<helloed, told>>, \A c \in helloed : conn'[c] # "new",
           \A c \in t.cands : conn'[c] = conn[c]
    PROVE  Standbys'
<1>1. HelloOpsOK'
  BY HelloOpsKept DEF Standbys, CandidatesHelloed, HelloOpsOK, Failover, StartElection
<1>2. Cleared(t).active = None /\ Cleared(t).cands = t.cands /\ Cleared(t) \in Task
  BY DEF Cleared, Task, Phase
<1>3. t.cands \subseteq helloed
  BY DEF Standbys, CandidatesHelloed
<1>4. \A c \in t.cands : conn[c] = "open" => told[c].role # "active"
  BY DEF Standbys, BelieverIsElected
<1>5. CASE t.cands = {}
  <2>1. mapped' = FALSE /\ task' = EmptyTask
    BY <1>2, <1>5 DEF Failover, KeepOrCleanup
  <2>2. EmptyTask.cands = {}
    BY DEF EmptyTask
  <2> QED BY <1>1, <2>1, <2>2 DEF Standbys, CandidatesHelloed, HelloOpsOK,
             VacantOnlyInElection, BelieverIsElected, RecordServes, Eligible
<1>6. CASE t.cands # {}
  <2>1. StartElection(Cleared(t), gen, "failover")
    BY <1>6 DEF Failover
  <2>2. task'.cands = t.cands
    BY <1>2, <2>1 DEF StartElection, Put, Task
  <2>3. CandidatesHelloed' /\ RecordServes'
    BY <1>1, <1>3, <1>6, <2>2 DEF CandidatesHelloed, HelloOpsOK, RecordServes
  <2>4. BelieverIsElected'
    BY <1>4, <2>2 DEF BelieverIsElected
  <2>5. VacantOnlyInElection'
    <3>1. CASE Eligible(t.cands) = {}
      BY <2>2, <3>1 DEF VacantOnlyInElection, Eligible, Registered
    <3>2. CASE Eligible(t.cands) # {}
      BY <1>2, <2>1, <3>2 DEF VacantOnlyInElection, StartElection
    <3> QED BY <3>1, <3>2
  <2> QED BY <2>3, <2>4, <2>5 DEF Standbys
<1> QED BY <1>5, <1>6

LEMMA EnterHelloKeepsStandbys ==
    ASSUME IInv, Standbys, EnterHello PROVE Standbys'
<1> DEFINE c == Holder.conn
           t == Joined(IF mapped THEN task ELSE EmptyTask, c)
           number == IF mapped THEN gen ELSE gen + 1
<1>1. queue # <<>> /\ c \in Capable /\ c \in Conns /\ pc = "free" /\ c \in helloed
  <2>1. queue # <<>> /\ c \in Capable /\ c \in Conns /\ pc = "free" /\ Holder.kind = "hello"
    BY HolderTyped, IInvParts DEF EnterHello, Enter
  <2>2. Holder = queue[1] /\ 1 \in DOMAIN queue
    BY <2>1, ReleaseKeepsWaiters DEF IInv, TypeOK, Holder
  <2> QED BY <2>1, <2>2 DEF Standbys, CandidatesHelloed
<1>2. t \in Task /\ t.active = task.active /\ t.cands = task.cands \cup {c}
  BY <1>1 DEF IInv, TypeOK, UnmappedIsEmpty, Task, Joined
<1>3. UNCHANGED <<conn, joinedAt, helloed, storeRev, setBack, owner, sending>>
  BY DEF EnterHello, regVars
<1>4. HelloOpsOK'
  BY <1>1, <1>3, HelloOpsKept DEF Standbys, CandidatesHelloed, HelloOpsOK, EnterHello, StartElection
<1>5. \A d \in task.cands \ {task.active} : conn[d] = "open" => told[d].role # "active"
  BY <1>1 DEF Standbys, BelieverIsElected
<1>6. task'.cands = t.cands /\ mapped' \in BOOLEAN
  <2>1. CASE Keep(t)
    BY <2>1 DEF Keep, IInv, TypeOK
  <2>2. CASE StartElection(t, number, "elected")
    BY <1>2, <2>2 DEF StartElection, Put, Task
  <2> QED BY <2>1, <2>2 DEF EnterHello
<1>7. CandidatesHelloed' /\ RecordServes'
  BY <1>1, <1>2, <1>3, <1>4, <1>6 DEF Standbys, CandidatesHelloed, HelloOpsOK, RecordServes
<1>8. CASE t.active = None
  <2>1. StartElection(t, number, "elected") /\ told' = told
    BY <1>1, <1>8, ConstantsAssumption DEF EnterHello
  <2>2. Eligible(task.cands) = {}
    BY <1>1, <1>2, <1>8 DEF Standbys, VacantOnlyInElection
  <2>3. Eligible(t.cands) \subseteq {c}
    BY <1>2, <2>2 DEF Eligible
  <2>5. conn[c] = "open" => c \in Eligible(t.cands)
    BY <1>1, <1>2 DEF Eligible, Registered
  <2>6. CASE Eligible(t.cands) = {}
    <3>1. task'.active = None /\ pc' = "free"
      BY <1>2, <2>1, <2>6 DEF StartElection, Put, Release, Task
    <3>2. BelieverIsElected'
      BY <1>2, <1>3, <1>5, <1>6, <1>8, <2>1, <2>5, <2>6, <3>1 DEF BelieverIsElected
    <3>3. VacantOnlyInElection'
      BY <1>3, <1>6, <2>6 DEF VacantOnlyInElection, Eligible, Registered
    <3> QED BY <1>7, <3>2, <3>3 DEF Standbys
  <2>7. CASE Eligible(t.cands) # {}
    <3>1. task' = t /\ pc' = "elected" /\ pick' \in Eligible(t.cands)
      BY <2>1, <2>7 DEF StartElection, Put, Oldest
    <3>2. pick' = c
      BY <2>3, <3>1
    <3>3. BelieverIsElected'
      BY <1>2, <1>3, <1>5, <1>8, <2>1, <3>1, <3>2 DEF BelieverIsElected
    <3>4. VacantOnlyInElection'
      BY <3>1 DEF VacantOnlyInElection
    <3> QED BY <1>7, <3>3, <3>4 DEF Standbys
  <2> QED BY <2>6, <2>7
<1>9. CASE t.active # None
  <2>1. task' = t /\ pc' \in {"free", "resync"}
    BY <1>1, <1>9 DEF EnterHello, Keep, Release
  <2>2. VacantOnlyInElection'
    BY <1>9, <2>1 DEF VacantOnlyInElection
  <2>3. CASE t.active = c
    <3>1. told' = told
      BY <1>1, <1>9, <2>3, ConstantsAssumption DEF EnterHello
    <3>2. BelieverIsElected'
      BY <1>2, <1>3, <1>5, <2>1, <2>3, <3>1 DEF BelieverIsElected
    <3> QED BY <1>7, <2>2, <3>2 DEF Standbys
  <2>4. CASE t.active # c
    <3>1. told' = ToldStandby(c, t)
      BY <1>9, <2>4 DEF EnterHello
    <3>2. told \in [Conns -> Assignment]
      BY DEF IInv, TypeOK
    <3>3. \A d \in Conns : conn[d] = "open" /\ told'[d].role = "active"
                               => d # c /\ told[d].role = "active"
      BY <1>1, <3>1, <3>2 DEF ToldStandby
    <3>4. BelieverIsElected'
      <4>1. task.cands \subseteq Conns
        BY DEF IInv, TypeOK, Task
      <4>2. task'.cands = task.cands \cup {c} /\ task'.active = task.active
        BY <1>2, <2>1
      <4>3. conn' = conn
        BY <1>3
      <4> HIDE DEF c, t
      <4>4. ASSUME NEW d \in task'.cands \ {task'.active}, conn'[d] = "open", told'[d].role = "active"
            PROVE  FALSE
        <5>1. d \in task.cands \cup {c} /\ d # task.active /\ d \in Conns /\ conn[d] = "open"
          BY <1>1, <4>1, <4>2, <4>3, <4>4
        <5> QED BY <1>5, <3>3, <4>4, <5>1
      <4> QED BY <4>4 DEF BelieverIsElected
    <3> QED BY <1>7, <2>2, <3>4 DEF Standbys
  <2> QED BY <2>3, <2>4
<1> QED BY <1>8, <1>9

LEMMA EnterDisconnectKeepsStandbys ==
    ASSUME IInv, Standbys, EnterDisconnect PROVE Standbys'
<1> DEFINE c == Holder.conn
           t == Left(task, c)
<1>1. queue # <<>> /\ c \in Conns /\ pc = "free"
  BY HolderTyped, IInvParts DEF EnterDisconnect, Enter
<1>2. UNCHANGED <<joinedAt, helloed, storeRev, setBack, owner, told, sending>>
      /\ conn' = [conn EXCEPT ![c] = "gone"]
  BY DEF EnterDisconnect, outVars
<1>3. /\ conn \in [Conns -> {"new", "open", "shut", "leaving", "gone"}] /\ helloed \subseteq Conns
      /\ \A d \in helloed : conn[d] # "new"
  BY DEF IInv, TypeOK, Standbys, CandidatesHelloed
<1>4. /\ \A d \in helloed : conn'[d] # "new"
      /\ \A d \in helloed : conn'[d] = conn[d] \/ conn'[d] = "gone"
      /\ \A d \in Conns \ {c} : conn'[d] = conn[d]
  BY <1>1, <1>2, <1>3
<1>5. t \in Task /\ t.active = task.active /\ t.cands = task.cands \ {c} /\ task.cands \subseteq Conns
  BY DEF IInv, TypeOK, Task, Left
<1>6. CASE ~OnLiveRecord
  <2>1. Release /\ UNCHANGED taskVars
    BY <1>6 DEF EnterDisconnect
  <2>2. HelloOpsOK'
    BY <1>1, <1>2, <2>1, HelloOpsKept DEF Standbys, CandidatesHelloed, HelloOpsOK
  <2>3. pc' = "free" /\ task' = task /\ mapped' = mapped
    BY <2>1 DEF Release, taskVars
  <2> QED BY <1>1, <1>2, <1>4, <2>2, <2>3, SameRecordKeepsStandbys
<1>7. CASE OnLiveRecord /\ task.active = c
  <2>1. Failover(t) /\ mapped
    BY <1>7 DEF EnterDisconnect, OnLiveRecord
  <2>2. t.cands \subseteq task.cands \ {task.active} /\ \A d \in t.cands : conn'[d] = conn[d]
    BY <1>4, <1>5, <1>7
  <2> HIDE DEF t
  <2> QED BY <1>1, <1>2, <1>4, <1>5, <2>1, <2>2, FailoverKeepsStandbys
<1>8. CASE OnLiveRecord /\ task.active # c
  <2> DEFINE u == [t EXCEPT !.phase =
                      IF t.active = None /\ t.cands = {} THEN "idle" ELSE @]
  <2>1. KeepOrCleanup(u) /\ Release /\ pick' = pick /\ mapped
    BY <1>8 DEF EnterDisconnect, OnLiveRecord
  <2>2. u.active = task.active /\ u.cands = task.cands \ {c}
    BY <1>5 DEF Task
  <2>3. HelloOpsOK' /\ pc' = "free"
    BY <1>1, <1>2, <2>1, HelloOpsKept DEF Standbys, CandidatesHelloed, HelloOpsOK, Release
  <2>4. task.active # None => task.active \in task.cands
    BY DEF IInv, ActiveHoldsNewest
  <2>5. CASE u.active = None /\ u.cands = {}
    <3>1. mapped' = FALSE /\ task' = EmptyTask
      BY <2>1, <2>5 DEF KeepOrCleanup
    <3>2. EmptyTask.cands = {}
      BY DEF EmptyTask
    <3> QED BY <1>2, <1>4, <2>3, <3>1, <3>2 DEF Standbys, CandidatesHelloed, HelloOpsOK,
               VacantOnlyInElection, BelieverIsElected, RecordServes, Eligible
  <2>6. CASE ~(u.active = None /\ u.cands = {})
    <3>1. task' = u /\ mapped' = mapped
      BY <2>1, <2>6 DEF KeepOrCleanup, Keep
    <3>2. task'.active = task.active /\ task'.cands = task.cands \ {c}
      BY <2>2, <3>1
    <3>3. CandidatesHelloed'
      BY <1>2, <1>4, <2>3, <3>2 DEF Standbys, CandidatesHelloed, HelloOpsOK
    <3>4. RecordServes'
      BY <1>8, <2>2, <2>4, <2>6, <3>2 DEF RecordServes
    <3>5. BelieverIsElected'
      BY <1>1, <1>2, <1>4, <1>5, <2>3, <3>2 DEF Standbys, BelieverIsElected
    <3>6. VacantOnlyInElection'
      <4>1. Eligible(task.cands)' \subseteq Eligible(task.cands)
        BY <1>2, <1>4, <1>5, <3>2 DEF Eligible, Registered
      <4> QED BY <1>1, <3>2, <4>1 DEF Standbys, VacantOnlyInElection
    <3> QED BY <3>3, <3>4, <3>5, <3>6 DEF Standbys
  <2> QED BY <2>5, <2>6
<1> QED BY <1>6, <1>7, <1>8

LEMMA ReplaceKeepsStandbys ==
    ASSUME IInv, Standbys, queue # <<>>, pc = "free", mapped,
           Failover(Left(task, task.active)), UNCHANGED <<regVars, storeRev, setBack, outVars>>
    PROVE  Standbys'
<1> DEFINE t == Left(task, task.active)
<1>1. t \in Task /\ t.cands = task.cands \ {task.active}
  BY DEF IInv, TypeOK, Task, Left
<1>2. Failover(t) /\ UNCHANGED <<conn, helloed, told>> /\ \A c \in helloed : conn[c] # "new"
  BY DEF Standbys, CandidatesHelloed, regVars, outVars
<1> HIDE DEF t
<1> QED BY <1>1, <1>2, FailoverKeepsStandbys

LEMMA RequestsEndKeepingStandbys ==
    ASSUME IInv, Standbys,
           EnterHeartbeat \/ EnterFatalFault \/ EnterSweep \/ EnterDelta \/ EnterSyncComplete
    PROVE  Standbys'
<1>1. queue # <<>> /\ pc = "free" /\ task \in Task
  BY DEF EnterHeartbeat, EnterFatalFault, EnterSweep, EnterDelta, EnterSyncComplete, Enter,
         IInv, TypeOK
<1>2. CASE Ignore
  BY <1>1, <1>2, IgnoreKeepsStandbys
<1>3. CASE EnterFatalFault \/ EnterSweep
  <2>1. FromCurrent => task.active = Holder.conn /\ mapped
    BY DEF FromCurrent, OnLiveRecord
  <2> QED BY <1>1, <1>2, <1>3, <2>1, ReplaceKeepsStandbys DEF EnterFatalFault, EnterSweep, OnLiveRecord
<1>4. CASE EnterHeartbeat
  <2>1. CASE Keep([task EXCEPT !.beat = "fresh"]) /\ Release
             /\ UNCHANGED <<pick, regVars, storeRev, setBack, outVars>>
    <3>1. mapped' = mapped /\ task'.cands = task.cands /\ task'.active = task.active
      BY <1>1, <2>1 DEF Keep, Task
    <3> QED BY <1>1, <2>1, <3>1, EndKeepsStandbys DEF regVars, outVars
  <2> QED BY <1>2, <1>4, <2>1 DEF EnterHeartbeat
<1>5. CASE EnterSyncComplete
  <2>1. CASE pc' = "complete" /\ UNCHANGED <<regVars, taskVars, queue, storeRev, setBack, outVars>>
    <3>1. HelloOpsOK'
      BY <2>1, HelloOpsKept DEF Standbys, CandidatesHelloed, HelloOpsOK, regVars
    <3> QED BY <1>1, <2>1, <3>1, QuietKeepsStandbys DEF regVars, outVars, taskVars
  <2>2. CASE pc' = "resync" /\ UNCHANGED <<regVars, mapped, gen, task, queue, storeRev, setBack, outVars>>
    <3>1. HelloOpsOK'
      BY <2>2, HelloOpsKept DEF Standbys, CandidatesHelloed, HelloOpsOK, regVars
    <3> QED BY <1>1, <2>2, <3>1, QuietKeepsStandbys DEF regVars, outVars
  <2> QED BY <1>2, <1>5, <2>1, <2>2 DEF EnterSyncComplete
<1>6. CASE EnterDelta
  <2>1. CASE pc' = "write" /\ UNCHANGED <<regVars, taskVars, queue, storeRev, setBack, outVars>>
    <3>1. HelloOpsOK'
      BY <2>1, HelloOpsKept DEF Standbys, CandidatesHelloed, HelloOpsOK, regVars
    <3> QED BY <1>1, <2>1, <3>1, QuietKeepsStandbys DEF regVars, outVars, taskVars
  <2> QED BY <1>2, <1>6, <2>1 DEF EnterDelta
<1> QED BY <1>3, <1>4, <1>5, <1>6

LEMMA WritesKeepStandbys ==
    ASSUME IInv, Standbys, DeltaWritten \/ DeltaFailed \/ SyncCompleted \/ SyncNotCompleted
    PROVE  Standbys'
<1>1. queue # <<>> /\ pc \in {"write", "complete"} /\ task \in Task
  BY DEF DeltaWritten, DeltaFailed, SyncCompleted, SyncNotCompleted, IInv, LockHolder, TypeOK
<1>2. CASE DeltaFailed \/ SyncNotCompleted
  BY <1>1, <1>2, IgnoreKeepsStandbys DEF DeltaFailed, SyncNotCompleted
<1>3. CASE DeltaWritten \/ SyncCompleted
  <2>1. mapped' = mapped /\ task'.cands = task.cands /\ task'.active = task.active
    BY <1>1, <1>3 DEF DeltaWritten, SyncCompleted, Keep, Task
  <2> QED BY <1>1, <1>3, <2>1, EndKeepsStandbys DEF DeltaWritten, SyncCompleted, regVars, outVars
<1> QED BY <1>2, <1>3

LEMMA AssignedKeepsStandbys ==
    ASSUME IInv, Standbys, Assigned PROVE Standbys'
<1> DEFINE a == Len(owner) + 1
<1>1. /\ pc \in {"elected", "failover", "resync"} /\ Release
      /\ \E read \in RevisionsRead : Keep(Granted(task, a, read))
      /\ UNCHANGED regVars
      /\ told' \in {told, [told EXCEPT ![pick] = [role |-> "active", asg |-> a]]}
  BY DEF Assigned
<1>2. /\ queue # <<>> /\ mapped /\ task \in Task /\ task.cands \subseteq Conns
      /\ told \in [Conns -> Assignment]
      /\ pc \in {"elected", "failover"} => task.active = None /\ pick \in task.cands
      /\ pc = "resync" => pick = task.active /\ task.active # None
  BY <1>1 DEF IInv, LockHolder, TypeOK, Task
<1>3. pick # None
  BY <1>1, <1>2, ConstantsAssumption
<1>4. task'.active = pick /\ task'.cands = task.cands /\ mapped' = mapped /\ pc' = "free"
  BY <1>1, <1>2 DEF Keep, Granted, Task, Release
<1>5. HelloOpsOK'
  BY <1>1, <1>2, HelloOpsKept DEF Standbys, CandidatesHelloed, HelloOpsOK, regVars
<1>6. CandidatesHelloed' /\ RecordServes'
  BY <1>1, <1>4, <1>5 DEF Standbys, CandidatesHelloed, RecordServes, HelloOpsOK, regVars
<1>7. VacantOnlyInElection'
  BY <1>3, <1>4 DEF VacantOnlyInElection
<1>8. BelieverIsElected'
  <2>1. ASSUME NEW c \in task.cands, c # pick, conn[c] = "open"
        PROVE  told'[c].role # "active"
    <3>1. told'[c] = told[c]
      BY <1>1, <1>2, <2>1
    <3>2. c # task.active
      BY <1>1, <1>2, <2>1, ConstantsAssumption
    <3> QED BY <2>1, <3>1, <3>2 DEF Standbys, BelieverIsElected
  <2> QED BY <1>1, <1>4, <2>1 DEF BelieverIsElected, regVars
<1> QED BY <1>6, <1>7, <1>8 DEF Standbys

LEMMA StandbysInvariant == Spec => []Standbys
<1>1. Init => Standbys
  BY DEF Init, EmptyTask, Standbys, CandidatesHelloed, VacantOnlyInElection, Eligible,
         BelieverIsElected, RecordServes
<1>2. IInv /\ Standbys /\ [Next]_vars => Standbys'
  <2> SUFFICES ASSUME IInv, Standbys, [Next]_vars PROVE Standbys'
    OBVIOUS
  <2>1. ASSUME NEW c \in Conns,
               ReceiveHeartbeat(c) \/ ReceiveFault(c) \/ ReceiveDelta(c) \/ ReceiveSyncComplete(c)
        PROVE  Standbys'
    <3>1. PICK kind \in {"beat", "fatal", "delta", "sync"}, base \in Nat :
            ReceiveFromExecutor(c, kind, base)
      BY <2>1, ConstantsAssumption
         DEF ReceiveHeartbeat, ReceiveFault, ReceiveDelta, ReceiveSyncComplete, IInv, TypeOK
    <3> QED BY <3>1, ReceiveKeepsStandbys
  <2>2. CASE UNCHANGED vars
    <3>1. HelloOpsOK'
      BY <2>2, HelloOpsKept DEF Standbys, CandidatesHelloed, HelloOpsOK, vars
    <3> QED BY <2>2, <3>1, QuietKeepsStandbys DEF vars
  <2> QED BY <2>1, <2>2, EventKeepsStandbys, TimersKeepStandbys, SendKeepsStandbys,
             EnterHelloKeepsStandbys, EnterDisconnectKeepsStandbys, RequestsEndKeepingStandbys,
             WritesKeepStandbys, AssignedKeepsStandbys DEF Next, Server
<1> QED BY <1>1, <1>2, Invariance, PTL DEF Spec

\* electActiveClient, failoverTask, handleDisconnect: with every handler done,
\* a task whose candidates include an eligible one has an active executor.
THEOREM NoStandbyForgotten == Spec => []StandbyPromoted
<1>1. IInv /\ Standbys => StandbyPromoted
  BY DEF IInv, LockHolder, Standbys, VacantOnlyInElection, StandbyPromoted
<1> QED BY <1>1, Invariance, StandbysInvariant, PTL

\* registerHello, failoverTask: a candidate that is not the executor has been
\* told so since it last was, however late the messages to the others go out.
THEOREM NobodyMisled == Spec => []NoFalseExecutor
<1>1. IInv /\ Standbys => NoFalseExecutor
  BY DEF IInv, LockHolder, Standbys, BelieverIsElected, NoFalseExecutor
<1> QED BY <1>1, Invariance, StandbysInvariant, PTL

\* cleanupIdleTask: a record in the map has a candidate.
THEOREM RecordsServe == Spec => []NoEmptyRecord
<1>1. Standbys => NoEmptyRecord
  BY DEF Standbys, RecordServes, NoEmptyRecord
<1> QED BY <1>1, StandbysInvariant, PTL
=============================================================================
