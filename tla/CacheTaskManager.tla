-------------------------- MODULE CacheTaskManager --------------------------
(***************************************************************************)
(* The server side of the cache task of ONE (deviceId, cwd):               *)
(* server/src/cache-task-manager.ts, the registry it elects from           *)
(* (client-registry.ts) and the event handlers of server.ts that drive it. *)
(*                                                                         *)
(* At most one connection per task is the "active executor" that may write *)
(* the device's manifest.  Every handler is an async function started with *)
(* `void this.handleMessage(...)`: it runs synchronously up to             *)
(* withTaskLock, captures a reference to the task record on the way, and   *)
(* then waits its turn in the per-task promise chain.  `queue` is that     *)
(* chain, its head the holder of the lock, and `pc` says at which await of *)
(* its critical section the holder is.  A handler keeps the record it      *)
(* captured even if cleanupIdleTask has since dropped it from the map:     *)
(* `gen` numbers the records, and a handler with an old number works on a  *)
(* dead one.                                                               *)
(*                                                                         *)
(* Node drains its microtasks before the next event, so no event happens   *)
(* between the release of the lock and the start of the next critical      *)
(* section: the guard EventLoopIdle of every event.                        *)
(***************************************************************************)
EXTENDS Integers, Sequences, FiniteSets

CONSTANTS
    Conns,      \* connections; a reconnecting client is a new connection
    Capable,    \* those whose hello reports cacheTaskV1
    None,       \* "no active client"
    MaxQueue,   \* bound: handlers waiting for the task lock
    MaxRequests, \* bound: requests of executors among them
    MaxAsg,     \* bound: assignments ids handed out by events that can recur
    MaxRev      \* bound: writes to the manifest of the device

ASSUME ConstantsAssumption ==
    /\ None \notin Conns
    /\ Capable \subseteq Conns
    /\ MaxQueue \in Nat /\ MaxRequests \in Nat /\ MaxAsg \in Nat /\ MaxRev \in Nat

VARIABLES
    conn,      \* life of each connection, as the registry and its socket see it
    joinedAt,  \* ClientInfo.connectedAt
    helloed,   \* connections whose hello the registry has attached
    mapped,    \* is there a record for the key in CacheTaskManager.tasks?
    gen,       \* identity of the latest record
    task,      \* that record
    queue,     \* the promise chain of withTaskLock
    pc,        \* the await the lock holder is in, by the reason it was entered for;
               \* "free": its critical section has not begun
    pick,      \* winner chosen by electCandidate, before loadManifest returns
    storeRev,  \* revision of the device's manifest on disk
    setBack,   \* history: was the manifest written from a read that failed since
               \* the task took its revision over?
    owner,     \* owner[a]: the connection assignment a was made for
    told,      \* the last cache_task_assignment written to each socket
    sending    \* sendMessages calls waiting for a socket to flush

taskVars == <<mapped, gen, task, pick>>
regVars  == <<conn, joinedAt, helloed>>
outVars  == <<owner, told, sending>>
store    == <<storeRev, setBack>>
vars == <<conn, joinedAt, helloed, mapped, gen, task, queue, pc, pick,
          storeRev, setBack, owner, told, sending>>

Phase == {"idle", "syncing", "ready", "degraded"}

\* CacheTaskRecord.  asg = 0 is a null assignmentId; `beat` is lastHeartbeatAt
\* (null, within heartbeatTimeoutMs, older); `cooldown` says lastFailoverAt is
\* less than failoverCooldownMs ago.
Task == [phase: Phase, active: Conns \cup {None}, asg: Nat, rev: Nat,
         cands: SUBSET Conns, beat: {"none", "fresh", "overdue"}, cooldown: BOOLEAN]

EmptyTask == [phase |-> "idle", active |-> None, asg |-> 0, rev |-> 0,
              cands |-> {}, beat |-> "none", cooldown |-> FALSE]

\* A handler waiting for, or holding, the task lock: `of` is the record it
\* captured before waiting (registerHello looks the record up inside the lock).
Op == [kind: {"hello", "disconnect", "beat", "fatal", "delta", "sync", "sweep"},
       conn: Conns \cup {None}, of: Nat, asg: Nat, base: Nat]

Assignment == [role: {"none", "active", "inactive"}, asg: Nat]

-----------------------------------------------------------------------------
(* Helpers                                                                 *)

Holder == Head(queue)
OnLiveRecord == mapped /\ Holder.of = gen

\* registry.get finds the connection until unregister.
Registered(c) == conn[c] \in {"open", "shut", "leaving"}

Eligible(cands) == {c \in cands : Registered(c) /\ c \in helloed /\ c \in Capable}

\* electCandidate: the oldest connection; ids break ties between equal times.
Oldest(w, cands) ==
    /\ w \in Eligible(cands)
    /\ \A c \in Eligible(cands) : joinedAt[w] <= joinedAt[c]

\* An event is handled only once the microtasks of the previous one ran.
EventLoopIdle == queue = <<>> \/ pc # "free"
Room == Len(queue) < MaxQueue

Enqueue(op) == queue' = Append(queue, op)
Release == queue' = Tail(queue) /\ pc' = "free"

Put(t, number) == task' = t /\ mapped' = TRUE /\ gen' = number
Keep(t) == task' = t /\ UNCHANGED <<mapped, gen>>

\* cleanupIdleTask: drop the record when nobody is left in it.
KeepOrCleanup(t) ==
    IF t.active = None /\ t.cands = {}
    THEN mapped' = FALSE /\ task' = EmptyTask /\ UNCHANGED gen
    ELSE Keep(t)

\* loadManifest: a manifest that cannot be read or parsed counts as an empty
\* one, of revision 0.
RevisionsRead == {storeRev, 0}

-----------------------------------------------------------------------------
Init ==
    /\ conn = [c \in Conns |-> "new"]
    /\ joinedAt = [c \in Conns |-> 0]
    /\ helloed = {}
    /\ mapped = FALSE /\ gen = 0 /\ task = EmptyTask
    /\ queue = <<>> /\ pc = "free" /\ pick = None
    /\ storeRev = 0 /\ setBack = FALSE
    /\ owner = <<>>
    /\ told = [c \in Conns |-> [role |-> "none", asg |-> 0]]
    /\ sending = {}

-----------------------------------------------------------------------------
(* Events: connections                                                     *)

\* register(): two connections of the same millisecond get the same time.
Connect(c) ==
    /\ EventLoopIdle
    /\ conn[c] = "new"
    /\ conn' = [conn EXCEPT ![c] = "open"]
    /\ \E now \in 1..Cardinality(Conns) :
          /\ \A d \in Conns : joinedAt[d] <= now
          /\ \E d \in Conns : joinedAt[d] >= now - 1
          /\ joinedAt' = [joinedAt EXCEPT ![c] = now]
    /\ UNCHANGED <<helloed, taskVars, queue, pc, store, outVars>>

\* registerHello up to the lock; a client without the capability is only
\* told that it stays inactive.
ReceiveHello(c) ==
    /\ EventLoopIdle
    /\ conn[c] = "open"
    /\ c \notin helloed \/ Len(owner) < MaxAsg
    /\ helloed' = helloed \cup {c}
    /\ IF c \in Capable
       THEN /\ Room
            /\ Enqueue([kind |-> "hello", conn |-> c, of |-> 0, asg |-> 0, base |-> 0])
            /\ UNCHANGED told
       ELSE /\ told' = [told EXCEPT ![c] = [role |-> "inactive", asg |-> 0]]
            /\ UNCHANGED queue
    /\ UNCHANGED <<conn, joinedAt, taskVars, pc, store, owner, sending>>

\* The socket leaves OPEN; from now on sendTo to it throws.
SocketShuts(c) ==
    /\ EventLoopIdle
    /\ conn[c] = "open"
    /\ conn' = [conn EXCEPT ![c] = "shut"]
    /\ UNCHANGED <<joinedAt, helloed, taskVars, queue, pc, store, outVars>>

\* The close event: handleDisconnect up to the lock, or straight to unregister
\* when the connection has no cache key or the key has no record.
CloseEvent(c) ==
    /\ EventLoopIdle
    /\ conn[c] = "shut"
    /\ IF c \in helloed /\ mapped
       THEN /\ Room
            /\ Enqueue([kind |-> "disconnect", conn |-> c, of |-> gen, asg |-> 0, base |-> 0])
            /\ conn' = [conn EXCEPT ![c] = "leaving"]
       ELSE conn' = [conn EXCEPT ![c] = "gone"] /\ UNCHANGED queue
    /\ UNCHANGED <<joinedAt, helloed, taskVars, pc, store, outVars>>

\* handleHeartbeat, handleFault, applyDelta and completeInitialSync up to the
\* lock.  A connection names the last assignment it was given, which may be
\* stale by now; an older one could never match again.  It cannot answer an
\* assignment before that message left the server's socket buffer.  A
\* non-fatal fault refreshes lastHeartbeatAt as a heartbeat does.
ReceiveFromExecutor(c, kind, base) ==
    /\ EventLoopIdle /\ Room
    /\ Cardinality({i \in DOMAIN queue : queue[i].kind \in {"beat", "fatal", "delta", "sync"}})
           < MaxRequests
    /\ conn[c] = "open" /\ c \in helloed /\ mapped
    /\ \A s \in sending : s.on # c
    /\ \E a \in DOMAIN owner :
          /\ owner[a] = c
          /\ \A later \in DOMAIN owner : owner[later] = c => later <= a
          /\ Enqueue([kind |-> kind, conn |-> c, of |-> gen, asg |-> a, base |-> base])
    /\ UNCHANGED <<regVars, taskVars, pc, store, outVars>>

ReceiveHeartbeat(c) == ReceiveFromExecutor(c, "beat", 0)
ReceiveFault(c) == \E kind \in {"beat", "fatal"} : ReceiveFromExecutor(c, kind, 0)
ReceiveDelta(c) == \E base \in 0..MaxRev : ReceiveFromExecutor(c, "delta", base)
ReceiveSyncComplete(c) ==
    \E base \in 0..MaxRev :
        /\ base <= task.rev \/ Len(owner) < MaxAsg
        /\ ReceiveFromExecutor(c, "sync", base)

(* Events: timers and the disk                                             *)

\* (slip) only a task that finished its initial sync is watched
SweepDueWhenReady ==
    task.phase = "ready" /\ task.active # None /\ task.beat = "overdue" /\ ~task.cooldown

SweepDue == task.active # None /\ task.beat = "overdue" /\ ~task.cooldown

\* sweepHeartbeats up to the lock.
SweepTimer ==
    /\ EventLoopIdle /\ Room
    /\ mapped /\ SweepDue
    /\ Enqueue([kind |-> "sweep", conn |-> None, of |-> gen, asg |-> 0, base |-> 0])
    /\ UNCHANGED <<regVars, taskVars, pc, store, outVars>>

\* heartbeatTimeoutMs pass without a heartbeat; failoverCooldownMs pass.
TimeoutElapses ==
    /\ mapped /\ task.beat = "fresh"
    /\ task' = [task EXCEPT !.beat = "overdue"]
    /\ UNCHANGED <<regVars, mapped, gen, pick, queue, pc, store, outVars>>

CooldownElapses ==
    /\ mapped /\ task.cooldown
    /\ task' = [task EXCEPT !.cooldown = FALSE]
    /\ UNCHANGED <<regVars, mapped, gen, pick, queue, pc, store, outVars>>

\* The manifest is the device's: the task of another cwd, the FileAgent or its
\* GC writes it without this task's lock.  A delta counts on from the revision
\* it read; a truncation mark leaves that as it is.
OtherWriter ==
    /\ EventLoopIdle
    /\ \E read \in RevisionsRead :
          /\ storeRev' \in {read, read + 1} /\ storeRev' <= MaxRev
          /\ setBack' = (setBack \/ read # storeRev)
    /\ UNCHANGED <<regVars, taskVars, queue, pc, outVars>>

-----------------------------------------------------------------------------
(* Changes of the record                                                   *)

Joined(t, c) == [t EXCEPT !.cands = @ \cup {c}]
Left(t, c)   == [t EXCEPT !.cands = @ \ {c}]

\* failoverTask before the election.
Cleared(t) == [t EXCEPT !.active = None, !.asg = 0, !.beat = "none",
                        !.phase = IF t.cands = {} THEN "idle" ELSE "degraded"]

\* (slip) the phase of the previous assignment survives
GrantedInPhase(t, a, read) ==
    [t EXCEPT !.active = pick, !.asg = a, !.rev = read, !.beat = "fresh",
              !.cooldown = @ \/ pc = "failover"]

\* electActiveClient and reassignActiveClient after loadManifest.
Granted(t, a, read) ==
    [t EXCEPT !.active = pick, !.asg = a, !.phase = "syncing", !.rev = read,
              !.beat = "fresh", !.cooldown = @ \/ pc = "failover"]

\* Who hears "standby" when an assignment is made.
Others(t) == IF pc = "resync" THEN {} ELSE t.cands \ {pick}

-----------------------------------------------------------------------------
(* Critical sections, first part: from acquiring the lock to the first     *)
(* await that waits for I/O, or to the end                                 *)

Enter(kind) == queue # <<>> /\ pc = "free" /\ Holder.kind = kind

\* electActiveClient up to loadManifest, on record t.
StartElection(t, number, reason) ==
    IF Eligible(t.cands) = {}
    THEN /\ Put([t EXCEPT !.active = None, !.asg = 0, !.phase = "idle", !.beat = "none"],
                number)
         /\ Release
         /\ UNCHANGED pick
    ELSE /\ Put(t, number)
         /\ \E w \in Conns : Oldest(w, t.cands) /\ pick' = w
         /\ pc' = reason
         /\ UNCHANGED queue

\* (slip) the failed executor is cleared and nobody elected in its place
FailoverWithoutElection(t) ==
    KeepOrCleanup(Cleared(t)) /\ Release /\ UNCHANGED pick

\* failoverTask, on record t, whose active client is being replaced.
Failover(t) ==
    IF t.cands = {}
    THEN KeepOrCleanup(Cleared(t)) /\ Release /\ UNCHANGED pick
    ELSE StartElection(Cleared(t), gen, "failover")

\* (slip) nothing is sent to a client that is already a candidate
ToldNewcomer(c, t) ==
    IF conn[c] = "open" /\ told[c].role = "none"
    THEN [told EXCEPT ![c] = [role |-> "inactive", asg |-> t.asg]]
    ELSE told

\* sendMessages([inactive assignment, "standby"]).
ToldStandby(c, t) ==
    IF conn[c] = "open"
    THEN [told EXCEPT ![c] = [role |-> "inactive", asg |-> t.asg]]
    ELSE told

EnterHello ==
    /\ Enter("hello")
    /\ LET c == Holder.conn
           t == Joined(IF mapped THEN task ELSE EmptyTask, c)
           number == IF mapped THEN gen ELSE gen + 1
       IN \/ /\ t.active = None
             /\ StartElection(t, number, "elected")
             /\ UNCHANGED told
          \/ /\ t.active = c
             /\ Keep(t)
             /\ pick' = c /\ pc' = "resync"
             /\ UNCHANGED <<queue, told>>
          \/ /\ t.active \notin {None, c}
             /\ Keep(t)
             /\ told' = ToldStandby(c, t)
             /\ Release
             /\ UNCHANGED pick
    /\ UNCHANGED <<regVars, store, owner, sending>>

\* handleDisconnect; unregister follows in the finally of the close handler.
EnterDisconnect ==
    /\ Enter("disconnect")
    /\ LET c == Holder.conn
           t == Left(task, c)
       IN /\ conn' = [conn EXCEPT ![c] = "gone"]
          /\ \/ /\ ~OnLiveRecord
                /\ Release /\ UNCHANGED taskVars
             \/ /\ OnLiveRecord /\ task.active = c
                /\ Failover(t)
             \/ /\ OnLiveRecord /\ task.active # c
                /\ KeepOrCleanup([t EXCEPT !.phase =
                      IF t.active = None /\ t.cands = {} THEN "idle" ELSE @])
                /\ Release /\ UNCHANGED pick
    /\ UNCHANGED <<joinedAt, helloed, store, outVars>>

\* (slip) the assignment id of the request is not compared
FromActive == OnLiveRecord /\ task.active = Holder.conn

\* The sender is the active executor and names the current assignment.
FromCurrent ==
    /\ OnLiveRecord
    /\ task.active = Holder.conn
    /\ task.asg = Holder.asg

Ignore == Release /\ UNCHANGED <<taskVars, store, regVars, outVars>>

EnterHeartbeat ==
    /\ Enter("beat")
    /\ \/ ~FromCurrent /\ Ignore
       \/ /\ FromCurrent
          /\ Keep([task EXCEPT !.beat = "fresh"])
          /\ Release
          /\ UNCHANGED <<pick, regVars, store, outVars>>

EnterFatalFault ==
    /\ Enter("fatal")
    /\ \/ ~FromCurrent /\ Ignore
       \/ /\ FromCurrent
          /\ Failover(Left(task, Holder.conn))
          /\ UNCHANGED <<regVars, store, outVars>>

EnterSweep ==
    /\ Enter("sweep")
    /\ \/ ~(OnLiveRecord /\ SweepDue) /\ Ignore
       \/ /\ OnLiveRecord /\ SweepDue
          /\ Failover(Left(task, task.active))
          /\ UNCHANGED <<regVars, store, outVars>>

\* applyDelta: NOT_ACTIVE, STALE_ASSIGNMENT and STALE_REVISION leave the state
\* alone, as does a batch of changes that were all applied before.
EnterDelta ==
    /\ Enter("delta")
    /\ \/ ~(FromCurrent /\ task.rev = Holder.base) /\ Ignore
       \/ FromCurrent /\ task.rev = Holder.base /\ Ignore
       \/ /\ FromCurrent /\ task.rev = Holder.base /\ storeRev < MaxRev
          /\ pc' = "write"
          /\ UNCHANGED <<regVars, taskVars, queue, store, outVars>>

\* completeInitialSync up to updateScopeTruncated.
EnterSyncComplete ==
    /\ Enter("sync")
    /\ \/ ~FromCurrent /\ Ignore
       \/ /\ FromCurrent /\ task.rev < Holder.base
          /\ pick' = Holder.conn /\ pc' = "resync"
          /\ UNCHANGED <<regVars, mapped, gen, task, queue, store, outVars>>
       \/ /\ FromCurrent /\ task.rev >= Holder.base
          /\ pc' = "complete"
          /\ UNCHANGED <<regVars, taskVars, queue, store, outVars>>

-----------------------------------------------------------------------------
(* Critical sections, second part                                          *)

\* electActiveClient after loadManifest, or reassignActiveClient: the winner's
\* assignment is written first, the others hear "standby" one by one.
Assigned ==
    LET a == Len(owner) + 1
        rest == Others(task)
    IN /\ pc \in {"elected", "failover", "resync"}
       /\ \E read \in RevisionsRead : Keep(Granted(task, a, read))
       /\ setBack' = FALSE
       /\ owner' = Append(owner, pick)
       /\ pick' = None
       /\ Release
       /\ IF conn[pick] = "open"
          THEN /\ told' = [told EXCEPT ![pick] = [role |-> "active", asg |-> a]]
               /\ sending' = IF rest = {} THEN sending
                             ELSE sending \cup {[on |-> pick, rest |-> rest, asg |-> a]}
          ELSE UNCHANGED <<told, sending>>
       /\ UNCHANGED <<regVars, storeRev>>

\* store.applyDelta returned: the task takes over the device's new revision.
DeltaWritten ==
    /\ pc = "write"
    /\ \E read \in RevisionsRead : storeRev' = read + 1
    /\ setBack' = FALSE
    /\ Keep([task EXCEPT !.rev = storeRev'])
    /\ Release
    /\ UNCHANGED <<pick, regVars, outVars>>

\* (slip) the revision is advanced although the store threw
DeltaFailedAdvancing ==
    /\ pc = "write"
    /\ Keep([task EXCEPT !.rev = @ + 1])
    /\ Release
    /\ UNCHANGED <<pick, store, regVars, outVars>>

\* store.applyDelta threw (SHA256_MISMATCH, STORE_WRITE_FAILED).
DeltaFailed == pc = "write" /\ Ignore

\* updateScopeTruncated returned: it writes only what changes, and keeps the
\* revision it read.
SyncCompleted ==
    /\ pc = "complete"
    /\ storeRev' \in RevisionsRead
    /\ setBack' = (setBack \/ storeRev' # storeRev)
    /\ Keep([task EXCEPT !.phase = "ready"])
    /\ Release
    /\ UNCHANGED <<pick, regVars, outVars>>

\* updateScopeTruncated threw: the phase stays "syncing", and nobody tells the
\* executor, which goes on beating.
SyncNotCompleted == pc = "complete" /\ Ignore

-----------------------------------------------------------------------------
(* sendMessages after its first message: each next one waits until the     *)
(* socket before it flushed; a socket that is gone makes the call throw    *)

SocketFlushed(s) ==
    /\ EventLoopIdle
    /\ conn[s.on] = "open"
    /\ \E c \in s.rest :
          IF conn[c] = "open"
          THEN /\ told' = [told EXCEPT ![c] = [role |-> "inactive", asg |-> s.asg]]
               /\ sending' = (sending \ {s}) \cup
                     IF s.rest = {c} THEN {}
                     ELSE {[on |-> c, rest |-> s.rest \ {c}, asg |-> s.asg]}
          ELSE sending' = sending \ {s} /\ UNCHANGED told
    /\ UNCHANGED <<regVars, taskVars, queue, pc, store, owner>>

SendFailed(s) ==
    /\ EventLoopIdle
    /\ conn[s.on] # "open"
    /\ sending' = sending \ {s}
    /\ UNCHANGED <<regVars, taskVars, queue, pc, store, owner, told>>

-----------------------------------------------------------------------------
Server ==
    \/ EnterHello \/ EnterDisconnect \/ EnterHeartbeat \/ EnterFatalFault
    \/ EnterSweep \/ EnterDelta \/ EnterSyncComplete
    \/ Assigned \/ DeltaWritten \/ DeltaFailed \/ SyncCompleted \/ SyncNotCompleted

Next ==
    \/ \E c \in Conns :
          \/ Connect(c) \/ ReceiveHello(c) \/ SocketShuts(c) \/ CloseEvent(c)
          \/ ReceiveHeartbeat(c) \/ ReceiveFault(c) \/ ReceiveDelta(c)
          \/ ReceiveSyncComplete(c)
    \/ SweepTimer \/ TimeoutElapses \/ CooldownElapses \/ OtherWriter
    \/ \E s \in sending : SocketFlushed(s) \/ SendFailed(s)
    \/ Server

\* The event loop runs every handler it started to the next await, the disk
\* answers, close events come, time passes.  The sweep has its turn however
\* often handlers run in between.  Clients are under no obligation.
Fairness ==
    /\ WF_vars(Server)
    /\ SF_vars(SweepTimer) /\ WF_vars(TimeoutElapses) /\ WF_vars(CooldownElapses)
    /\ \A c \in Conns : WF_vars(CloseEvent(c))

Spec == Init /\ [][Next]_vars
FairSpec == Spec /\ Fairness

-----------------------------------------------------------------------------
(* Properties                                                              *)

\* Every variable keeps its type.
TypeOK ==
    /\ conn \in [Conns -> {"new", "open", "shut", "leaving", "gone"}]
    /\ joinedAt \in [Conns -> Nat]
    /\ helloed \in SUBSET Conns
    /\ mapped \in BOOLEAN /\ gen \in Nat /\ task \in Task
    /\ queue \in Seq(Op)
    /\ pc \in {"free", "elected", "failover", "resync", "write", "complete"}
    /\ pick \in Conns \cup {None}
    /\ storeRev \in Nat /\ setBack \in BOOLEAN
    /\ owner \in Seq(Conns)
    /\ told \in [Conns -> Assignment]
    /\ sending \in SUBSET [on: Conns, rest: SUBSET Conns, asg: Nat]

\* While applyDelta or completeInitialSync waits for the store, its sender stays
\* the active executor under the very assignment the message named: nobody
\* else's delta ever reaches the manifest and nobody else's sync makes the task
\* ready, whatever sweep, fault or disconnect came in meanwhile.
WriteFenced ==
    pc \in {"write", "complete"} =>
        /\ mapped /\ Holder.of = gen
        /\ Holder.kind = IF pc = "write" THEN "delta" ELSE "sync"
        /\ task.active = Holder.conn /\ task.asg = Holder.asg

\* The active executor holds the newest assignment of all and is a candidate,
\* so that its departure always finds it; nobody is active without one.
ActiveHoldsNewest ==
    /\ (task.active = None) <=> (task.asg = 0)
    /\ task.active # None =>
          /\ task.asg = Len(owner) /\ owner[task.asg] = task.active
          /\ task.active \in task.cands

\* The task believes in a revision the manifest has not reached only if the
\* manifest was written from a failed read since the task took its revision
\* over, and only until it does so again: neither a delta the store refused, nor
\* a failed read of its own, nor another writer in its awaits makes it so.
RevisionOnDisk == ~setBack => task.rev <= storeRev

\* Once every handler ran, a task has an active executor whenever one of its
\* candidates could be elected: no failover ends without promoting a standby.
StandbyPromoted ==
    queue = <<>> /\ mapped /\ Eligible(task.cands) # {} => task.active # None

\* Once every handler ran, a record in the map has a client to serve.
NoEmptyRecord == queue = <<>> /\ mapped => task.cands # {}

\* Once every handler ran, no candidate still believes in an assignment of its
\* own unless it is the active executor: a former executor that said hello
\* again was told to stand by.
NoFalseExecutor ==
    queue = <<>> =>
        \A c \in task.cands \ {task.active} : conn[c] = "open" => told[c].role # "active"

\* A legacy client is never given an assignment.
LegacyNeverElected == \A a \in DOMAIN owner : owner[a] \in Capable

\* The snapshot of a ready task is served under the assignment that completed
\* its initial sync: a new assignment always starts over from "syncing".
ReadyIsNotInherited ==
    [][task.phase = "ready" /\ task'.phase = "ready" => task'.asg = task.asg]_vars

\* A dead executor is replaced: the heartbeat sweep finds it even when its
\* disconnect was handled on a record that was already dropped.
DeadExecutorReplaced ==
    \A c \in Conns : (task.active = c /\ conn[c] = "gone") ~> task.active # c

-----------------------------------------------------------------------------
(* The inductive invariant of the proofs in CacheTaskManager_proofs        *)

\* Whoever holds the lock at an await is the op that `pc` says, on the record
\* in the map; an election in progress has a capable candidate as its winner
\* and nobody active, a resync goes to the client that is active already.
LockHolder ==
    /\ pc # "free" => queue # <<>> /\ mapped
    /\ WriteFenced
    /\ pc \in {"elected", "failover"} =>
          pick \in task.cands \cap Capable /\ task.active = None
    /\ pc = "resync" => pick = task.active /\ task.active # None

UnmappedIsEmpty == ~mapped => task = EmptyTask

\* Every handler that acts for a connection names one.
QueuedOps ==
    \A i \in DOMAIN queue :
        /\ queue[i].kind # "sweep" => queue[i].conn \in Conns
        /\ queue[i].kind = "hello" => queue[i].conn \in Capable

IInv ==
    /\ TypeOK /\ LockHolder /\ UnmappedIsEmpty /\ QueuedOps
    /\ ActiveHoldsNewest /\ RevisionOnDisk /\ LegacyNeverElected

\* Candidates said hello on a connection that was open then.
CandidatesHelloed ==
    /\ task.cands \subseteq helloed
    /\ \A c \in helloed : conn[c] # "new"
    /\ \A i \in DOMAIN queue : queue[i].kind = "hello" => queue[i].conn \in helloed

\* Nobody is active only while nobody can be, or while the one elected waits
\* for the manifest.
VacantOnlyInElection ==
    pc \notin {"elected", "failover"} /\ Eligible(task.cands) # {} => task.active # None

\* A candidate that still believes in an assignment is the one a hello has
\* just elected: a failover finds none, as the client it fails is no candidate
\* any more and hears to stand by before it is one again.
BelieverIsElected ==
    \A c \in task.cands \ {task.active} :
        conn[c] = "open" /\ told[c].role = "active" => pc = "elected" /\ pick = c

RecordServes == mapped => task.cands # {}

\* Inductive together with IInv.
Standbys == CandidatesHelloed /\ VacantOnlyInElection /\ BelieverIsElected /\ RecordServes
=============================================================================
