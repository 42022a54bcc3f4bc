--------------------------- MODULE Sessions_proofs ---------------------------
(* Type correctness and the safety invariants of Sessions, for any clients,   *)
(* sessions, number of tries and number of faults.                            *)
(*                                                                            *)
(* The invariants speak of sessions that are served or closed; they are not   *)
(* inductive, because they depend on what a creation may find at each of its  *)
(* awaits.  SessionInv says that: until its entry is made nobody closes a     *)
(* session, nor before its process is there, unless the client has left.      *)
(*                                                                            *)
(* The second part is about what a session reads (CacheReadThrough), for any  *)
(* files, operations and number of ids that the manager keeps.  Its types are *)
(* proved alone.  Then whose change a tag names: Tagged.  From that how far   *)
(* the copy is and which files are bypassed, for ReadsOwnWrites: Versions,    *)
(* Bypassed, Reading; and the way of a change from the disk through the flush,*)
(* the queue and the delta to the manifest, for StoreFollows: Hinted, Covered,*)
(* GoneBefore, LastWord.                                                      *)
EXTENDS Sessions, CacheReadThrough, FiniteSetTheorems, SequenceTheorems,
        NaturalsInduction, WellFoundedInduction, TLAPS

Trying == {"idle", "prepare", "snapshot", "spawn", "daemon"}

Starting == Trying \cup {"preheat", "namespace", "verify"}

(* A creation that has not made its entry is nobody else's business.          *)
Unseen(s) ==
    step[s] \in Starting \cup {"undo"} =>
        s \notin entry /\ closing[s] = "no" /\ ~exit[s] /\ "child" \notin held[s]

(* No shutdown is under way before the entry or the error path.               *)
Unhalted(s) == step[s] \in Starting => halting[s] = {}

TriesLeft(s) == step[s] \in Trying => tries[s] < MaxTries

(* Registered as soon as it may send requests.                                *)
Registered(s) == step[s] \in Starting \ {"idle", "prepare"} => s \in routed

(* What each step has taken.                                                  *)
HasTaken(s) ==
    /\ step[s] \in {"idle", "prepare"} => held[s] = {}
    /\ step[s] \in Starting \ {"idle", "prepare"} => "dir" \in held[s]
    /\ step[s] \in {"preheat", "namespace", "verify"} => "mount" \in held[s]
    /\ step[s] \in {"namespace", "verify"} => "anchor" \in held[s]

(* There is an end of a process to report only where there was a process.     *)
ProcessIsLate(s) ==
    "child" \in held[s] \/ exit[s] => step[s] \in {"greet", "done", "failed"}

(* Before the process is spawned only a client that left closes a session.    *)
ClosedByLeaving(s) ==
    step[s] \in {"helper", "script", "host"} /\ conn[Owner[s]] = "up" =>
        closing[s] = "no"

(* The daemon is gone before its mount point is.                              *)
DaemonGoesFirst(s) == "unmount" \in halting[s] => "daemon" \notin held[s]

(* The shutdown of a file proxy starts with the end of the entry.             *)
HaltedIsGone(s) == halting[s] # {} => s \notin entry

Routed(s) == "daemon" \in held[s] /\ halting[s] = {} => s \in routed

Served(s) ==
    s \in entry /\ closing[s] = "no" => {"dir", "mount", "anchor"} \subseteq held[s]

(* HostClosedFirst, and the greeting that may still make a session "done".    *)
HostGoesFirst(s) ==
    /\ step[s] = "done" \/ (step[s] = "greet" /\ conn[Owner[s]] = "up")
    /\ closing[s] \in {"helper", "runtime", "closed"}
    => "host" \notin held[s]

SessionInv(s) ==
    /\ Unseen(s)
    /\ Unhalted(s)
    /\ TriesLeft(s)
    /\ Registered(s)
    /\ HasTaken(s)
    /\ ProcessIsLate(s)
    /\ ClosedByLeaving(s)
    /\ DaemonGoesFirst(s)
    /\ HaltedIsGone(s)
    /\ Routed(s)
    /\ Served(s)
    /\ HostGoesFirst(s)

IInv == TypeOK /\ \A s \in Session : SessionInv(s)

-----------------------------------------------------------------------------
(* What steps and the invariant are made of, visible in every proof below.    *)
USE SessionConstants
USE DEF IInv, SessionInv, TypeOK, Trying, Starting, Unseen, Unhalted, TriesLeft,
        Registered, HasTaken, ProcessIsLate, ClosedByLeaving, DaemonGoesFirst,
        HaltedIsGone, Routed, Served, HostGoesFirst, Resource, CreationStep,
        Go, Take, Drop, Fault, tables, closeVars

LEMMA InitInv == Init => IInv
BY DEF Init

(* Awaits of a creation: what is taken, and the two error paths.              *)
LEMMA CreationKeeps ==
    ASSUME IInv, NEW s \in Session, Create(s) \/ CreateStep(s) PROVE IInv'
<1>1. CASE Create(s)
  BY <1>1 DEF Create
<1>2. CASE Prepare(s)
  BY <1>2 DEF Prepare
<1>3. CASE Snapshot(s)
  BY <1>3 DEF Snapshot
<1>4. CASE SpawnDaemon(s)
  BY <1>4 DEF SpawnDaemon
<1>5. CASE DaemonReady(s)
  BY <1>5 DEF DaemonReady
<1>6. CASE DaemonFails(s)
  BY <1>6 DEF DaemonFails
<1>7. CASE Preheat(s)
  BY <1>7 DEF Preheat
<1>8. CASE AnchorReady(s)
  BY <1>8 DEF AnchorReady
<1>9. CASE AnchorFails(s)
  <2>1. TypeOK'
    BY <1>9 DEF AnchorFails, BeginShutdown
  <2>2. ASSUME NEW t \in Session, t # s PROVE SessionInv(t)'
    BY <1>9, <2>2 DEF AnchorFails, BeginShutdown
  <2>3. SessionInv(s)'
    BY <1>9 DEF AnchorFails, BeginShutdown
  <2>4. QED
    BY <2>1, <2>2, <2>3
<1>10. CASE VerifyFails(s)
  <2>1. TypeOK'
    BY <1>10 DEF VerifyFails, BeginShutdown
  <2>2. ASSUME NEW t \in Session, t # s PROVE SessionInv(t)'
    BY <1>10, <2>2 DEF VerifyFails, BeginShutdown
  <2>3. SessionInv(s)'
    BY <1>10 DEF VerifyFails, BeginShutdown
  <2>4. QED
    BY <2>1, <2>2, <2>3
<1>11. CASE Undone(s)
  BY <1>11 DEF Undone, Removable
<1>12. CASE Verified(s)
  BY <1>12 DEF Verified
<1>13. CASE MakeHelper(s)
  BY <1>13 DEF MakeHelper
<1>14. CASE WriteScript(s)
  BY <1>14 DEF WriteScript
<1>15. CASE HostListens(s)
  BY <1>15 DEF HostListens
<1>16. CASE HostFails(s)
  BY <1>16 DEF HostFails
<1>17. CASE Greet(s)
  BY <1>17 DEF Greet
<1>18. QED
  BY <1>1, <1>2, <1>3, <1>4, <1>5, <1>6, <1>7, <1>8, <1>9, <1>10, <1>11, <1>12, <1>13, <1>14, <1>15, <1>16, <1>17 DEF CreateStep

(* close and shutdown run on what their callers have ended: the entry is gone *)
(* and, where a process was started, the session is closed.                   *)
LEMMA ReleaseKeeps ==
    ASSUME IInv, NEW s \in Session, CloseStep(s) \/ HaltStep(s) PROVE IInv'
<1>1. CASE CloseHost(s)
  BY <1>1 DEF CloseHost
<1>2. CASE CloseHelper(s)
  BY <1>2 DEF CloseHelper
<1>3. CASE CleanRuntime(s)
  BY <1>3 DEF CleanRuntime, Removable
<1>4. CASE HaltFlushed(s)
  BY <1>4 DEF HaltFlushed
<1>5. CASE HaltExited(s)
  BY <1>5 DEF HaltExited
<1>6. CASE HaltUnmounted(s)
  BY <1>6 DEF HaltUnmounted
<1>7. QED
  BY <1>1, <1>2, <1>3, <1>4, <1>5, <1>6 DEF CloseStep, HaltStep

(* destroyPtySession on sessions with an entry, or whose process has ended,   *)
(* and whose creation either is over or has lost its client.                  *)
LEMMA DestroyKeeps ==
    ASSUME IInv, NEW D \in SUBSET Session, Destroy(D),
           UNCHANGED <<step, tries, faults>>,
           exit' \in [Session -> BOOLEAN],
           \A s \in Session : exit'[s] => exit[s],
           conn' \in [Client -> {"up", "shut", "gone"}],
           \A c \in Client : conn'[c] = "up" => conn[c] = "up",
           \A s \in D : \/ step[s] \in {"greet", "done", "failed"}
                        \/ s \in entry /\ conn[Owner[s]] # "up"
    PROVE  IInv'
<1>1. TypeOK'
  BY DEF Destroy, Closed, FirstRelease
<1>2. ASSUME NEW s \in Session, s \notin D PROVE SessionInv(s)'
  BY <1>2 DEF Destroy, Closed
<1>3. ASSUME NEW s \in D PROVE SessionInv(s)'
  <2>1. Owner[s] \in Client /\ s \in Session
    OBVIOUS
  <2>2. step'[s] \notin Starting \cup {"undo"}
    BY <1>3
  <2>3. closing'[s] # "no"
    BY <2>1 DEF Destroy, Closed, FirstRelease
  <2>4. s \notin entry' /\ halting'[s] # {}
    BY <2>1 DEF Destroy
  <2>5. HostGoesFirst(s)'
    BY <1>3, <2>1 DEF Destroy, Closed, FirstRelease
  <2>6. ProcessIsLate(s)' /\ ClosedByLeaving(s)' /\ DaemonGoesFirst(s)'
    BY <1>3, <2>1 DEF Destroy
  <2>7. QED
    BY <1>3, <2>1, <2>2, <2>3, <2>4, <2>5, <2>6
<1>4. QED
  BY <1>1, <1>2, <1>3

LEMMA EndingKeeps ==
    ASSUME IInv, NEW s \in Session,
           CloseSession(s) \/ ChildExits(s) \/ ExitSent(s) \/ ExitLost(s) \/ DaemonDies(s)
    PROVE  IInv'
<1>1. CASE CloseSession(s)
  BY <1>1, DestroyKeeps DEF CloseSession
<1>2. CASE ChildExits(s)
  BY <1>2 DEF ChildExits, Closed, FirstRelease
<1>3. CASE ExitSent(s)
  BY <1>3, DestroyKeeps DEF ExitSent
<1>4. CASE ExitLost(s)
  BY <1>4 DEF ExitLost
<1>5. CASE DaemonDies(s)
  BY <1>5 DEF DaemonDies
<1>6. QED
  BY <1>1, <1>2, <1>3, <1>4, <1>5

LEMMA LeavingKeeps ==
    ASSUME IInv, NEW c \in Client, Disconnect(c) \/ DisconnectHandled(c)
    PROVE  IInv'
<1>1. CASE Disconnect(c)
  BY <1>1 DEF Disconnect
<1>2. CASE DisconnectHandled(c)
  BY <1>2, DestroyKeeps DEF DisconnectHandled
<1>3. QED
  BY <1>1, <1>2

LEMMA StutterKeeps == ASSUME IInv, UNCHANGED vars PROVE IInv'
BY DEF vars

-----------------------------------------------------------------------------
(* The inductive invariant holds in every reachable state: whatever ends a    *)
(* session at whichever await of its creation.                                *)
THEOREM SessionsAreSound == Spec => []IInv
<1>1. Init => IInv
  BY InitInv
<1>2. IInv /\ [Next]_vars => IInv'
  BY CreationKeeps, ReleaseKeeps, EndingKeeps, LeavingKeeps, StutterKeeps DEF Next
<1>3. QED
  BY <1>1, <1>2, PTL DEF Spec

(* Every variable of the server's tables has its type: in particular a daemon *)
(* is never started more than MaxTries times.                                 *)
THEOREM SessionTypes == Spec => []TypeOK
<1>1. IInv => TypeOK
  OBVIOUS
<1>2. QED
  BY <1>1, SessionsAreSound, PTL

(* The file proxy of a running daemon is registered (server.ts:1168-1172)     *)
(* until its shutdown begins.                                                 *)
THEOREM ServingIsRouted == Spec => []RoutedWhileServing
<1>1. IInv => RoutedWhileServing
  BY DEF RoutedWhileServing
<1>2. QED
  BY <1>1, SessionsAreSound, PTL

(* A session in the table that was not closed has its directory, mount and    *)
(* namespace: no error path and no late destroyPtySession takes them.         *)
THEOREM LiveSessionsAreServed == Spec => []LiveIsServed
<1>1. IInv => LiveIsServed
  BY DEF LiveIsServed
<1>2. QED
  BY <1>1, SessionsAreSound, PTL

(* close shuts a created session's MCP host before it removes what the host's *)
(* process runs in (pty-session.ts:337-338).                                  *)
THEOREM HostsCloseFirst == Spec => []HostClosedFirst
<1>1. IInv => HostClosedFirst
  BY DEF HostClosedFirst
<1>2. QED
  BY <1>1, SessionsAreSound, PTL

-----------------------------------------------------------------------------
HIDE SessionConstants
HIDE DEF IInv, SessionInv, TypeOK, Trying, Starting, Unseen, Unhalted, TriesLeft,
        Registered, HasTaken, ProcessIsLate, ClosedByLeaving, DaemonGoesFirst,
        HaltedIsGone, Routed, Served, HostGoesFirst, Resource, CreationStep,
        Go, Take, Drop, Fault, tables, closeVars

-----------------------------------------------------------------------------
(* The reads of a session.  The inductive invariant of the types, which every *)
(* other one rests on.                                                        *)

Writes(i) == i \in 1..Len(ops) /\ ~IsRead(ops[i].req)

OnePerFile(changes) == \A c, d \in changes : c.on = d.on => c = d

(* Nothing is newer than what is on the disk.                                 *)
NoneAhead ==
    /\ \A f \in File : disk[f].made <= clock /\ store[f].made <= disk[f].made
    /\ \A c \in batch \cup live \cup flush.found : c.what.made <= disk[c.on].made

(* The changes of one file follow one another; what an operation has written  *)
(* or seen is on the disk or was.                                             *)
OpsOK ==
    /\ \A i \in 1..Len(ops) :
          /\ Writes(i) => ops[i].at \in {"asks", "over"}
          /\ ops[i].at # "over" => ops[i].made = 0
          /\ \A f \in Targets(i) : ops[i].made <= disk[f].made
    /\ \A i, k \in 1..Len(ops) :
          i < k /\ Writes(i) /\ Writes(k) /\ Targets(i) \cap Targets(k) # {} => ops[i].at = "over"

(* A flush has at most one change of a file it has read, and none of those it *)
(* has yet to read.                                                           *)
ChangesOK ==
    /\ OnePerFile(batch) /\ OnePerFile(live) /\ OnePerFile(flush.found)
    /\ \A c \in flush.found : c.on \notin flush.todo
    /\ flush.todo = {} => flush = Idle

(* Hints and bypasses are of changes of their files; what is hinted is newer  *)
(* than what was.                                                             *)
HintsOK ==
    /\ \A h \in hints : Writes(h)
    /\ \A f \in File :
          /\ suppressed[f] # NoId => Writes(suppressed[f]) /\ f \in Targets(suppressed[f])
          /\ bypass[f] # NoId => Writes(bypass[f]) /\ f \in Targets(bypass[f])
          /\ \A h \in hints : suppressed[f] < h

ReadIInv == ReadTypeOK /\ NoneAhead /\ OpsOK /\ ChangesOK /\ HintsOK

-----------------------------------------------------------------------------
(* Numbers, sets and sequences of ids.                                        *)

LEMMA MaxIsThere ==
  ASSUME NEW n \in Nat, NEW s \in SUBSET (0..n), s # {}
  PROVE  Max(s) \in s
  <1> DEFINE D == {n - x : x \in s}
             Greatest(x) == \A y \in s : x >= y
  <1>1. D \subseteq Nat /\ D # {}
    <2>1. \A x \in s : x \in 0..n /\ n - x \in Nat
      OBVIOUS
    <2>2. PICK y \in s : TRUE
      OBVIOUS
    <2>3. n - y \in D
      OBVIOUS
    <2> QED BY <2>1, <2>3
  <1>2. PICK d \in D : \A k \in D : ~(<<k, d>> \in OpToRel(<, Nat))
    BY <1>1, NatLessThanWellFounded, WFMin
  <1>3. PICK x \in s : d = n - x
    BY <1>2
  <1>4. \A y \in s : y \in 0..n /\ ~(n - y < n - x)
    BY <1>1, <1>2, <1>3 DEF OpToRel
  <1>5. Greatest(x)
    BY <1>4
  <1>6. Max(s) = CHOOSE z \in s : Greatest(z)
    BY DEF Max
  <1> HIDE DEF Greatest
  <1> QED BY <1>3, <1>5, <1>6

LEMMA MaxOfTwo ==
  ASSUME NEW a \in Int, NEW b \in Int
  PROVE  Max({a, b}) = IF a >= b THEN a ELSE b
  BY DEF Max

(* The changes of an ordered set.                                             *)
LEMMA OrderOf ==
  ASSUME NEW s \in SUBSET Op, NEW order \in SetToSeqs(s), ReadThroughBounds
  PROVE  /\ order \in Seq(s)
         /\ \A k, l \in 1..Len(order) : order[k] = order[l] => k = l
  <1>1. IsFiniteSet(s)
    <2>1. 1 \in Int /\ MaxOps \in Int
      BY DEF ReadThroughBounds
    <2>2. IsFiniteSet(Op)
      BY <2>1, FS_Interval DEF Op
    <2> QED BY <2>2, FS_Subset
  <1>2. Cardinality(s) \in Nat
    BY <1>1, FS_CardinalityType
  <1>3. order \in [1..Cardinality(s) -> s]
    BY DEF SetToSeqs
  <1>4. order \in Seq(s) /\ Len(order) = Cardinality(s)
    BY <1>2, <1>3
  <1> QED BY <1>4 DEF SetToSeqs

(* The manager's ids: those it knew and those of the delta, as many as it     *)
(* keeps.                                                                     *)
LEMMA RememberedIs ==
  ASSUME ReadThroughBounds, NEW seen \in Seq(Op), NEW ids \in Seq(Op),
         \A k, l \in 1..Len(seen) : seen[k] = seen[l] => k = l,
         \A k, l \in 1..Len(ids) : ids[k] = ids[l] => k = l,
         \A k \in 1..Len(seen), l \in 1..Len(ids) : seen[k] # ids[l]
  PROVE  LET new == Remembered(seen, ids)
         IN  /\ new \in Seq(Op) /\ Len(new) <= RECENT_MUTATION_ID_CAP
             /\ \A k, l \in 1..Len(new) : new[k] = new[l] => k = l
             /\ Range(new) \subseteq Range(seen) \cup Range(ids)
  <1> DEFINE all == seen \o ids
             n == Len(all)
             from == Max({1, n - RECENT_MUTATION_ID_CAP + 1})
             new == SubSeq(all, from, n)
  <1>1. /\ all \in Seq(Op) /\ n = Len(seen) + Len(ids) /\ n \in Nat
        /\ \A k \in 1..n : all[k] = IF k <= Len(seen) THEN seen[k] ELSE ids[k - Len(seen)]
    OBVIOUS
  <1>2. RECENT_MUTATION_ID_CAP \in Nat \ {0}
    BY DEF ReadThroughBounds
  <1>3. from = IF 1 >= n - RECENT_MUTATION_ID_CAP + 1 THEN 1 ELSE n - RECENT_MUTATION_ID_CAP + 1
    BY <1>1, <1>2, MaxOfTwo
  <1>4. from \in 1..(n + 1) /\ n - from + 1 <= RECENT_MUTATION_ID_CAP
    BY <1>1, <1>2, <1>3
  <1>5. \A k, l \in 1..n : all[k] = all[l] => k = l
    <2> SUFFICES ASSUME NEW k \in 1..n, NEW l \in 1..n, all[k] = all[l] PROVE k = l
      OBVIOUS
    <2>1. \A j \in 1..n : ~(j <= Len(seen)) => j - Len(seen) \in 1..Len(ids)
      BY <1>1
    <2>2. \A j \in 1..n : j <= Len(seen) => j \in 1..Len(seen)
      BY <1>1
    <2>3. CASE k <= Len(seen) /\ l <= Len(seen)
      BY <1>1, <2>2, <2>3
    <2>4. CASE ~(k <= Len(seen)) /\ ~(l <= Len(seen))
      <3>1. k - Len(seen) = l - Len(seen)
        BY <1>1, <2>1, <2>4
      <3> QED BY <3>1, <1>1
    <2>5. CASE k <= Len(seen) /\ ~(l <= Len(seen))
      BY <1>1, <2>1, <2>2, <2>5
    <2>6. CASE ~(k <= Len(seen)) /\ l <= Len(seen)
      BY <1>1, <2>1, <2>2, <2>6
    <2> QED BY <2>3, <2>4, <2>5, <2>6
  <1> HIDE DEF all, n, from
  <1>6. /\ new \in Seq(Op) /\ Len(new) = n - from + 1
        /\ \A k \in 1..Len(new) : new[k] = all[from + k - 1] /\ from + k - 1 \in 1..n
    BY <1>1, <1>4 DEF n
  <1>7. \A k, l \in 1..Len(new) : new[k] = new[l] => k = l
    <2> SUFFICES ASSUME NEW k \in 1..Len(new), NEW l \in 1..Len(new), new[k] = new[l] PROVE k = l
      OBVIOUS
    <2>1. all[from + k - 1] = all[from + l - 1]
      BY <1>6
    <2>2. from + k - 1 = from + l - 1
      BY <1>5, <1>6, <2>1
    <2> QED BY <2>2, <1>4
  <1>8. Range(new) \subseteq Range(seen) \cup Range(ids)
    <2> SUFFICES ASSUME NEW x \in Range(new) PROVE x \in Range(seen) \cup Range(ids)
      OBVIOUS
    <2>1. PICK k \in 1..Len(new) : x = new[k]
      BY <1>6 DEF Range
    <2>2. PICK j \in 1..n : x = all[j]
      BY <1>6, <2>1
    <2>3. \/ x = seen[j] /\ j \in DOMAIN seen
          \/ x = ids[j - Len(seen)] /\ j - Len(seen) \in DOMAIN ids
      BY <1>1, <2>2
    <2> QED BY <2>3 DEF Range
  <1>9. new = Remembered(seen, ids)
    BY DEF Remembered, all, n, from
  <1> QED BY <1>4, <1>6, <1>7, <1>8, <1>9

-----------------------------------------------------------------------------
(* Types.                                                                     *)

Operations(n) == [req: Wanted, at: {"looks", "misses", "asks", "over"}, made: 0..n, since: 0..n]

LEMMA EachOf ==
  ASSUME NEW S, NEW T, NEW s \in Seq(S), NEW g, g = [i \in 1..Len(s) |-> g[i]],
         \A i \in 1..Len(s) : g[i] \in T
  PROVE  g \in Seq(T) /\ Len(g) = Len(s)
  OBVIOUS

(* What an operation may see has been made.                                   *)
LEMMA NewestIsMade ==
  ASSUME ReadIInv, ReadThroughBounds, NEW f \in File
  PROVE  Newest(f) \in 0..clock /\ Newest(f) <= disk[f].made
  <1> DEFINE s == {0} \cup {ops[i].made : i \in {j \in 1..Len(ops) : Done(j, f)}}
  <1>1. clock \in Nat /\ disk[f].made \in Nat /\ disk[f].made <= clock
    BY DEF ReadIInv, ReadTypeOK, NoneAhead, Content
  <1>2. \A i \in 1..Len(ops) : ops[i].made \in 0..clock
    <2>1. ops \in Seq(Operations(clock))
      BY DEF ReadIInv, ReadTypeOK, Operations
    <2>2. \A i \in 1..Len(ops) : ops[i] \in Operations(clock)
      BY <2>1
    <2> QED BY <2>2 DEF Operations
  <1>3. s \in SUBSET (0..clock) /\ s # {}
    BY <1>1, <1>2
  <1>4. \A x \in s : x <= disk[f].made
    BY <1>1 DEF Done, ReadIInv, OpsOK
  <1>5. Newest(f) = Max(s)
    BY DEF Newest
  <1> HIDE DEF s
  <1>6. Newest(f) \in s
    BY <1>1, <1>3, <1>5, MaxIsThere
  <1> QED BY <1>3, <1>4, <1>6

(* What the actions make of the operations.                                   *)
LEMMA OpsAre ==
  ASSUME ReadIInv, ReadThroughBounds
  PROVE  /\ ops \in Seq(Operations(clock)) /\ Len(ops) \in 0..MaxOps /\ clock \in Nat
         /\ MaxOps \in Nat
         /\ \A i \in 1..Len(ops) :
               /\ ops[i] \in Operations(clock)
               /\ Targets(i) \subseteq File
               /\ ops[i].req.from \in Targets(i) /\ ops[i].req.to \in Targets(i)
               /\ IsRead(ops[i].req) => Targets(i) = {ops[i].req.from}
  <1>1. ops \in Seq(Operations(clock)) /\ Len(ops) \in 0..MaxOps /\ clock \in Nat /\ MaxOps \in Nat
    BY DEF ReadIInv, ReadTypeOK, Operations, ReadThroughBounds
  <1>2. ASSUME NEW i \in 1..Len(ops)
        PROVE  /\ ops[i] \in Operations(clock)
               /\ Targets(i) \subseteq File
               /\ ops[i].req.from \in Targets(i) /\ ops[i].req.to \in Targets(i)
               /\ IsRead(ops[i].req) => Targets(i) = {ops[i].req.from}
    <2>1. ops[i] \in Operations(clock)
      BY <1>1
    <2>2. ops[i].req \in Wanted
      BY <2>1 DEF Operations
    <2> QED BY <2>1, <2>2 DEF ReadThroughBounds, Targets, IsRead
  <1> QED BY <1>1, <1>2

(* Contents are of versions that have been made.                              *)
LEMMA FilesAre ==
  ASSUME ReadIInv, NEW f \in File
  PROVE  /\ disk[f] \in Content /\ disk[f].made \in 0..clock /\ disk[f].there \in BOOLEAN
         /\ store[f] \in Content /\ store[f].made \in 0..clock /\ store[f].there \in BOOLEAN
  <1>1. disk[f] \in Content /\ store[f] \in Content /\ clock \in Nat
    BY DEF ReadIInv, ReadTypeOK
  <1>2. disk[f].made <= clock /\ store[f].made <= disk[f].made
    BY DEF ReadIInv, NoneAhead
  <1>3. /\ disk[f].made \in Nat /\ disk[f].there \in BOOLEAN
        /\ store[f].made \in Nat /\ store[f].there \in BOOLEAN
    BY <1>1 DEF Content
  <1> QED BY <1>1, <1>2, <1>3

LEMMA BeginIs ==
  ASSUME ReadIInv, ReadThroughBounds, NEW r \in Wanted, BeginRead(r) \/ BeginChange(r)
  PROVE  LET n == Len(ops) + 1
         IN  /\ ops' \in Seq(Operations(clock)) /\ Len(ops') = n /\ n \in 1..MaxOps
             /\ \A i \in 1..Len(ops) : i \in 1..n /\ i # n /\ ops'[i] = ops[i]
             /\ \A i \in 1..n : i \in 1..Len(ops) \/ i = n
             /\ ops'[n].req = r /\ ops'[n].made = 0 /\ ops'[n].since = Newest(r.from)
             /\ BeginRead(r) => /\ IsRead(r)
                                /\ ops'[n].at = IF bypass[r.from] = NoId THEN "looks" ELSE "misses"
             /\ BeginChange(r) => ops'[n].at = "asks" /\ ~IsRead(r)
  <1>1. r.from \in File
    BY DEF ReadThroughBounds
  <1>2. Newest(r.from) \in 0..clock /\ clock \in Nat
    BY <1>1, NewestIsMade DEF ReadIInv, ReadTypeOK
  <1>3. PICK at \in {"looks", "misses", "asks"} :
           /\ ops' = Called(r, at)
           /\ Len(ops) < MaxOps
           /\ BeginRead(r) => /\ IsRead(r)
                              /\ at = IF bypass[r.from] = NoId THEN "looks" ELSE "misses"
           /\ BeginChange(r) => at = "asks" /\ ~IsRead(r)
    BY DEF BeginRead, BeginChange
  <1> DEFINE x == [req |-> r, at |-> at, made |-> 0, since |-> Newest(r.from)]
  <1>4. ops' = Append(ops, x)
    BY <1>3 DEF Called
  <1>5. x \in Operations(clock) /\ x.req = r /\ x.made = 0 /\ x.at = at /\ x.since = Newest(r.from)
    BY <1>2, <1>3 DEF Operations
  <1>6. ops \in Seq(Operations(clock)) /\ Len(ops) \in 0..MaxOps /\ MaxOps \in Nat
    BY OpsAre
  <1> HIDE DEF x
  <1> QED BY <1>3, <1>4, <1>5, <1>6

(* One operation goes on.                                                     *)
Moves(i, made) ==
    /\ Len(ops') = Len(ops) /\ ops' \in Seq(Operations(clock'))
    /\ \A j \in 1..Len(ops) : j # i => ops'[j] = ops[j]
    /\ ops'[i].req = ops[i].req /\ ops'[i].since = ops[i].since /\ ops'[i].made = made

LEMMA OperationIs ==
  ASSUME NEW n \in Nat, NEW y \in Operations(n), NEW made, NEW at,
         NEW x, x = [y EXCEPT !.at = at, !.made = made]
  PROVE  x = [req |-> y.req, at |-> at, made |-> made, since |-> y.since]
  <1>1. x = [[y EXCEPT !.at = at] EXCEPT !.made = made]
    OBVIOUS
  <1>2. PICK z : z = [y EXCEPT !.at = at] /\ x = [z EXCEPT !.made = made]
    BY <1>1
  <1>3. z = [req |-> y.req, at |-> at, made |-> y.made, since |-> y.since]
    BY <1>2 DEF Operations
  <1> QED BY <1>2, <1>3

LEMMA MoveIs ==
  ASSUME ReadIInv, ReadThroughBounds, NEW i \in 1..Len(ops), NEW at \in {"looks", "misses", "asks", "over"},
         clock' \in {clock, clock + 1}, NEW made \in 0..clock',
         ops' = [ops EXCEPT ![i].at = at, ![i].made = made]
  PROVE  Moves(i, made) /\ ops'[i].at = at
  <1>1. ops \in Seq(Operations(clock)) /\ clock \in Nat
    BY OpsAre
  <1>2. DOMAIN ops = 1..Len(ops) /\ ops[i] \in Operations(clock)
    BY <1>1
  <1>a. PICK x : x = [ops[i] EXCEPT !.at = at, !.made = made]
    OBVIOUS
  <1>3. /\ x \in Operations(clock') /\ x.req = ops[i].req /\ x.since = ops[i].since
        /\ x.at = at /\ x.made = made
    <2>1. PICK m : m = clock' /\ m \in {clock, clock + 1} /\ made \in 0..m
      OBVIOUS
    <2> DEFINE y == ops[i]
    <2>a. y \in Operations(clock) /\ x = [y EXCEPT !.at = at, !.made = made]
      BY <1>2, <1>a
    <2>b. x = [req |-> y.req, at |-> at, made |-> made, since |-> y.since]
      <3> HIDE DEF y
      <3> QED BY <1>1, <2>a, OperationIs
    <2>c. y.req \in Wanted /\ y.since \in 0..m
      BY <1>1, <2>1, <2>a DEF Operations
    <2>2. x \in Operations(m) /\ x.req = ops[i].req /\ x.since = ops[i].since
             /\ x.at = at /\ x.made = made
      BY <2>1, <2>b, <2>c DEF Operations
    <2> QED BY <2>1, <2>2
  <1>4. ops' = [ops EXCEPT ![i] = x]
    BY <1>2, <1>a
  <1>5. /\ ops' = [j \in 1..Len(ops) |-> ops'[j]]
        /\ ops'[i] = x /\ \A j \in 1..Len(ops) : j # i => ops'[j] = ops[j]
    BY <1>2, <1>4
  <1>6. \A j \in 1..Len(ops) : ops'[j] \in Operations(clock')
    <2>1. PICK m : m = clock' /\ m \in {clock, clock + 1}
      OBVIOUS
    <2>2. \A y \in Operations(clock) : y \in Operations(m)
      BY <1>1, <2>1 DEF Operations
    <2>3. x \in Operations(m)
      BY <1>3, <2>1
    <2>4. \A j \in 1..Len(ops) : ops'[j] \in Operations(m)
      <3> SUFFICES ASSUME NEW j \in 1..Len(ops) PROVE ops'[j] \in Operations(m)
        OBVIOUS
      <3>1. ops[j] \in Operations(clock)
        BY <1>1
      <3> QED BY <1>5, <2>2, <2>3, <3>1
    <2> QED BY <2>1, <2>4
  <1>7. ops' \in Seq(Operations(clock')) /\ Len(ops') = Len(ops)
    <2> DEFINE g == ops'
    <2>1. g = [j \in 1..Len(ops) |-> g[j]] /\ \A j \in 1..Len(ops) : g[j] \in Operations(clock')
      BY <1>5, <1>6
    <2> HIDE DEF g
    <2>2. g \in Seq(Operations(clock')) /\ Len(g) = Len(ops)
      BY <1>1, <2>1, EachOf
    <2> QED BY <2>2 DEF g
  <1> QED BY <1>3, <1>5, <1>7 DEF Moves

(* The same, when only where it is changes.                                   *)
LEMMA GoesIs ==
  ASSUME ReadIInv, ReadThroughBounds, NEW i \in 1..Len(ops), NEW at \in {"looks", "misses", "asks", "over"},
         clock' = clock, ops' = Step(i, at)
  PROVE  Moves(i, ops[i].made) /\ ops'[i].at = at
  <1>1. ops \in Seq(Operations(clock)) /\ clock \in Nat /\ ops[i].made \in 0..clock
    BY OpsAre DEF Operations
  <1>2. DOMAIN ops = 1..Len(ops) /\ ops[i] \in Operations(clock)
    BY <1>1
  <1>3. PICK made : made = ops[i].made
    OBVIOUS
  <1>4. [ops[i] EXCEPT !.at = at] = [ops[i] EXCEPT !.at = at, !.made = made]
    BY <1>2, <1>3 DEF Operations
  <1>5. ops' = [ops EXCEPT ![i] = [ops[i] EXCEPT !.at = at]]
    BY DEF Step
  <1>6. ops' = [ops EXCEPT ![i] = [ops[i] EXCEPT !.at = at, !.made = made]]
    BY <1>4, <1>5
  <1>7. ops' = [ops EXCEPT ![i].at = at, ![i].made = made]
    BY <1>2, <1>6
  <1>8. clock' \in {clock, clock + 1} /\ made \in 0..clock'
    BY <1>1, <1>3
  <1>9. Moves(i, made) /\ ops'[i].at = at
    BY <1>7, <1>8, MoveIs
  <1> QED BY <1>3, <1>9

-----------------------------------------------------------------------------
(* Every step keeps the types.                                                *)

(* What an operation is stays; what it has come to stays.                     *)
OpsStay ==
    /\ clock' \in Nat /\ clock <= clock' /\ ops' \in Seq(Operations(clock'))
    /\ Len(ops) <= Len(ops') /\ Len(ops') \in 0..MaxOps
    /\ \A i \in 1..Len(ops) :
          /\ i \in 1..Len(ops')
          /\ ops'[i].req = ops[i].req /\ ops'[i].since = ops[i].since
          /\ Writes(i)' <=> Writes(i)
          /\ Targets(i)' = Targets(i)
          /\ ops[i].at = "over" => ops'[i].at = "over" /\ ops'[i].made = ops[i].made

LEMMA StayBy ==
  ASSUME ReadIInv, ReadThroughBounds,
         \/ UNCHANGED <<ops, clock>>
         \/ clock' = clock + 1 /\ UNCHANGED ops
         \/ \E r \in Wanted : (BeginRead(r) \/ BeginChange(r)) /\ UNCHANGED clock
         \/ /\ clock' \in {clock, clock + 1}
            /\ \E i \in 1..Len(ops) : \E made \in 0..clock' : Moves(i, made) /\ ops[i].at # "over"
  PROVE  OpsStay
  <1>1. /\ ops \in Seq(Operations(clock)) /\ clock \in Nat /\ Len(ops) \in 0..MaxOps /\ MaxOps \in Nat
    BY OpsAre
  <1>2. CASE UNCHANGED <<ops, clock>>
    BY <1>1, <1>2 DEF OpsStay, Writes, Targets
  <1>3. CASE clock' = clock + 1 /\ UNCHANGED ops
    <2>1. PICK m : m = clock' /\ m = clock + 1
      BY <1>3
    <2>2. \A y \in Operations(clock) : y \in Operations(m)
      BY <1>1, <2>1 DEF Operations
    <2>3. ops \in Seq(Operations(m))
      <3>1. ops = [j \in 1..Len(ops) |-> ops[j]] /\ \A j \in 1..Len(ops) : ops[j] \in Operations(clock)
        BY <1>1
      <3> QED BY <1>1, <2>2, <3>1, EachOf
    <2> QED BY <1>1, <1>3, <2>1, <2>3 DEF OpsStay, Writes, Targets
  <1>4. ASSUME NEW r \in Wanted, BeginRead(r) \/ BeginChange(r), UNCHANGED clock PROVE OpsStay
    BY <1>1, <1>4, BeginIs DEF OpsStay, Writes, Targets
  <1>5. ASSUME clock' \in {clock, clock + 1}, NEW i \in 1..Len(ops), NEW made \in 0..clock',
               Moves(i, made), ops[i].at # "over"
        PROVE OpsStay
    <2>1. clock' \in Nat /\ clock <= clock'
      BY <1>1, <1>5
    <2>2. \A j \in 1..Len(ops) : ops'[j].req = ops[j].req /\ ops'[j].since = ops[j].since
      BY <1>5 DEF Moves
    <2>3. Len(ops') = Len(ops) /\ ops' \in Seq(Operations(clock'))
      BY <1>5 DEF Moves
    <2>4. \A j \in 1..Len(ops) : ops[j].at = "over" => ops'[j] = ops[j]
      BY <1>5 DEF Moves
    <2> QED BY <1>1, <2>1, <2>2, <2>3, <2>4 DEF OpsStay, Writes, Targets
  <1> QED BY <1>2, <1>3, <1>4, <1>5

(* The steps that move an operation.                                          *)
LEMMA MovesAre ==
  ASSUME ReadIInv, ReadThroughBounds, NEW i \in 1..Len(ops)
  PROVE  /\ \A hinted \in BOOLEAN : Refuse(i, hinted) =>
               Moves(i, 0) /\ ops'[i].at = "over" /\ ops[i].at = "asks" /\ ~IsRead(ops[i].req)
         /\ Pass(i) => Moves(i, 0) /\ ops'[i].at = "asks" /\ ops[i].at = "misses"
         /\ LookUp(i) =>
               /\ ops[i].at = "looks"
               /\ IF store[ops[i].req.from].there
                  THEN Moves(i, store[ops[i].req.from].made) /\ ops'[i].at = "over"
                  ELSE Moves(i, 0) /\ ops'[i].at = "misses"
         /\ Execute(i) =>
               /\ ops[i].at = "asks" /\ ops'[i].at = "over"
               /\ IF IsRead(ops[i].req)
                  THEN Moves(i, disk[ops[i].req.from].made) /\ UNCHANGED <<disk, clock, dirty>>
                  ELSE IF Possible(ops[i].req)
                  THEN /\ Moves(i, clock + 1) /\ clock' = clock + 1
                       /\ disk' = [f \in File |-> IF f \in Targets(i) THEN Changed(ops[i].req, f) ELSE disk[f]]
                       /\ dirty' = dirty \cup Targets(i)
                  ELSE Moves(i, 0) /\ UNCHANGED <<disk, clock, dirty>>
  <1>1. ops \in Seq(Operations(clock)) /\ clock \in Nat /\ ops[i].req.from \in File
        /\ clock + 1 \in 0..(clock + 1) /\ 0 \in 0..clock
    BY OpsAre
  <1>2. ops[i].at # "over" => ops[i].made = 0
    BY DEF ReadIInv, OpsOK
  <1>3. ASSUME NEW hinted \in BOOLEAN, Refuse(i, hinted)
        PROVE  Moves(i, 0) /\ ops'[i].at = "over" /\ ops[i].at = "asks" /\ ~IsRead(ops[i].req)
    <2>1. ops' = Step(i, "over") /\ clock' = clock /\ ops[i].at = "asks" /\ ~IsRead(ops[i].req)
      BY <1>3 DEF Refuse
    <2> QED BY <2>1, <1>2, GoesIs
  <1>4. ASSUME Pass(i) PROVE Moves(i, 0) /\ ops'[i].at = "asks" /\ ops[i].at = "misses"
    <2>1. ops' = Step(i, "asks") /\ clock' = clock /\ ops[i].at = "misses"
      BY <1>4 DEF Pass
    <2> QED BY <2>1, <1>2, GoesIs
  <1>5. ASSUME LookUp(i)
        PROVE  /\ ops[i].at = "looks"
               /\ IF store[ops[i].req.from].there
                  THEN Moves(i, store[ops[i].req.from].made) /\ ops'[i].at = "over"
                  ELSE Moves(i, 0) /\ ops'[i].at = "misses"
    <2> DEFINE kept == store[ops[i].req.from]
    <2>1. kept.made \in 0..clock
      BY <1>1, FilesAre
    <2>2. /\ ops[i].at = "looks" /\ clock' = clock
          /\ ops' = [ops EXCEPT ![i].at = IF kept.there THEN "over" ELSE "misses",
                                ![i].made = IF kept.there THEN kept.made ELSE 0]
      BY <1>5 DEF LookUp
    <2> HIDE DEF kept
    <2>3. CASE kept.there
      <3>1. ops' = [ops EXCEPT ![i].at = "over", ![i].made = kept.made]
        BY <2>2, <2>3
      <3>2. Moves(i, kept.made) /\ ops'[i].at = "over"
        BY <2>1, <2>2, <3>1, MoveIs
      <3> QED BY <2>2, <2>3, <3>2 DEF kept
    <2>4. CASE ~kept.there
      <3>1. ops' = [ops EXCEPT ![i].at = "misses", ![i].made = 0]
        BY <2>2, <2>4
      <3>2. Moves(i, 0) /\ ops'[i].at = "misses"
        BY <1>1, <2>2, <3>1, MoveIs
      <3> QED BY <2>2, <2>4, <3>2 DEF kept
    <2> QED BY <2>3, <2>4
  <1>6. ASSUME Execute(i)
        PROVE  /\ ops[i].at = "asks" /\ ops'[i].at = "over"
               /\ IF IsRead(ops[i].req)
                  THEN Moves(i, disk[ops[i].req.from].made) /\ UNCHANGED <<disk, clock, dirty>>
                  ELSE IF Possible(ops[i].req)
                  THEN /\ Moves(i, clock + 1) /\ clock' = clock + 1
                       /\ disk' = [f \in File |-> IF f \in Targets(i) THEN Changed(ops[i].req, f) ELSE disk[f]]
                       /\ dirty' = dirty \cup Targets(i)
                  ELSE Moves(i, 0) /\ UNCHANGED <<disk, clock, dirty>>
    <2> DEFINE r == ops[i].req
    <2>1. ops[i].at = "asks"
      BY <1>6 DEF Execute
    <2>2. CASE IsRead(r)
      <3>1. ops' = [ops EXCEPT ![i].at = "over", ![i].made = disk[r.from].made] /\ UNCHANGED <<disk, clock, dirty>>
        BY <1>6, <2>2 DEF Execute
      <3>2. disk[r.from].made \in 0..clock
        BY <1>1, FilesAre
      <3>3. Moves(i, disk[r.from].made) /\ ops'[i].at = "over"
        BY <3>1, <3>2, MoveIs
      <3> QED BY <2>1, <2>2, <3>1, <3>3
    <2>3. CASE ~IsRead(r) /\ Possible(r)
      <3>1. /\ ops' = [ops EXCEPT ![i].at = "over", ![i].made = clock + 1] /\ clock' = clock + 1
            /\ disk' = [f \in File |-> IF f \in Targets(i) THEN Changed(ops[i].req, f) ELSE disk[f]]
            /\ dirty' = dirty \cup Targets(i)
        BY <1>6, <2>3 DEF Execute
      <3>2. Moves(i, clock + 1) /\ ops'[i].at = "over"
        BY <1>1, <3>1, MoveIs
      <3> QED BY <2>1, <2>3, <3>1, <3>2
    <2>4. CASE ~IsRead(r) /\ ~Possible(r)
      <3>1. ops' = Step(i, "over") /\ UNCHANGED <<disk, clock, dirty>>
        BY <1>6, <2>4 DEF Execute
      <3>2. Moves(i, 0) /\ ops'[i].at = "over"
        BY <1>2, <2>1, <3>1, GoesIs
      <3> QED BY <2>1, <2>4, <3>1, <3>2
    <2> QED BY <2>2, <2>3, <2>4
  <1> QED BY <1>3, <1>4, <1>5, <1>6

(* Which steps touch the operations, and how.                                 *)

LEMMA Kinds ==
  ASSUME [ReadNext]_readVars
  PROVE  \/ \E r \in Wanted : BeginRead(r)
         \/ \E r \in Wanted : BeginChange(r)
         \/ \E i \in 1..Len(ops) : LookUp(i) \/ Pass(i) \/ Hint(i) \/ Execute(i)
                                   \/ \E hinted \in BOOLEAN : Refuse(i, hinted)
         \/ \E paths \in SUBSET dirty, again \in SUBSET dirty : FlushStart(paths, again)
         \/ \E f \in File : Tag(f) \/ Unsuppress(f) \/ BypassExpires(f) \/ OtherTask(f)
                            \/ \E there \in BOOLEAN : Edit(f, there)
         \/ Read \/ Push \/ ApplyDelta
         \/ UNCHANGED readVars
  BY DEF ReadNext, AtRest

LEMMA Stays ==
  ASSUME ReadIInv, ReadThroughBounds, [ReadNext]_readVars
  PROVE  OpsStay
  <1>0. clock \in Nat /\ clock + 1 \in 0..(clock + 1) /\ 0 \in 0..clock
        /\ \A i \in 1..Len(ops) : ops[i].req.from \in File
        /\ \A f \in File : store[f].made \in 0..clock /\ disk[f].made \in 0..clock
    BY OpsAre, FilesAre
  <1>1. ASSUME NEW r \in Wanted, BeginRead(r) \/ BeginChange(r) PROVE OpsStay
    BY <1>1, StayBy DEF BeginRead, BeginChange
  <1>2. ASSUME NEW i \in 1..Len(ops),
               LookUp(i) \/ Pass(i) \/ Execute(i) \/ \E hinted \in BOOLEAN : Refuse(i, hinted)
        PROVE  OpsStay
    <2>1. clock' \in {clock, clock + 1} /\ 0 \in 0..clock'
      BY <1>0, <1>2 DEF LookUp, Pass, Execute, Refuse
    <2>2. ops[i].at # "over" /\ \E made \in 0..clock' : Moves(i, made)
      <3>1. CASE LookUp(i)
        <4>1. clock' = clock
          BY <3>1 DEF LookUp
        <4> QED BY <1>0, <3>1, <4>1, MovesAre
      <3>2. CASE Pass(i)
        BY <2>1, <3>2, MovesAre
      <3>3. CASE Execute(i)
        BY <1>0, <2>1, <3>3, MovesAre
      <3>4. CASE \E hinted \in BOOLEAN : Refuse(i, hinted)
        BY <2>1, <3>4, MovesAre
      <3> QED BY <1>2, <3>1, <3>2, <3>3, <3>4
    <2> QED BY <2>1, <2>2, StayBy
  <1>3. CASE \/ \E i \in 1..Len(ops) : Hint(i)
             \/ \E paths \in SUBSET dirty, again \in SUBSET dirty : FlushStart(paths, again)
             \/ \E f \in File : Tag(f) \/ Unsuppress(f) \/ BypassExpires(f) \/ OtherTask(f)
             \/ Read \/ Push \/ ApplyDelta
             \/ UNCHANGED readVars
    <2>1. UNCHANGED <<ops, clock>>
      BY <1>3 DEF Hint, FlushStart, Tag, Unsuppress, BypassExpires, OtherTask, Read, Push, ApplyDelta, readVars
    <2> QED BY <2>1, StayBy
  <1>4. CASE \E f \in File : \E there \in BOOLEAN : Edit(f, there)
    BY <1>4, StayBy DEF Edit
  <1> QED BY <1>1, <1>2, <1>3, <1>4, Kinds

(* One reading of the flush.                                                  *)
ReadChange == [on |-> flush.at, what |-> disk[flush.at], tag |-> flush.tag]
Reports == disk[flush.at].there \/ flush.at \in localIndex
ReadFound == flush.found \cup IF Reports THEN {ReadChange} ELSE {}
ReadTodo == flush.todo \ {flush.at}

LEMMA FlushIs ==
  ASSUME ReadIInv, ReadThroughBounds
  PROVE  /\ flush.all \subseteq File /\ flush.todo \subseteq flush.all
         /\ flush.at # None => flush.at \in flush.todo /\ flush.at \in File
         /\ flush.tag \in 0..Len(ops) /\ flush.tag \in Op \cup {NoId}
         /\ flush.found \subseteq Change
         /\ Idle.todo = {} /\ Idle.all = {} /\ Idle.at = None /\ Idle.tag = NoId /\ Idle.found = {}
  <1>1. /\ flush \in [all: SUBSET File, todo: SUBSET File, at: File \cup {None},
                      tag: 0..Len(ops), found: SUBSET Change]
        /\ flush.todo \subseteq flush.all /\ flush.at \in flush.todo \cup {None}
    BY DEF ReadIInv, ReadTypeOK
  <1>2. flush.tag \in Op \cup {NoId}
    <2>1. Len(ops) \in 0..MaxOps /\ MaxOps \in Nat
      BY OpsAre
    <2> QED BY <1>1, <2>1 DEF Op, NoId
  <1> QED BY <1>1, <1>2 DEF Idle

LEMMA ReadIs ==
  ASSUME ReadIInv, ReadThroughBounds, Read
  PROVE  /\ flush.at \in flush.todo /\ flush.at \in File /\ ReadChange \in Change
         /\ ReadFound \subseteq Change /\ OnePerFile(ReadFound)
         /\ \A c \in ReadFound : c.on \notin ReadTodo
         /\ localIndex' = IF disk[flush.at].there THEN localIndex \cup {flush.at}
                          ELSE localIndex \ {flush.at}
         /\ ReadTodo = {} => flush' = Idle /\ live' = Merged(live, ReadFound)
         /\ ReadTodo # {} => /\ flush'.all = flush.all /\ flush'.todo = ReadTodo /\ flush'.at = None
                             /\ flush'.tag = NoId /\ flush'.found = ReadFound
                             /\ flush' = [all |-> flush.all, todo |-> ReadTodo, at |-> None, tag |-> NoId,
                                          found |-> ReadFound]
                             /\ live' = live
         /\ UNCHANGED <<disk, clock, dirty, suppressed, batch, hints, manager, ops, own, trouble>>
  <1>1. /\ flush.at # None
        /\ localIndex' = IF disk[flush.at].there THEN localIndex \cup {flush.at}
                         ELSE localIndex \ {flush.at}
        /\ flush' = IF ReadTodo = {} THEN Idle
                    ELSE [all |-> flush.all, todo |-> ReadTodo, at |-> None, tag |-> NoId,
                          found |-> ReadFound]
        /\ live' = IF ReadTodo = {} THEN Merged(live, ReadFound) ELSE live
        /\ UNCHANGED <<disk, clock, dirty, suppressed, batch, hints, manager, ops, own, trouble>>
    BY DEF Read, ReadTodo, ReadFound, ReadChange, Reports
  <1>2. flush.at \in flush.todo /\ flush.at \in File /\ flush.found \subseteq Change
    BY <1>1, FlushIs
  <1>3. ReadChange \in Change
    BY <1>2, FlushIs, FilesAre DEF ReadChange, Change
  <1>4. ReadChange.on = flush.at
    BY DEF ReadChange
  <1>5. OnePerFile(flush.found) /\ \A c \in flush.found : c.on \notin flush.todo
    BY DEF ReadIInv, ChangesOK
  <1>6. OnePerFile(ReadFound)
    BY <1>2, <1>4, <1>5 DEF OnePerFile, ReadFound
  <1>7. \A c \in ReadFound : c.on \notin ReadTodo
    BY <1>4, <1>5 DEF ReadFound, ReadTodo
  <1> QED BY <1>1, <1>2, <1>3, <1>6, <1>7 DEF ReadFound

(* What the delta does to the manifest, when it has one change of a file.     *)
LEMMA StoredIs ==
  ASSUME NEW changes, OnePerFile(changes), NEW e, NEW f \in File
  PROVE  /\ \A c \in changes : c.on = f => Stored(e, changes)[f] = c.what
         /\ (\A c \in changes : c.on # f) => Stored(e, changes)[f] = e[f]
  <1>1. ASSUME NEW c \in changes, c.on = f PROVE Stored(e, changes)[f] = c.what
    <2>1. (CHOOSE d \in changes : d.on = f) = c
      BY <1>1 DEF OnePerFile
    <2> QED BY <1>1, <2>1 DEF Stored
  <1> QED BY <1>1 DEF Stored

(* The changes that count.                                                    *)
LEMMA MergedIs ==
  ASSUME NEW old, NEW new
  PROVE  /\ \A c \in Merged(old, new) : c \in new \/ (c \in old /\ \A d \in new : d.on # c.on)
         /\ new \subseteq Merged(old, new)
         /\ \A c \in old : (\A d \in new : d.on # c.on) => c \in Merged(old, new)
         /\ OnePerFile(old) /\ OnePerFile(new) => OnePerFile(Merged(old, new))
  BY DEF Merged, OnePerFile

LEMMA ChangesStep ==
  ASSUME ReadIInv, ReadThroughBounds, [ReadNext]_readVars
  PROVE  ChangesOK'
  <1>0. /\ OnePerFile(batch) /\ OnePerFile(live) /\ OnePerFile(flush.found)
        /\ \A c \in flush.found : c.on \notin flush.todo
        /\ flush.todo = {} => flush = Idle
    BY DEF ReadIInv, ChangesOK
  <1>1. CASE UNCHANGED <<batch, live, flush>>
    BY <1>0, <1>1 DEF ChangesOK, OnePerFile
  <1>2. ASSUME NEW paths \in SUBSET dirty, NEW again \in SUBSET dirty, FlushStart(paths, again)
        PROVE  ChangesOK'
    <2>1. /\ flush' = [Idle EXCEPT !.all = paths, !.todo = paths] /\ paths # {}
          /\ UNCHANGED <<live, batch>>
      BY <1>2 DEF FlushStart, queue
    <2>2. flush'.found = {} /\ flush'.todo = paths
      BY <2>1 DEF Idle
    <2> QED BY <1>0, <2>1, <2>2 DEF ChangesOK, OnePerFile
  <1>3. ASSUME NEW f \in File, Tag(f) PROVE ChangesOK'
    <2>1. flush' = [flush EXCEPT !.at = f, !.tag = suppressed[f]] /\ UNCHANGED <<live, batch>>
          /\ f \in flush.todo
      BY <1>3 DEF Tag, queue
    <2>2. flush'.found = flush.found /\ flush'.todo = flush.todo
      BY <2>1 DEF ReadIInv, ReadTypeOK
    <2> QED BY <1>0, <2>1, <2>2 DEF ChangesOK, OnePerFile
  <1>4. ASSUME Read PROVE ChangesOK'
    <2>1. batch' = batch /\ OnePerFile(ReadFound) /\ OnePerFile(live')
      BY <1>0, <1>4, ReadIs, MergedIs
    <2>2. CASE ReadTodo = {}
      BY <1>0, <1>4, <2>1, <2>2, ReadIs, FlushIs DEF ChangesOK, OnePerFile
    <2>3. CASE ReadTodo # {}
      BY <1>0, <1>4, <2>1, <2>3, ReadIs DEF ChangesOK, OnePerFile
    <2> QED BY <2>2, <2>3
  <1>5. ASSUME Push PROVE ChangesOK'
    BY <1>0, <1>5 DEF Push, watcher, ChangesOK, OnePerFile
  <1>6. ASSUME ApplyDelta PROVE ChangesOK'
    BY <1>0, <1>6 DEF ApplyDelta, watcher, ChangesOK, OnePerFile
  <1> QED BY <1>1, <1>2, <1>3, <1>4, <1>5, <1>6, Kinds
          DEF BeginRead, BeginChange, LookUp, Pass, Hint, Execute, Refuse, Unsuppress, BypassExpires,
              OtherTask, Edit, readVars, watcher, queue

(* A file changes when a change is carried out or the user edits it.          *)
LEMMA DiskIs ==
  ASSUME ReadIInv, ReadThroughBounds, [ReadNext]_readVars
  PROVE  \/ UNCHANGED <<disk, clock>>
         \/ /\ clock' = clock + 1
            /\ \E i \in 1..Len(ops) :
                  /\ Execute(i) /\ ~IsRead(ops[i].req) /\ Possible(ops[i].req) /\ Moves(i, clock + 1)
                  /\ ops[i].at = "asks" /\ ops'[i].at = "over"
                  /\ disk' = [f \in File |-> IF f \in Targets(i) THEN Changed(ops[i].req, f) ELSE disk[f]]
                  /\ dirty' = dirty \cup Targets(i)
         \/ /\ clock' = clock + 1
            /\ \E f \in File, there \in BOOLEAN :
                  Edit(f, there) /\ disk' = [disk EXCEPT ![f] = [made |-> clock + 1, there |-> there]]
  <1>1. ASSUME NEW i \in 1..Len(ops), Execute(i), ~UNCHANGED <<disk, clock>>
        PROVE  /\ clock' = clock + 1
               /\ ~IsRead(ops[i].req) /\ Possible(ops[i].req) /\ Moves(i, clock + 1)
               /\ ops[i].at = "asks" /\ ops'[i].at = "over"
               /\ disk' = [f \in File |-> IF f \in Targets(i) THEN Changed(ops[i].req, f) ELSE disk[f]]
               /\ dirty' = dirty \cup Targets(i)
    BY <1>1, MovesAre
  <1>2. ASSUME NEW f \in File, NEW there \in BOOLEAN, Edit(f, there)
        PROVE  clock' = clock + 1 /\ disk' = [disk EXCEPT ![f] = [made |-> clock + 1, there |-> there]]
    BY <1>2 DEF Edit
  <1>3. CASE \/ \E r \in Wanted : BeginRead(r) \/ BeginChange(r)
             \/ \E i \in 1..Len(ops) : LookUp(i) \/ Pass(i) \/ Hint(i)
                                       \/ \E hinted \in BOOLEAN : Refuse(i, hinted)
             \/ \E paths \in SUBSET dirty, again \in SUBSET dirty : FlushStart(paths, again)
             \/ \E f \in File : Tag(f) \/ Unsuppress(f) \/ BypassExpires(f) \/ OtherTask(f)
             \/ Read \/ Push \/ ApplyDelta
             \/ UNCHANGED readVars
    BY <1>3 DEF BeginRead, BeginChange, LookUp, Pass, Hint, Refuse, FlushStart, Tag, Unsuppress,
                BypassExpires, OtherTask, Read, Push, ApplyDelta, readVars
  <1> QED BY <1>1, <1>2, <1>3, Kinds

LEMMA DiskGrows ==
  ASSUME ReadIInv, ReadThroughBounds, [ReadNext]_readVars
  PROVE  /\ disk' \in [File -> Content]
         /\ \A f \in File : disk[f].made <= disk'[f].made /\ disk'[f].made <= clock' /\ disk'[f].made \in Nat
  <1>1. disk \in [File -> Content] /\ clock \in Nat
    BY DEF ReadIInv, ReadTypeOK
  <1>2. \A f \in File : disk[f].made \in 0..clock
    BY FilesAre
  <1>3. CASE UNCHANGED <<disk, clock>>
    BY <1>1, <1>2, <1>3
  <1>4. ASSUME NEW i \in 1..Len(ops), clock' = clock + 1,
               disk' = [f \in File |-> IF f \in Targets(i) THEN Changed(ops[i].req, f) ELSE disk[f]]
        PROVE  /\ disk' \in [File -> Content]
               /\ \A f \in File : disk[f].made <= disk'[f].made /\ disk'[f].made <= clock' /\ disk'[f].made \in Nat
    <2>1. \A f \in File : /\ Changed(ops[i].req, f).made = clock + 1
                          /\ Changed(ops[i].req, f) \in Content
      BY <1>1 DEF Changed, Content
    <2> QED BY <1>1, <1>2, <1>4, <2>1
  <1>5. ASSUME NEW f \in File, NEW there \in BOOLEAN, clock' = clock + 1,
               disk' = [disk EXCEPT ![f] = [made |-> clock + 1, there |-> there]]
        PROVE  /\ disk' \in [File -> Content]
               /\ \A g \in File : disk[g].made <= disk'[g].made /\ disk'[g].made <= clock' /\ disk'[g].made \in Nat
    <2>1. [made |-> clock + 1, there |-> there] \in Content
      BY <1>1 DEF Content
    <2> QED BY <1>1, <1>2, <1>5, <2>1
  <1> QED BY <1>3, <1>4, <1>5, DiskIs

LEMMA ChangeIs ==
  ASSUME ReadIInv, NEW c \in batch \cup live \cup flush.found
  PROVE  /\ c \in Change /\ c.on \in File /\ c.what \in Content /\ c.tag \in Op \cup {NoId}
         /\ c.what.made \in Nat /\ c.what.there \in BOOLEAN
  <1>1. c \in Change
    BY DEF ReadIInv, ReadTypeOK
  <1>2. c.on \in File /\ c.what \in Content /\ c.tag \in Op \cup {NoId}
    BY <1>1 DEF Change
  <1> QED BY <1>1, <1>2 DEF Content

LEMMA NoneAheadStep ==
  ASSUME ReadIInv, ReadThroughBounds, [ReadNext]_readVars
  PROVE  NoneAhead'
  <1>0. /\ \A f \in File : /\ disk[f].made <= disk'[f].made /\ disk'[f].made <= clock'
                           /\ disk'[f].made \in Nat /\ disk[f].made \in Nat
                           /\ store[f].made \in Nat /\ store[f].made <= disk[f].made
        /\ \A c \in batch \cup live \cup flush.found :
              c.on \in File /\ c.what.made \in Nat /\ c.what.made <= disk[c.on].made
    <2>1. \A f \in File : disk[f].made \in Nat /\ store[f].made \in Nat
      BY FilesAre
    <2>2. \A c \in batch \cup live \cup flush.found : c.on \in File /\ c.what.made \in Nat
      BY ChangeIs
    <2> QED BY <2>1, <2>2, DiskGrows DEF ReadIInv, NoneAhead
  <1>1. ASSUME \A f \in File : store'[f].made <= disk'[f].made,
               batch' \cup live' \cup flush'.found \subseteq batch \cup live \cup flush.found
        PROVE  NoneAhead'
    BY <1>0, <1>1 DEF NoneAhead
  <1>2. CASE UNCHANGED <<store, batch, live, flush>>
    BY <1>0, <1>1, <1>2
  <1>3. ASSUME NEW paths \in SUBSET dirty, NEW again \in SUBSET dirty, FlushStart(paths, again)
        PROVE  NoneAhead'
    <2>1. flush'.found = {} /\ UNCHANGED <<store, live, batch>>
      BY <1>3 DEF FlushStart, queue, Idle, manager
    <2> QED BY <1>0, <1>1, <2>1
  <1>4. ASSUME NEW f \in File, Tag(f) PROVE NoneAhead'
    <2>1. flush'.found = flush.found /\ UNCHANGED <<store, live, batch>>
      BY <1>4 DEF Tag, queue, manager, ReadIInv, ReadTypeOK
    <2> QED BY <1>0, <1>1, <2>1
  <1>5. ASSUME Read PROVE NoneAhead'
    <2>1. ReadChange.on \in File /\ ReadChange.what.made <= disk[ReadChange.on].made
      BY <1>0, <1>5, ReadIs DEF ReadChange
    <2>2. \A c \in ReadFound : c.what.made <= disk[c.on].made
      BY <1>0, <2>1 DEF ReadFound
    <2>3. flush'.found \subseteq ReadFound /\ live' \subseteq live \cup ReadFound
      BY <1>5, ReadIs, MergedIs, FlushIs
    <2>4. UNCHANGED <<disk, store, batch, clock>>
      BY <1>5, ReadIs DEF manager
    <2> QED BY <1>0, <2>2, <2>3, <2>4 DEF NoneAhead
  <1>6. ASSUME Push PROVE NoneAhead'
    <2>1. batch' = live /\ live' = {} /\ UNCHANGED <<store, flush>>
      BY <1>6 DEF Push, watcher, manager
    <2> QED BY <1>0, <1>1, <2>1
  <1>7. ASSUME ApplyDelta PROVE NoneAhead'
    <2>1. /\ store' = Stored(store, Fresh(batch)) /\ batch' = {}
          /\ UNCHANGED <<disk, live, flush>>
      BY <1>7 DEF ApplyDelta, watcher
    <2>2. Fresh(batch) \subseteq batch /\ OnePerFile(Fresh(batch))
      BY DEF Fresh, ReadIInv, ChangesOK, OnePerFile
    <2>3. \A f \in File : store'[f].made <= disk'[f].made
      BY <1>0, <2>1, <2>2, StoredIs
    <2> QED BY <1>1, <2>1, <2>3
  <1>8. ASSUME NEW f \in File, OtherTask(f) PROVE NoneAhead'
    <2>1. PICK older : /\ older < disk[f].made
                       /\ older \in {0} \cup {ops[i].made : i \in {j \in 1..Len(ops) : f \in Targets(j)}}
                       /\ store' = [store EXCEPT ![f] = [made |-> older, there |-> TRUE]]
                       /\ UNCHANGED <<disk, batch, live, flush, clock>>
      BY <1>8 DEF OtherTask, queue, watcher
    <2>2. \A i \in 1..Len(ops) : ops[i].made \in 0..clock
      BY OpsAre DEF Operations
    <2>a. 0 \in 0..clock /\ store \in [File -> Content] /\ clock \in Nat
      BY DEF ReadIInv, ReadTypeOK
    <2>3. older \in 0..clock
      BY <2>a, <2>1, <2>2
    <2>4. \A g \in File : store'[g].made <= disk'[g].made
      BY <1>0, <2>a, <2>1, <2>3
    <2> QED BY <1>1, <2>1, <2>4
  <1>a. ASSUME NEW r \in Wanted, BeginRead(r) \/ BeginChange(r) PROVE NoneAhead'
    BY <1>2, <1>a DEF BeginRead, BeginChange, watcher, queue, manager
  <1>b. ASSUME NEW i \in 1..Len(ops), LookUp(i) \/ Pass(i) \/ Hint(i) \/ Execute(i)
                                      \/ \E hinted \in BOOLEAN : Refuse(i, hinted)
        PROVE  NoneAhead'
    BY <1>2, <1>b DEF LookUp, Pass, Hint, Execute, Refuse, watcher, queue, manager
  <1>c. ASSUME NEW f \in File, \/ Unsuppress(f) \/ BypassExpires(f)
                               \/ \E there \in BOOLEAN : Edit(f, there)
        PROVE NoneAhead'
    BY <1>2, <1>c DEF Unsuppress, BypassExpires, Edit, watcher, queue, manager
  <1>d. CASE UNCHANGED readVars
    BY <1>2, <1>d DEF readVars, watcher, queue, manager
  <1> QED BY <1>3, <1>4, <1>5, <1>6, <1>7, <1>8, <1>a, <1>b, <1>c, <1>d, Kinds

(* An operation that goes on keeps what is said of the operations.            *)
LEMMA MoveKeeps ==
  ASSUME ReadIInv, ReadThroughBounds, [ReadNext]_readVars,
         NEW i \in 1..Len(ops), NEW made \in Nat, Moves(i, made),
         Writes(i) => ops'[i].at \in {"asks", "over"}, ops'[i].at # "over" => made = 0,
         \A f \in Targets(i) : made <= disk'[f].made
  PROVE  OpsOK'
  <1>1. /\ OpsStay /\ OpsOK /\ Len(ops) \in Nat
        /\ \A j \in 1..Len(ops) : Targets(j) \subseteq File /\ ops[j].made \in Nat
    BY Stays, OpsAre DEF ReadIInv, Operations
  <1>2. Len(ops') = Len(ops) /\ ops'[i].made = made /\ \A j \in 1..Len(ops) : j # i => ops'[j] = ops[j]
    BY DEF Moves
  <1>3. \A f \in File : disk[f].made \in Nat /\ disk'[f].made \in Nat /\ disk[f].made <= disk'[f].made
    BY FilesAre, DiskGrows
  <1>4. ASSUME NEW j \in 1..Len(ops)
        PROVE  /\ Writes(j)' => ops'[j].at \in {"asks", "over"}
               /\ ops'[j].at # "over" => ops'[j].made = 0
               /\ \A f \in Targets(j)' : ops'[j].made <= disk'[f].made
    <2>1. Targets(j)' = Targets(j) /\ (Writes(j)' <=> Writes(j))
      BY <1>1 DEF OpsStay
    <2>2. CASE j = i
      BY <1>2, <2>1, <2>2
    <2>3. CASE j # i
      <3>1. ops'[j] = ops[j]
        BY <1>2, <2>3
      <3>2. /\ Writes(j) => ops[j].at \in {"asks", "over"}
            /\ ops[j].at # "over" => ops[j].made = 0
            /\ \A f \in Targets(j) : ops[j].made <= disk[f].made
        BY <1>1 DEF OpsOK
      <3>3. \A f \in Targets(j) : ops[j].made <= disk'[f].made
        BY <1>1, <1>3, <3>2
      <3> QED BY <2>1, <3>1, <3>2, <3>3
    <2> QED BY <2>2, <2>3
  <1>5. ASSUME NEW j \in 1..Len(ops), NEW k \in 1..Len(ops),
               j < k, Writes(j)', Writes(k)', Targets(j)' \cap Targets(k)' # {}
        PROVE  ops'[j].at = "over"
    BY <1>1, <1>5 DEF OpsStay, OpsOK
  <1> QED BY <1>2, <1>4, <1>5 DEF OpsOK

LEMMA OpsOKStep ==
  ASSUME ReadIInv, ReadThroughBounds, [ReadNext]_readVars
  PROVE  OpsOK'
  <1>1. /\ OpsStay /\ OpsOK /\ clock \in Nat /\ Len(ops) \in Nat
        /\ \A j \in 1..Len(ops) : Targets(j) \subseteq File /\ ops[j].made \in Nat
                                  /\ ops[j].req.from \in File
                                  /\ (IsRead(ops[j].req) => Targets(j) = {ops[j].req.from})
    BY Stays, OpsAre DEF ReadIInv, Operations
  <1>2. \A f \in File : /\ disk[f].made \in Nat /\ disk'[f].made \in Nat /\ disk[f].made <= disk'[f].made
                        /\ store[f].made \in Nat /\ store[f].made <= disk[f].made
    BY FilesAre, DiskGrows DEF ReadIInv, NoneAhead
  <1>3. CASE UNCHANGED ops
    <2>1. \A i \in 1..Len(ops) : \A f \in Targets(i) : ops[i].made <= disk'[f].made
      BY <1>1, <1>2 DEF OpsOK
    <2> QED BY <1>1, <1>3, <2>1 DEF OpsOK, Writes, Targets
  <1>4. ASSUME NEW r \in Wanted, BeginRead(r) \/ BeginChange(r) PROVE OpsOK'
    <2>0. PICK n : n = Len(ops) + 1
      OBVIOUS
    <2>1. /\ Len(ops') = n /\ \A i \in 1..Len(ops) : i \in 1..n /\ i # n /\ ops'[i] = ops[i]
          /\ \A i \in 1..n : i \in 1..Len(ops) \/ i = n
          /\ ops'[n].req = r /\ ops'[n].made = 0
      BY <1>4, <2>0, BeginIs
    <2>2. /\ IsRead(r) \/ (ops'[n].at = "asks" /\ ~IsRead(r))
          /\ BeginChange(r) => ~IsRead(r)
      BY <1>4, <2>0, BeginIs
    <2>3. ops'[n].at # "over"
      BY <1>4, <2>0, BeginIs
    <2>4. ASSUME NEW i \in 1..Len(ops)
          PROVE  /\ Writes(i)' => ops'[i].at \in {"asks", "over"}
                 /\ ops'[i].at # "over" => ops'[i].made = 0
                 /\ \A f \in Targets(i)' : ops'[i].made <= disk'[f].made
      <3>1. ops'[i] = ops[i] /\ Targets(i)' = Targets(i) /\ (Writes(i)' <=> Writes(i))
        BY <1>1, <2>1 DEF OpsStay
      <3> QED BY <1>1, <1>2, <3>1 DEF OpsOK
    <2>5. /\ Writes(n)' => ops'[n].at \in {"asks", "over"}
          /\ \A f \in Targets(n)' : ops'[n].made <= disk'[f].made
      <3>1. Targets(n)' \subseteq File
        BY <2>1 DEF Targets, ReadThroughBounds
      <3>2. Writes(n)' => ~IsRead(r)
        BY <2>1 DEF Writes
      <3> QED BY <1>2, <2>1, <2>2, <3>1, <3>2
    <2>6. ASSUME NEW i \in 1..Len(ops), NEW k \in 1..Len(ops), i < k,
                 Writes(i)', Writes(k)', Targets(i)' \cap Targets(k)' # {}
          PROVE  ops'[i].at = "over"
      BY <1>1, <2>6 DEF OpsStay, OpsOK
    <2>7. ASSUME NEW i \in 1..Len(ops), Writes(i)', Writes(n)', Targets(i)' \cap Targets(n)' # {}
          PROVE  ops'[i].at = "over"
      <3>1. ~IsRead(r) /\ Targets(n)' = {r.from, r.to}
        BY <2>1, <2>7 DEF Writes, Targets
      <3>2. BeginChange(r)
        BY <1>4, <3>1, BeginIs
      <3>3. \/ ops[i].at = "over" \/ IsRead(ops[i].req) \/ Targets(i) \cap {r.from, r.to} = {}
        BY <3>2 DEF BeginChange
      <3>4. Targets(i)' = Targets(i) /\ Writes(i) /\ ops'[i] = ops[i]
        BY <1>1, <2>1, <2>7 DEF OpsStay
      <3> QED BY <2>7, <3>1, <3>3, <3>4 DEF Writes
    <2>8. \A i, k \in 1..n : i < k => i \in 1..Len(ops)
      BY <1>1, <2>0
    <2>9. \A i, k \in 1..n : i < k /\ Writes(i)' /\ Writes(k)' /\ Targets(i)' \cap Targets(k)' # {}
                               => ops'[i].at = "over"
      BY <2>1, <2>6, <2>7, <2>8
    <2>a. \A i \in 1..n :
             /\ Writes(i)' => ops'[i].at \in {"asks", "over"}
             /\ ops'[i].at # "over" => ops'[i].made = 0
             /\ \A f \in Targets(i)' : ops'[i].made <= disk'[f].made
      BY <2>1, <2>4, <2>5
    <2> QED BY <2>1, <2>9, <2>a DEF OpsOK
  <1>5. ASSUME NEW i \in 1..Len(ops), \E hinted \in BOOLEAN : Refuse(i, hinted) PROVE OpsOK'
    <2>1. Moves(i, 0) /\ ops'[i].at = "over"
      BY <1>5, MovesAre
    <2>2. \A f \in Targets(i) : 0 <= disk'[f].made
      BY <1>1, <1>2
    <2> QED BY <2>1, <2>2, MoveKeeps
  <1>6. ASSUME NEW i \in 1..Len(ops), Pass(i) PROVE OpsOK'
    <2>1. Moves(i, 0) /\ ops'[i].at = "asks"
      BY <1>6, MovesAre
    <2>2. \A f \in Targets(i) : 0 <= disk'[f].made
      BY <1>1, <1>2
    <2> QED BY <2>1, <2>2, MoveKeeps
  <1>7. ASSUME NEW i \in 1..Len(ops), LookUp(i) PROVE OpsOK'
    <2> DEFINE f == ops[i].req.from
    <2>1. /\ ops[i].at = "looks"
          /\ IF store[f].there THEN Moves(i, store[f].made) /\ ops'[i].at = "over"
             ELSE Moves(i, 0) /\ ops'[i].at = "misses"
      BY <1>7, MovesAre
    <2>2. ~Writes(i)
      BY <1>1, <2>1 DEF OpsOK
    <2>3. Targets(i) = {f} /\ f \in File
      BY <1>1, <2>2 DEF Writes
    <2>4. store[f].made \in Nat /\ store[f].made <= disk'[f].made /\ 0 <= disk'[f].made
      BY <1>2, <2>3
    <2> HIDE DEF f
    <2> QED BY <2>1, <2>2, <2>3, <2>4, MoveKeeps
  <1>8. ASSUME NEW i \in 1..Len(ops), Execute(i) PROVE OpsOK'
    <2> DEFINE r == ops[i].req
    <2>0. /\ ops[i].at = "asks" /\ ops'[i].at = "over"
          /\ IF IsRead(r) THEN Moves(i, disk[r.from].made) /\ UNCHANGED <<disk, clock, dirty>>
             ELSE IF Possible(r)
             THEN /\ Moves(i, clock + 1)
                  /\ disk' = [f \in File |-> IF f \in Targets(i) THEN Changed(r, f) ELSE disk[f]]
             ELSE Moves(i, 0)
      BY <1>8, MovesAre
    <2>1. CASE IsRead(r)
      <3>1. Targets(i) = {r.from} /\ r.from \in File
        BY <1>1, <2>1
      <3>2. Moves(i, disk[r.from].made)
        BY <2>0, <2>1
      <3>3. disk[r.from].made \in Nat /\ \A f \in Targets(i) : disk[r.from].made <= disk'[f].made
        BY <1>2, <3>1
      <3> QED BY <2>0, <3>2, <3>3, MoveKeeps
    <2>2. CASE ~IsRead(r) /\ Possible(r)
      <3>1. Moves(i, clock + 1) /\ \A f \in Targets(i) : disk'[f].made = clock + 1
        BY <1>1, <2>0, <2>2 DEF Changed
      <3>2. clock + 1 \in Nat /\ \A f \in Targets(i) : clock + 1 <= disk'[f].made
        BY <1>1, <3>1
      <3> QED BY <2>0, <3>1, <3>2, MoveKeeps
    <2>3. CASE ~IsRead(r) /\ ~Possible(r)
      <3>1. Moves(i, 0) /\ \A f \in Targets(i) : 0 <= disk'[f].made
        BY <1>1, <1>2, <2>0, <2>3
      <3> QED BY <2>0, <3>1, MoveKeeps
    <2> QED BY <2>1, <2>2, <2>3
  <1>9. CASE \/ \E i \in 1..Len(ops) : Hint(i)
             \/ \E paths \in SUBSET dirty, again \in SUBSET dirty : FlushStart(paths, again)
             \/ \E f \in File : Tag(f) \/ Unsuppress(f) \/ BypassExpires(f) \/ OtherTask(f)
                                \/ \E there \in BOOLEAN : Edit(f, there)
             \/ Read \/ Push \/ ApplyDelta
             \/ UNCHANGED readVars
    BY <1>3, <1>9 DEF Hint, FlushStart, Tag, Unsuppress, BypassExpires, OtherTask, Edit, Read, Push,
                      ApplyDelta, readVars
  <1> QED BY <1>4, <1>5, <1>6, <1>7, <1>8, <1>9, Kinds

LEMMA HintsStep ==
  ASSUME ReadIInv, ReadThroughBounds, [ReadNext]_readVars
  PROVE  HintsOK'
  <1>1. /\ OpsStay /\ HintsOK /\ Len(ops) \in Nat /\ hints \subseteq 1..Len(ops)
        /\ suppressed \in [File -> 0..Len(ops)] /\ bypass \in [File -> 0..Len(ops)]
    <2>1. Len(ops) \in Nat
      BY OpsAre
    <2> QED BY <2>1, Stays DEF ReadIInv, ReadTypeOK
  <1>2. /\ \A t : Writes(t) => t \in Nat \ {NoId} /\ Writes(t)' /\ Targets(t)' = Targets(t)
        /\ \A h \in hints : Writes(h)
        /\ \A f \in File : \A t \in {suppressed[f], bypass[f]} :
              t # NoId => Writes(t) /\ f \in Targets(t)
        /\ \A f \in File : \A h \in hints : suppressed[f] < h
    BY <1>1 DEF OpsStay, HintsOK, Writes, NoId
  <1>x. ASSUME \A h \in hints' : Writes(h)',
               \A f \in File : \A t \in {suppressed'[f], bypass'[f]} :
                  t # NoId => Writes(t)' /\ f \in Targets(t)',
               \A f \in File : \A h \in hints' : suppressed'[f] < h
        PROVE  HintsOK'
    BY <1>x DEF HintsOK, Writes, Targets
  <1>3. ASSUME hints' \subseteq hints, \A f \in File : suppressed'[f] \in {suppressed[f], NoId},
               \A f \in File : bypass'[f] \in {bypass[f], NoId}
        PROVE  HintsOK'
    <2>1. \A h \in hints : NoId < h
      BY <1>1 DEF NoId
    <2> QED BY <1>2, <1>3, <1>x, <2>1
  <1>4. CASE UNCHANGED <<hints, suppressed, bypass>>
    BY <1>3, <1>4
  <1>5. ASSUME NEW r \in Wanted, BeginChange(r) PROVE HintsOK'
    <2>0. PICK n : n = Len(ops) + 1
      OBVIOUS
    <2>1. /\ bypass' = [f \in File |-> IF f \in {r.from, r.to} THEN n ELSE bypass[f]]
          /\ hints' = hints \cup {n} /\ suppressed' = suppressed
      BY <1>5, <2>0 DEF BeginChange, watcher
    <2>2. Len(ops') = n /\ ops'[n].req = r /\ ~IsRead(r) /\ n \in 1..n
      BY <1>1, <1>5, <2>0, BeginIs
    <2>3. Writes(n)' /\ Targets(n)' = {r.from, r.to}
      BY <2>2 DEF Writes, Targets
    <2>4. \A f \in File : suppressed[f] < n
      BY <1>1, <2>0
    <2>5. \A f \in File : \A t \in {suppressed'[f], bypass'[f]} :
             t # NoId => Writes(t)' /\ f \in Targets(t)'
      BY <1>2, <2>1, <2>3
    <2>6. \A f \in File : \A h \in hints' : suppressed'[f] < h
      BY <1>2, <2>1, <2>4
    <2>7. \A h \in hints' : Writes(h)'
      BY <1>2, <2>1, <2>3
    <2> QED BY <1>x, <2>5, <2>6, <2>7
  <1>6. ASSUME NEW i \in 1..Len(ops), Hint(i) PROVE HintsOK'
    <2>1. /\ i \in hints /\ (\A j \in hints : i <= j) /\ hints' = hints \ {i} /\ bypass' = bypass
          /\ suppressed' = [f \in File |-> IF f \in Targets(i) THEN i ELSE suppressed[f]]
      BY <1>1, <1>2, <1>6 DEF Hint, manager
    <2>2. \A h \in hints' : i < h
      BY <1>1, <2>1
    <2>3. Targets(i)' = Targets(i) /\ Writes(i)'
      BY <1>2, <2>1
    <2>4. \A f \in File : \A t \in {suppressed'[f], bypass'[f]} :
             t # NoId => Writes(t)' /\ f \in Targets(t)'
      BY <1>2, <2>1, <2>3
    <2>5. \A f \in File : \A h \in hints' : suppressed'[f] < h
      BY <1>2, <2>1, <2>2
    <2>6. \A h \in hints' : Writes(h)'
      BY <1>2, <2>1
    <2> QED BY <1>x, <2>4, <2>5, <2>6
  <1>7. ASSUME NEW f \in File, Unsuppress(f) PROVE HintsOK'
    BY <1>1, <1>3, <1>7 DEF Unsuppress, manager
  <1>8. ASSUME NEW f \in File, BypassExpires(f) PROVE HintsOK'
    BY <1>1, <1>3, <1>8 DEF BypassExpires, watcher
  <1>9. ASSUME ApplyDelta PROVE HintsOK'
    BY <1>1, <1>3, <1>9 DEF ApplyDelta, watcher, Cleared
  <1>a. ASSUME NEW i \in 1..Len(ops), NEW hinted \in BOOLEAN, Refuse(i, hinted) PROVE HintsOK'
    BY <1>3, <1>a DEF Refuse, watcher, manager
  <1>b. ASSUME NEW r \in Wanted, BeginRead(r) PROVE HintsOK'
    BY <1>4, <1>b DEF BeginRead, watcher, manager
  <1>c. ASSUME NEW i \in 1..Len(ops), LookUp(i) \/ Pass(i) \/ Execute(i) PROVE HintsOK'
    BY <1>4, <1>c DEF LookUp, Pass, Execute, watcher, manager
  <1>d. ASSUME NEW f \in File, Tag(f) \/ OtherTask(f) \/ \E there \in BOOLEAN : Edit(f, there) PROVE HintsOK'
    BY <1>4, <1>d DEF Tag, OtherTask, Edit, watcher, manager
  <1>e. CASE \/ \E paths \in SUBSET dirty, again \in SUBSET dirty : FlushStart(paths, again)
             \/ Read \/ Push \/ UNCHANGED readVars
    BY <1>4, <1>e DEF FlushStart, Read, Push, readVars, watcher, manager
  <1> QED BY <1>5, <1>6, <1>7, <1>8, <1>9, <1>a, <1>b, <1>c, <1>d, <1>e, Kinds

(* The manifest and the files that have changed.                              *)
LEMMA StoreType ==
  ASSUME ReadIInv, ReadThroughBounds, [ReadNext]_readVars
  PROVE  store' \in [File -> Content]
  <1>1. store \in [File -> Content] /\ disk \in [File -> Content] /\ clock \in Nat
    BY DEF ReadIInv, ReadTypeOK
  <1>2. ASSUME ApplyDelta PROVE store' \in [File -> Content]
    <2>1. store' = Stored(store, Fresh(batch)) /\ Fresh(batch) \subseteq batch
      BY <1>2 DEF ApplyDelta, Fresh
    <2>2. OnePerFile(Fresh(batch)) /\ \A c \in Fresh(batch) : c.what \in Content
      BY <2>1, ChangeIs DEF ReadIInv, ChangesOK, OnePerFile
    <2>3. \A f \in File : store'[f] \in Content
      BY <1>1, <2>1, <2>2, StoredIs
    <2> QED BY <2>1, <2>3 DEF Stored
  <1>3. ASSUME NEW f \in File, OtherTask(f) PROVE store' \in [File -> Content]
    <2>1. PICK older : /\ older \in {0} \cup {ops[i].made : i \in {j \in 1..Len(ops) : f \in Targets(j)}}
                       /\ store' = [store EXCEPT ![f] = [made |-> older, there |-> TRUE]]
      BY <1>3 DEF OtherTask
    <2>2. \A i \in 1..Len(ops) : ops[i].made \in Nat
      BY OpsAre DEF Operations
    <2>3. older \in Nat
      BY <2>1, <2>2
    <2>4. [made |-> older, there |-> TRUE] \in Content
      BY <2>3 DEF Content
    <2> QED BY <1>1, <2>1, <2>4
  <1>4. CASE UNCHANGED store
    BY <1>1, <1>4
  <1>5. ASSUME NEW i \in 1..Len(ops), LookUp(i) \/ Pass(i) \/ Hint(i) \/ Execute(i)
                                      \/ \E hinted \in BOOLEAN : Refuse(i, hinted)
        PROVE  UNCHANGED store
    BY <1>5 DEF LookUp, Pass, Hint, Execute, Refuse, manager
  <1>6. ASSUME NEW f \in File, \/ Tag(f) \/ Unsuppress(f) \/ BypassExpires(f)
                               \/ \E there \in BOOLEAN : Edit(f, there)
        PROVE  UNCHANGED store
    BY <1>6 DEF Tag, Unsuppress, BypassExpires, Edit, manager
  <1> QED BY <1>2, <1>3, <1>4, <1>5, <1>6, Kinds
          DEF BeginRead, BeginChange, FlushStart, Read, Push, readVars, manager

(* The watcher and the queue.                                                 *)
LEMMA WatcherType ==
  ASSUME ReadIInv, ReadThroughBounds, [ReadNext]_readVars
  PROVE  /\ dirty' \subseteq File /\ localIndex' \subseteq File
         /\ flush' \in [all: SUBSET File, todo: SUBSET File, at: File \cup {None},
                        tag: 0..Len(ops'), found: SUBSET Change]
         /\ flush'.todo \subseteq flush'.all /\ flush'.at \in flush'.todo \cup {None}
         /\ live' \subseteq Change /\ batch' \subseteq Change
  <1> DEFINE Flushes(n) == [all: SUBSET File, todo: SUBSET File, at: File \cup {None},
                            tag: 0..n, found: SUBSET Change]
             G == /\ dirty' \subseteq File /\ localIndex' \subseteq File
                  /\ flush' \in Flushes(Len(ops'))
                  /\ flush'.todo \subseteq flush'.all /\ flush'.at \in flush'.todo \cup {None}
                  /\ live' \subseteq Change /\ batch' \subseteq Change
  <1>1. /\ dirty \subseteq File /\ localIndex \subseteq File /\ flush \in Flushes(Len(ops))
        /\ flush.todo \subseteq flush.all /\ flush.at \in flush.todo \cup {None}
        /\ live \subseteq Change /\ batch \subseteq Change
        /\ suppressed \in [File -> 0..Len(ops)]
    BY DEF ReadIInv, ReadTypeOK
  <1>2. PICK n : n = Len(ops') /\ Len(ops) \in Nat /\ n \in Nat /\ Len(ops) <= n
    <2>1. Len(ops) \in Nat
      BY OpsAre
    <2> QED BY <2>1, Stays DEF OpsStay
  <1>3. \A x \in Flushes(Len(ops)) : x \in Flushes(n)
    BY <1>2
  <1>4. CASE UNCHANGED <<dirty, watcher, queue>>
    BY <1>1, <1>2, <1>3, <1>4 DEF watcher, queue
  <1>5. ASSUME NEW paths \in SUBSET dirty, NEW again \in SUBSET dirty, FlushStart(paths, again) PROVE G
    <2>1. /\ flush' = [Idle EXCEPT !.all = paths, !.todo = paths]
          /\ dirty' = (dirty \ paths) \cup again /\ UNCHANGED <<localIndex, live, batch>>
      BY <1>5 DEF FlushStart, queue
    <2>2. flush' = [all |-> paths, todo |-> paths, at |-> None, tag |-> NoId, found |-> {}]
      <3>1. PICK z : z = [Idle EXCEPT !.all = paths] /\ flush' = [z EXCEPT !.todo = paths]
        BY <2>1
      <3> QED BY <3>1 DEF Idle
    <2>3. NoId \in 0..n /\ paths \in SUBSET File
      BY <1>1, <1>2 DEF NoId
    <2>4. flush' \in Flushes(n)
      BY <2>2, <2>3
    <2>5. flush'.todo \subseteq flush'.all /\ flush'.at \in flush'.todo \cup {None}
      BY <2>2
    <2> QED BY <1>1, <1>2, <2>1, <2>4, <2>5
  <1>6. ASSUME NEW f \in File, Tag(f) PROVE G
    <2>1. /\ flush' = [flush EXCEPT !.at = f, !.tag = suppressed[f]] /\ f \in flush.todo
          /\ UNCHANGED <<dirty, localIndex, live, batch, ops>>
      BY <1>6 DEF Tag, queue
    <2>2. flush' = [all |-> flush.all, todo |-> flush.todo, at |-> f, tag |-> suppressed[f],
                    found |-> flush.found]
      <3>1. PICK z : z = [flush EXCEPT !.at = f] /\ flush' = [z EXCEPT !.tag = suppressed[f]]
        BY <2>1
      <3>2. z = [all |-> flush.all, todo |-> flush.todo, at |-> f, tag |-> flush.tag, found |-> flush.found]
        BY <1>1, <3>1
      <3> QED BY <3>1, <3>2
    <2>3. suppressed[f] \in 0..Len(ops) /\ flush.all \in SUBSET File /\ flush.todo \in SUBSET File
          /\ flush.found \in SUBSET Change /\ Len(ops') = Len(ops)
      BY <1>1, <2>1
    <2>4. flush' \in Flushes(Len(ops'))
      BY <2>2, <2>3
    <2>5. flush'.todo \subseteq flush'.all /\ flush'.at \in flush'.todo \cup {None}
      BY <1>1, <2>1, <2>2
    <2> QED BY <1>1, <2>1, <2>4, <2>5
  <1>7. ASSUME Read PROVE G
    <2>1. /\ localIndex' \subseteq File /\ ReadFound \subseteq Change /\ UNCHANGED <<dirty, batch, ops>>
          /\ flush.all \in SUBSET File /\ ReadTodo \in SUBSET File /\ ReadTodo \subseteq flush.all
      BY <1>1, <1>7, ReadIs, FlushIs DEF ReadTodo
    <2>2. live' \subseteq Change
      BY <1>1, <1>7, <2>1, ReadIs, MergedIs
    <2>3. NoId \in 0..Len(ops')
      BY <1>2 DEF NoId
    <2>4. CASE ReadTodo = {}
      <3>1. flush' = Idle
        BY <1>7, <2>4, ReadIs
      <3> QED BY <1>1, <2>1, <2>2, <2>3, <3>1 DEF Idle
    <2>5. CASE ReadTodo # {}
      <3>1. flush' = [all |-> flush.all, todo |-> ReadTodo, at |-> None, tag |-> NoId, found |-> ReadFound]
        BY <1>7, <2>5, ReadIs
      <3> QED BY <1>1, <2>1, <2>2, <2>3, <3>1
    <2> QED BY <2>4, <2>5
  <1>8. ASSUME Push PROVE G
    BY <1>1, <1>8 DEF Push, watcher
  <1>9. ASSUME ApplyDelta PROVE G
    BY <1>1, <1>9 DEF ApplyDelta, watcher
  <1>a. ASSUME NEW i \in 1..Len(ops), Execute(i) PROVE G
    <2>1. Targets(i) \subseteq File
      BY OpsAre
    <2>2. UNCHANGED <<localIndex, flush, live, batch>>
      BY <1>a DEF Execute, queue
    <2>3. dirty' \subseteq dirty \cup Targets(i)
      BY <1>a DEF Execute
    <2> QED BY <1>1, <1>2, <1>3, <2>1, <2>2, <2>3
  <1>b. ASSUME NEW f \in File, NEW there \in BOOLEAN, Edit(f, there) PROVE G
    BY <1>1, <1>2, <1>3, <1>b DEF Edit, queue
  <1>c. ASSUME NEW i \in 1..Len(ops), Hint(i) PROVE G
    BY <1>1, <1>2, <1>3, <1>c DEF Hint, queue
  <1>d. ASSUME NEW f \in File, Unsuppress(f) PROVE G
    BY <1>1, <1>2, <1>3, <1>d DEF Unsuppress, queue
  <1>e. ASSUME NEW i \in 1..Len(ops), LookUp(i) \/ Pass(i) \/ \E hinted \in BOOLEAN : Refuse(i, hinted)
        PROVE  G
    <2>1. UNCHANGED <<dirty, watcher, queue>>
      BY <1>e DEF LookUp, Pass, Refuse, watcher, queue
    <2> QED BY <1>4, <2>1
  <1>f. ASSUME NEW f \in File, BypassExpires(f) \/ OtherTask(f) PROVE G
    <2>1. UNCHANGED <<dirty, watcher, queue>>
      BY <1>f DEF BypassExpires, OtherTask, watcher, queue
    <2> QED BY <1>4, <2>1
  <1>g. ASSUME NEW r \in Wanted, BeginRead(r) \/ BeginChange(r) PROVE G
    <2>1. UNCHANGED <<dirty, watcher, queue>>
      BY <1>g DEF BeginRead, BeginChange, watcher, queue
    <2> QED BY <1>4, <2>1
  <1>h. CASE UNCHANGED readVars
    <2>1. UNCHANGED <<dirty, watcher, queue>>
      BY <1>h DEF readVars, watcher, queue
    <2> QED BY <1>4, <2>1
  <1> QED
    <2>1. CASE \E i \in 1..Len(ops) : LookUp(i) \/ Pass(i) \/ Hint(i) \/ Execute(i)
                                      \/ \E hinted \in BOOLEAN : Refuse(i, hinted)
      <3>1. G
        BY <2>1, <1>a, <1>c, <1>e
      <3> QED BY <3>1
    <2>2. CASE \E f \in File : Tag(f) \/ Unsuppress(f) \/ BypassExpires(f) \/ OtherTask(f)
                               \/ \E there \in BOOLEAN : Edit(f, there)
      <3>1. G
        BY <2>2, <1>6, <1>b, <1>d, <1>f
      <3> QED BY <3>1
    <2>3. CASE \E paths \in SUBSET dirty, again \in SUBSET dirty : FlushStart(paths, again)
      <3>1. G
        BY <2>3, <1>5
      <3> QED BY <3>1
    <2>4. CASE (\E r \in Wanted : BeginRead(r)) \/ (\E r \in Wanted : BeginChange(r))
      <3>1. G
        BY <2>4, <1>g
      <3> QED BY <3>1
    <2>5. CASE Read \/ Push \/ ApplyDelta \/ UNCHANGED readVars
      <3>1. G
        BY <2>5, <1>7, <1>8, <1>9, <1>h
      <3> QED BY <3>1
    <2> QED BY <2>1, <2>2, <2>3, <2>4, <2>5, Kinds

(* The ids of the watcher and of the manager.                                 *)
LEMMA IdsType ==
  ASSUME ReadIInv, ReadThroughBounds, [ReadNext]_readVars
  PROVE  /\ suppressed' \in [File -> 0..Len(ops')] /\ bypass' \in [File -> 0..Len(ops')]
         /\ recent' \in Seq(Op) /\ Len(recent') <= RECENT_MUTATION_ID_CAP
         /\ \A k, l \in 1..Len(recent') : recent'[k] = recent'[l] => k = l
  <1> DEFINE Known(s) == /\ s \in Seq(Op) /\ Len(s) <= RECENT_MUTATION_ID_CAP
                         /\ \A k, l \in 1..Len(s) : s[k] = s[l] => k = l
             G == /\ suppressed' \in [File -> 0..Len(ops')] /\ bypass' \in [File -> 0..Len(ops')]
                  /\ Known(recent')
  <1>1. suppressed \in [File -> 0..Len(ops)] /\ bypass \in [File -> 0..Len(ops)] /\ Known(recent)
    BY DEF ReadIInv, ReadTypeOK
  <1>2. PICK n : n = Len(ops') /\ Len(ops) \in Nat /\ n \in Nat /\ Len(ops) <= n
    <2>1. Len(ops) \in Nat
      BY OpsAre
    <2> QED BY <2>1, Stays DEF OpsStay
  <1>3. suppressed \in [File -> 0..n] /\ bypass \in [File -> 0..n]
    BY <1>1, <1>2
  <1>4. NoId \in 0..n
    BY <1>2 DEF NoId
  <1>5. CASE UNCHANGED <<suppressed, bypass, recent>>
    BY <1>1, <1>2, <1>3, <1>5
  <1>6. ASSUME NEW r \in Wanted, BeginChange(r) PROVE G
    <2>1. Len(ops') = Len(ops) + 1
      BY <1>6, BeginIs
    <2>2. /\ bypass' = [f \in File |-> IF f \in {r.from, r.to} THEN Len(ops) + 1 ELSE bypass[f]]
          /\ UNCHANGED <<suppressed, recent>>
      BY <1>6 DEF BeginChange, watcher
    <2>3. Len(ops) + 1 \in 0..n /\ \A f \in File : bypass[f] \in 0..n
      BY <1>2, <1>3, <2>1
    <2> QED BY <1>1, <1>2, <1>3, <2>2, <2>3
  <1>7. ASSUME NEW i \in 1..Len(ops), Hint(i) PROVE G
    BY <1>1, <1>2, <1>3, <1>7 DEF Hint, manager
  <1>8. ASSUME NEW f \in File, Unsuppress(f) PROVE G
    BY <1>1, <1>2, <1>3, <1>4, <1>8 DEF Unsuppress, manager
  <1>9. ASSUME NEW f \in File, BypassExpires(f) PROVE G
    BY <1>1, <1>2, <1>3, <1>4, <1>9 DEF BypassExpires, watcher
  <1>a. ASSUME ApplyDelta PROVE G
    <2> DEFINE ids == {c.tag : c \in Fresh(batch)} \ {NoId}
    <2>1. PICK order \in SetToSeqs(ids) : recent' = Remembered(recent, order)
      BY <1>a DEF ApplyDelta
    <2>2. ids \in SUBSET Op /\ \A t \in ids : t \notin Range(recent)
      BY ChangeIs DEF Fresh
    <2> HIDE DEF ids
    <2>3. order \in Seq(ids) /\ \A k, l \in 1..Len(order) : order[k] = order[l] => k = l
      BY <2>1, <2>2, OrderOf
    <2>4. order \in Seq(Op) /\ \A l \in 1..Len(order) : order[l] \in ids
      BY <2>2, <2>3
    <2>5. \A k \in 1..Len(recent), l \in 1..Len(order) : recent[k] # order[l]
      <3>1. \A k \in 1..Len(recent) : recent[k] \in Range(recent)
        BY <1>1 DEF Range
      <3> QED BY <2>2, <2>4, <3>1
    <2>6. Known(recent')
      BY <1>1, <2>1, <2>3, <2>4, <2>5, RememberedIs
    <2>7. bypass' = Cleared(bypass, Fresh(batch)) /\ suppressed' = suppressed
      BY <1>a DEF ApplyDelta, watcher
    <2>8. bypass' \in [File -> 0..n]
      BY <1>3, <1>4, <2>7 DEF Cleared
    <2> QED BY <1>2, <1>3, <2>6, <2>7, <2>8
  <1>b. ASSUME NEW i \in 1..Len(ops), LookUp(i) \/ Pass(i) \/ Execute(i)
                                      \/ \E hinted \in BOOLEAN : Refuse(i, hinted)
        PROVE  UNCHANGED <<suppressed, bypass, recent>>
    BY <1>b DEF LookUp, Pass, Execute, Refuse, watcher, manager
  <1>c. ASSUME NEW f \in File, Tag(f) \/ OtherTask(f) \/ \E there \in BOOLEAN : Edit(f, there)
        PROVE  UNCHANGED <<suppressed, bypass, recent>>
    BY <1>c DEF Tag, OtherTask, Edit, watcher, manager
  <1>d. CASE \/ \E r \in Wanted : BeginRead(r)
             \/ \E paths \in SUBSET dirty, again \in SUBSET dirty : FlushStart(paths, again)
             \/ Read \/ Push \/ UNCHANGED readVars
    BY <1>5, <1>d DEF BeginRead, FlushStart, Read, Push, readVars, watcher, manager
  <1> QED
    <2>1. G
      BY <1>5, <1>6, <1>7, <1>8, <1>9, <1>a, <1>b, <1>c, <1>d, Kinds
    <2> QED BY <2>1

LEMMA NotesType ==
  ASSUME ReadIInv, ReadThroughBounds, [ReadNext]_readVars
  PROVE  own' = own /\ mishap' \subseteq Mishap /\ trouble' \in 0..MaxTrouble
  <1>1. mishap \subseteq Mishap /\ trouble \in 0..MaxTrouble /\ MaxTrouble \in Nat
    BY DEF ReadIInv, ReadTypeOK, ReadThroughBounds
  <1>2. Trouble => trouble + 1 \in 0..MaxTrouble
    BY <1>1 DEF Trouble
  <1>3. ASSUME NEW r \in Wanted, BeginRead(r) \/ BeginChange(r)
        PROVE  own' = own /\ mishap' \subseteq Mishap /\ trouble' \in 0..MaxTrouble
    BY <1>1, <1>3 DEF BeginRead, BeginChange
  <1>4. ASSUME NEW i \in 1..Len(ops), LookUp(i) \/ Pass(i) \/ Hint(i) \/ Execute(i)
                                      \/ \E hinted \in BOOLEAN : Refuse(i, hinted)
        PROVE  own' = own /\ mishap' \subseteq Mishap /\ trouble' \in 0..MaxTrouble
    BY <1>1, <1>2, <1>4 DEF LookUp, Pass, Hint, Execute, Refuse
  <1>5. ASSUME NEW paths \in SUBSET dirty, NEW again \in SUBSET dirty, FlushStart(paths, again)
        PROVE  own' = own /\ mishap' \subseteq Mishap /\ trouble' \in 0..MaxTrouble
    BY <1>1, <1>2, <1>5 DEF FlushStart
  <1>6. ASSUME NEW f \in File, Tag(f) \/ BypassExpires(f) \/ OtherTask(f)
                               \/ \E there \in BOOLEAN : Edit(f, there)
        PROVE  own' = own /\ mishap' \subseteq Mishap /\ trouble' \in 0..MaxTrouble
    BY <1>1, <1>2, <1>6 DEF Tag, BypassExpires, OtherTask, Edit, Note, Mishap
  <1>7. ASSUME NEW f \in File, Unsuppress(f)
        PROVE  own' = own /\ mishap' \subseteq Mishap /\ trouble' \in 0..MaxTrouble
    BY <1>1, <1>2, <1>7 DEF Unsuppress
  <1>8. CASE Read
    BY <1>1, <1>8 DEF Read, Note, Mishap
  <1>9. CASE Push \/ ApplyDelta \/ UNCHANGED readVars
    BY <1>1, <1>9 DEF Push, ApplyDelta, readVars
  <1> QED BY <1>3, <1>4, <1>5, <1>6, <1>7, <1>8, <1>9, Kinds

LEMMA InvStep ==
  ASSUME ReadIInv, ReadThroughBounds, [ReadNext]_readVars
  PROVE  ReadIInv'
  <1>1. NoneAhead' /\ OpsOK' /\ ChangesOK' /\ HintsOK'
    BY NoneAheadStep, OpsOKStep, ChangesStep, HintsStep
  <1>2. /\ clock' \in Nat /\ Len(ops') <= MaxOps
        /\ ops' \in Seq([req: Wanted, at: {"looks", "misses", "asks", "over"},
                         made: 0..clock', since: 0..clock'])
    <2>1. OpsStay /\ MaxOps \in Nat
      BY Stays DEF ReadThroughBounds
    <2> QED BY <2>1 DEF OpsStay, Operations
  <1>3. hints' \subseteq 1..Len(ops')
    BY <1>1 DEF HintsOK, Writes
  <1>4. \A c, d \in live' : c.on = d.on => c = d
    BY <1>1 DEF ChangesOK, OnePerFile
  <1>5. own' \in BOOLEAN /\ mishap' \subseteq Mishap /\ trouble' \in 0..MaxTrouble
    BY NotesType DEF ReadIInv, ReadTypeOK
  <1>6. disk' \in [File -> Content] /\ store' \in [File -> Content]
    BY DiskGrows, StoreType
  <1>7. ReadTypeOK'
    BY <1>2, <1>3, <1>4, <1>5, <1>6, WatcherType, IdsType DEF ReadTypeOK
  <1> QED BY <1>1, <1>7 DEF ReadIInv

LEMMA InvInit ==
  ASSUME ReadThroughBounds, ReadInit
  PROVE  ReadIInv
  <1>1. PICK files \in Start : disk = [f \in File |-> [made |-> 0, there |-> f \in files]]
    BY DEF ReadInit
  <1>2. \A f \in File : disk[f] \in Content /\ disk[f].made = 0
    BY <1>1 DEF Content
  <1>3. /\ disk \in [File -> Content] /\ store = disk /\ clock = 0 /\ dirty = {}
        /\ suppressed = [f \in File |-> NoId] /\ localIndex \subseteq File
        /\ flush = Idle /\ live = {} /\ batch = {} /\ hints = {} /\ bypass = [f \in File |-> NoId]
        /\ recent = <<>> /\ ops = <<>> /\ own \in BOOLEAN /\ mishap = {} /\ trouble = 0
    BY <1>1, <1>2 DEF ReadInit
  <1>4. Len(ops) = 0 /\ 1..Len(ops) = {} /\ NoId \in 0..Len(ops) /\ MaxOps \in Nat /\ MaxTrouble \in Nat
        /\ RECENT_MUTATION_ID_CAP \in Nat
    BY <1>3 DEF NoId, ReadThroughBounds
  <1>5. /\ flush = [all |-> {}, todo |-> {}, at |-> None, tag |-> NoId, found |-> {}]
    BY <1>3 DEF Idle
  <1>6. flush \in [all: SUBSET File, todo: SUBSET File, at: File \cup {None},
                   tag: 0..Len(ops), found: SUBSET Change]
    BY <1>4, <1>5
  <1>7. recent \in Seq(Op) /\ Len(recent) <= RECENT_MUTATION_ID_CAP /\ 1..Len(recent) = {}
    BY <1>3, <1>4
  <1>8. ops \in Seq([req: Wanted, at: {"looks", "misses", "asks", "over"}, made: 0..clock, since: 0..clock])
    BY <1>3
  <1>9. ReadTypeOK
    BY <1>3, <1>4, <1>5, <1>6, <1>7, <1>8 DEF ReadTypeOK
  <1>a. NoneAhead /\ ChangesOK
    BY <1>2, <1>3, <1>5 DEF NoneAhead, ChangesOK, OnePerFile
  <1>b. OpsOK
    BY <1>4 DEF OpsOK
  <1>c. HintsOK
    BY <1>3 DEF HintsOK
  <1> QED BY <1>9, <1>a, <1>b, <1>c DEF ReadIInv

(* Every variable of the read path has a value of its kind: at most one       *)
(* change of a file waits in the queue, and the manager remembers no id of a  *)
(* change twice and no more of them than its cap.                             *)
THEOREM ReadTypeCorrect == ReadSpec => []ReadTypeOK
  <1>1. ReadInit => ReadIInv
    BY ReadThroughBounds, InvInit
  <1>2. ReadIInv /\ [ReadNext]_readVars => ReadIInv'
    BY ReadThroughBounds, InvStep
  <1>3. ReadIInv => ReadTypeOK
    BY DEF ReadIInv
  <1> QED BY <1>1, <1>2, <1>3, PTL DEF ReadSpec

-----------------------------------------------------------------------------
(* Whose change a tag names, as long as nobody but the sessions writes and    *)
(* the hints are neither late nor early.                                      *)

(* A change of the file has been made.                                        *)
Made(f) == \E i \in 1..Len(ops) : f \in Targets(i) /\ Writes(i) /\ ops[i].made > 0

(* A tag is the id of a change of the file that is over.                      *)
IsTag(f, t) == Writes(t) /\ ops[t].at = "over" /\ f \in Targets(t)

Tagged ==
    /\ \A f \in dirty \cup flush.todo : Made(f)
    /\ flush.at # None => IsTag(flush.at, flush.tag)
    /\ \A c \in batch \cup live \cup flush.found : IsTag(c.on, c.tag)
    /\ \A t \in Range(recent) : Writes(t) /\ ops[t].at = "over"

Harmless == mishap \cap {"user", "late tag", "early tag", "other task"} = {}

TagInv == Harmless => Tagged

LEMMA MishapsStay ==
  ASSUME [ReadNext]_readVars
  PROVE  mishap \subseteq mishap'
  <1>1. ASSUME NEW i \in 1..Len(ops), LookUp(i) \/ Pass(i) \/ Hint(i) \/ Execute(i)
                                      \/ \E hinted \in BOOLEAN : Refuse(i, hinted)
        PROVE  mishap \subseteq mishap'
    BY <1>1 DEF LookUp, Pass, Hint, Execute, Refuse
  <1>2. ASSUME NEW f \in File, Tag(f) \/ Unsuppress(f) \/ BypassExpires(f) \/ OtherTask(f)
                               \/ \E there \in BOOLEAN : Edit(f, there)
        PROVE  mishap \subseteq mishap'
    BY <1>2 DEF Tag, Unsuppress, BypassExpires, OtherTask, Edit
  <1>3. ASSUME NEW r \in Wanted, BeginRead(r) \/ BeginChange(r) PROVE mishap \subseteq mishap'
    BY <1>3 DEF BeginRead, BeginChange
  <1>4. ASSUME NEW paths \in SUBSET dirty, NEW again \in SUBSET dirty, FlushStart(paths, again)
        PROVE  mishap \subseteq mishap'
    BY <1>4 DEF FlushStart
  <1>5. CASE Read \/ Push \/ ApplyDelta \/ UNCHANGED readVars
    BY <1>5 DEF Read, Push, ApplyDelta, readVars
  <1> QED BY <1>1, <1>2, <1>3, <1>4, <1>5, Kinds

LEMMA TagsStay ==
  ASSUME ReadIInv, ReadThroughBounds, [ReadNext]_readVars
  PROVE  /\ \A f : Made(f) => Made(f)'
         /\ \A f, t : IsTag(f, t) => IsTag(f, t)'
         /\ \A t : Writes(t) /\ ops[t].at = "over" => Writes(t)' /\ ops'[t].at = "over"
  <1>1. OpsStay
    BY Stays
  <1>2. \A i \in 1..Len(ops) : ops[i].made > 0 => ops[i].at = "over"
    <2>1. \A i \in 1..Len(ops) : ops[i].at # "over" => ops[i].made = 0
      BY DEF ReadIInv, OpsOK
    <2> QED BY <2>1
  <1>3. \A t : Writes(t) => t \in 1..Len(ops) /\ Writes(t)' /\ Targets(t)' = Targets(t)
                            /\ (ops[t].at = "over" => ops'[t].at = "over")
    BY <1>1 DEF OpsStay, Writes
  <1>4. \A f, t : IsTag(f, t) => IsTag(f, t)'
    BY <1>3 DEF IsTag
  <1>5. ASSUME NEW f, Made(f) PROVE Made(f)'
    <2>1. PICK i \in 1..Len(ops) : f \in Targets(i) /\ Writes(i) /\ ops[i].made > 0
      BY <1>5 DEF Made
    <2>2. i \in 1..Len(ops') /\ Targets(i)' = Targets(i) /\ Writes(i)' /\ ops'[i].made = ops[i].made
      BY <1>1, <1>2, <2>1 DEF OpsStay
    <2> QED BY <2>1, <2>2 DEF Made
  <1> QED BY <1>3, <1>4, <1>5

LEMMA TagIs ==
  ASSUME NEW f, NEW t, IsTag(f, t)
  PROVE  t \in 1..Len(ops) /\ t # NoId /\ ~IsRead(ops[t].req) /\ ops[t].at = "over" /\ f \in Targets(t)
  BY DEF IsTag, Writes, NoId

(* What has become of a tag when the delta is stored.                         *)
LEMMA RecentIs ==
  ASSUME ReadIInv, ReadThroughBounds, ApplyDelta
  PROVE  Range(recent') \subseteq Range(recent) \cup {c.tag : c \in batch}
  <1> DEFINE ids == {c.tag : c \in Fresh(batch)} \ {NoId}
  <1>1. PICK order \in SetToSeqs(ids) : recent' = Remembered(recent, order)
    BY DEF ApplyDelta
  <1>2. ids \in SUBSET Op /\ \A t \in ids : t \notin Range(recent) /\ t \in {c.tag : c \in batch}
    BY ChangeIs DEF Fresh
  <1> HIDE DEF ids
  <1>3. order \in Seq(ids) /\ \A k, l \in 1..Len(order) : order[k] = order[l] => k = l
    BY <1>1, <1>2, OrderOf
  <1>4. order \in Seq(Op) /\ \A l \in 1..Len(order) : order[l] \in ids
    BY <1>2, <1>3
  <1>5. recent \in Seq(Op) /\ \A k, l \in 1..Len(recent) : recent[k] = recent[l] => k = l
    BY DEF ReadIInv, ReadTypeOK
  <1>6. \A k \in 1..Len(recent), l \in 1..Len(order) : recent[k] # order[l]
    <2>1. \A k \in 1..Len(recent) : recent[k] \in Range(recent)
      BY <1>5 DEF Range
    <2> QED BY <1>2, <1>4, <2>1
  <1>7. Range(recent') \subseteq Range(recent) \cup Range(order)
    BY <1>1, <1>3, <1>4, <1>5, <1>6, RememberedIs
  <1>8. Range(order) \subseteq {c.tag : c \in batch}
    BY <1>2, <1>4 DEF Range
  <1> QED BY <1>7, <1>8

LEMMA TaggedStep ==
  ASSUME ReadIInv, ReadThroughBounds, [ReadNext]_readVars, TagInv, Harmless'
  PROVE  Tagged'
  <1>0. Harmless /\ Tagged
    BY MishapsStay DEF Harmless, TagInv
  <1>1. /\ \A f : Made(f) => Made(f)'
        /\ \A f, t : IsTag(f, t) => IsTag(f, t)'
        /\ \A t : Writes(t) /\ ops[t].at = "over" => Writes(t)' /\ ops'[t].at = "over"
    BY TagsStay
  <1> DEFINE A == \A f \in dirty' \cup flush'.todo : Made(f)'
             B == flush'.at # None => \E f, t : f = flush'.at /\ t = flush'.tag /\ IsTag(f, t)'
             C == \A c \in batch' \cup live' \cup flush'.found :
                     \E f, t : f = c.on /\ t = c.tag /\ IsTag(f, t)'
             D == \A t \in Range(recent') : Writes(t)' /\ ops'[t].at = "over"
  <1>2. A /\ B /\ C /\ D => Tagged'
    BY DEF Tagged, Made, IsTag, Writes, Targets
  <1>3. dirty' \cup flush'.todo \subseteq dirty \cup flush.todo => A
    BY <1>0, <1>1 DEF Tagged
  <1>4. UNCHANGED <<flush>> => B
    BY <1>0, <1>1 DEF Tagged
  <1>5. batch' \cup live' \cup flush'.found \subseteq batch \cup live \cup flush.found => C
    BY <1>0, <1>1 DEF Tagged
  <1>6. UNCHANGED recent => D
    BY <1>0, <1>1 DEF Tagged
  <1> HIDE DEF A, B, C, D
  <1>7. UNCHANGED <<dirty, flush, batch, live, recent>> => Tagged'
    BY <1>2, <1>3, <1>4, <1>5, <1>6
  <1>8. ASSUME NEW r \in Wanted, BeginRead(r) \/ BeginChange(r) PROVE Tagged'
    BY <1>7, <1>8 DEF BeginRead, BeginChange, watcher, queue, manager
  <1>9. ASSUME NEW i \in 1..Len(ops), Execute(i) PROVE Tagged'
    <2>1. UNCHANGED <<flush, batch, live, recent>>
      BY <1>9 DEF Execute, queue, manager
    <2>2. CASE UNCHANGED dirty
      BY <1>7, <2>1, <2>2
    <2>3. CASE ~UNCHANGED dirty
      <3>1. /\ ~IsRead(ops[i].req) /\ dirty' = dirty \cup Targets(i) /\ Moves(i, clock + 1)
        BY <1>9, <2>3, MovesAre
      <3>2. OpsStay /\ clock \in Nat
        BY Stays, OpsAre
      <3>3. Writes(i)' /\ Targets(i)' = Targets(i) /\ ops'[i].made > 0 /\ i \in 1..Len(ops')
        BY <3>1, <3>2 DEF Moves, OpsStay, Writes
      <3>4. \A f \in Targets(i) : Made(f)'
        BY <3>3 DEF Made
      <3>5. A
        BY <1>0, <1>1, <2>1, <3>1, <3>4 DEF A, Tagged
      <3> QED BY <1>2, <1>4, <1>5, <1>6, <2>1, <3>5
    <2> QED BY <2>2, <2>3
  <1>a. ASSUME NEW i \in 1..Len(ops), LookUp(i) \/ Pass(i) \/ Hint(i)
                                      \/ \E hinted \in BOOLEAN : Refuse(i, hinted)
        PROVE  Tagged'
    <2>1. UNCHANGED <<dirty, flush, batch, live, recent>>
      BY <1>a DEF LookUp, Pass, Hint, Refuse, watcher, queue, manager
    <2> QED BY <1>7, <2>1
  <1>b. ASSUME NEW paths \in SUBSET dirty, NEW again \in SUBSET dirty, FlushStart(paths, again)
        PROVE  Tagged'
    <2>1. /\ flush' = [Idle EXCEPT !.all = paths, !.todo = paths]
          /\ dirty' = (dirty \ paths) \cup again /\ UNCHANGED <<live, batch, recent>>
      BY <1>b DEF FlushStart, queue, manager
    <2>2. flush'.todo = paths /\ flush'.at = None /\ flush'.found = {}
      BY <2>1 DEF Idle
    <2>3. A /\ C
      BY <1>3, <1>5, <2>1, <2>2
    <2>4. B
      BY <2>2 DEF B
    <2> QED BY <1>2, <1>6, <2>1, <2>3, <2>4
  <1>c. ASSUME NEW f \in File, Tag(f) PROVE Tagged'
    <2> DEFINE id == suppressed[f]
    <2>1. /\ f \in flush.todo /\ flush' = [flush EXCEPT !.at = f, !.tag = id]
          /\ Outdated(f, id) => "late tag" \in mishap'
          /\ id # NoId /\ ops[id].at = "asks" => "early tag" \in mishap'
          /\ UNCHANGED <<dirty, live, batch, recent, ops>>
      BY <1>c DEF Tag, Note, queue, manager
    <2>2. flush'.todo = flush.todo /\ flush'.at = f /\ flush'.tag = id /\ flush'.found = flush.found
      BY <2>1 DEF ReadIInv, ReadTypeOK
    <2>3. ~Outdated(f, id) /\ (id # NoId => ops[id].at # "asks")
      BY <2>1 DEF Harmless
    <2>4. id # NoId
      <3>1. PICK i \in 1..Len(ops) : f \in Targets(i) /\ Writes(i) /\ ops[i].made > 0
        BY <1>0, <2>1 DEF Tagged, Made
      <3>2. Outdated(f, NoId)
        BY <3>1 DEF Outdated, Writes, NoId
      <3> QED BY <2>3, <3>2
    <2>5. Writes(id) /\ f \in Targets(id)
      BY <2>4 DEF ReadIInv, HintsOK
    <2>6. ops[id].at = "over"
      BY <2>3, <2>4, <2>5 DEF ReadIInv, OpsOK, Writes
    <2> HIDE DEF id
    <2>7. IsTag(f, id)
      BY <2>5, <2>6 DEF IsTag
    <2>8. PICK t : t = id
      OBVIOUS
    <2>9. IsTag(f, t)'
      BY <1>1, <2>7, <2>8
    <2>a. B
      BY <2>2, <2>8, <2>9 DEF B
    <2>b. A /\ C
      BY <1>3, <1>5, <2>1, <2>2
    <2> QED BY <1>2, <1>6, <2>1, <2>a, <2>b
  <1>d. ASSUME Read PROVE Tagged'
    <2>1. UNCHANGED <<dirty, batch, recent>> /\ flush.at \in flush.todo /\ flush.at # None
      BY <1>d, ReadIs DEF manager, Read
    <2>2. IsTag(flush.at, flush.tag)
      BY <1>0, <2>1 DEF Tagged
    <2>3. PICK f, t : f = flush.at /\ t = flush.tag
      OBVIOUS
    <2>4. IsTag(f, t)'
      BY <1>1, <2>2, <2>3
    <2>5. flush'.todo \subseteq flush.todo /\ flush'.at = None /\ flush'.found \subseteq ReadFound
          /\ live' \subseteq live \cup ReadFound
      BY <1>d, ReadIs, FlushIs, MergedIs DEF ReadTodo
    <2>6. ReadChange.on = f /\ ReadChange.tag = t
      BY <2>3 DEF ReadChange
    <2>7. C
      BY <1>0, <1>1, <2>1, <2>4, <2>5, <2>6 DEF C, Tagged, ReadFound
    <2>8. A
      BY <1>3, <2>1, <2>5
    <2>9. B
      BY <2>5 DEF B
    <2> QED BY <1>2, <1>6, <2>1, <2>7, <2>8, <2>9
  <1>e. ASSUME Push PROVE Tagged'
    <2>1. batch' = live /\ live' = {} /\ UNCHANGED <<dirty, flush, recent>>
      BY <1>e DEF Push, watcher, manager
    <2>2. A /\ B /\ C /\ D
      BY <1>3, <1>4, <1>5, <1>6, <2>1
    <2> QED BY <1>2, <2>2
  <1>f. ASSUME ApplyDelta PROVE Tagged'
    <2>1. batch' = {} /\ UNCHANGED <<dirty, flush, live>>
      BY <1>f DEF ApplyDelta, watcher
    <2>2. \A c \in batch : IsTag(c.on, c.tag)
      BY <1>0 DEF Tagged
    <2>3. \A t \in Range(recent') : Writes(t) /\ ops[t].at = "over"
      BY <1>0, <1>f, <2>2, RecentIs DEF Tagged, IsTag
    <2>4. D
      BY <1>1, <2>3 DEF D
    <2>5. A /\ B /\ C
      BY <1>3, <1>4, <1>5, <2>1
    <2> QED BY <1>2, <2>4, <2>5
  <1>g. ASSUME NEW f \in File, Unsuppress(f) \/ BypassExpires(f) PROVE Tagged'
    <2>1. UNCHANGED <<dirty, flush, batch, live, recent>>
      BY <1>g DEF Unsuppress, BypassExpires, watcher, queue, manager
    <2> QED BY <1>7, <2>1
  <1>h. ASSUME NEW f \in File, OtherTask(f) \/ \E there \in BOOLEAN : Edit(f, there) PROVE Tagged'
    <2>1. "other task" \in mishap' \/ "user" \in mishap'
      BY <1>h DEF OtherTask, Edit
    <2> QED BY <2>1 DEF Harmless
  <1>i. CASE UNCHANGED readVars
    BY <1>7, <1>i DEF readVars, watcher, queue, manager
  <1> QED BY <1>8, <1>9, <1>a, <1>b, <1>c, <1>d, <1>e, <1>f, <1>g, <1>h, <1>i, Kinds

LEMMA TagInvStep ==
  ASSUME ReadIInv, ReadThroughBounds, [ReadNext]_readVars, TagInv
  PROVE  TagInv'
  <1>1. Harmless' => Tagged'
    BY TaggedStep
  <1> QED BY <1>1 DEF TagInv

LEMMA TagInvInit ==
  ASSUME ReadInit
  PROVE  TagInv
  <1>1. dirty = {} /\ flush = Idle /\ batch = {} /\ live = {} /\ recent = <<>>
    BY DEF ReadInit
  <1>2. flush.todo = {} /\ flush.at = None /\ flush.found = {} /\ Range(recent) = {}
    BY <1>1 DEF Idle, Range
  <1> QED BY <1>1, <1>2 DEF TagInv, Tagged

-----------------------------------------------------------------------------
(* How far the copy has come and what is bypassed, as long as no bypass ends  *)
(* too early.                                                                 *)

(* What is further back in the queue is newer than what comes before it; what *)
(* is not bypassed has been stored; a change that ends a bypass is the last   *)
(* one made; who reads has not seen more than there is.                       *)
Versions ==
    /\ \A c \in batch \cup live \cup flush.found : store[c.on].made <= c.what.made
    /\ \A c \in batch, d \in live \cup flush.found : c.on = d.on => c.what.made <= d.what.made
    /\ \A c \in live, d \in flush.found : c.on = d.on => c.what.made <= d.what.made

Bypassed ==
    /\ \A f \in File : bypass[f] = NoId => store[f].made = disk[f].made
    /\ \A c \in batch \cup live \cup flush.found : c.tag = bypass[c.on] => c.what.made = disk[c.on].made
    /\ \A i \in 1..Len(ops) : Writes(i) /\ ops[i].at = "asks" => \A f \in Targets(i) : bypass[f] = i

Reading ==
    \A i \in 1..Len(ops) : IsRead(ops[i].req) =>
        LET f == ops[i].req.from
        IN  /\ ops[i].since <= disk[f].made
            /\ ops[i].at = "looks" => ops[i].since <= store[f].made
            /\ ops[i].at = "over" => ops[i].since <= ops[i].made

Unbroken == mishap \subseteq {"split"}

ReadInv == Unbroken => Versions /\ Bypassed /\ Reading

(* What a delta stores of a file that has a change in it.                     *)
LEMMA ApplyIs ==
  ASSUME ReadIInv, ReadThroughBounds, ApplyDelta, NEW f \in File
  PROVE  /\ \A c \in Fresh(batch) : c.on = f => c \in batch /\ store'[f] = c.what
         /\ (\A c \in Fresh(batch) : c.on # f) => store'[f] = store[f]
         /\ bypass'[f] = bypass[f] \/
              /\ bypass'[f] = NoId
              /\ \E c \in Fresh(batch) : c.on = f /\ c.tag \in {NoId, bypass[f]}
         /\ batch' = {} /\ UNCHANGED <<disk, clock, watcher, live, hints, ops, own, mishap, trouble>>
  <1>1. /\ store' = Stored(store, Fresh(batch)) /\ bypass' = Cleared(bypass, Fresh(batch))
        /\ batch' = {} /\ UNCHANGED <<disk, clock, watcher, live, hints, ops, own, mishap, trouble>>
        /\ Fresh(batch) \subseteq batch
    BY DEF ApplyDelta, Fresh
  <1>2. OnePerFile(Fresh(batch))
    BY <1>1 DEF ReadIInv, ChangesOK, OnePerFile
  <1>3. /\ \A c \in Fresh(batch) : c.on = f => store'[f] = c.what
        /\ (\A c \in Fresh(batch) : c.on # f) => store'[f] = store[f]
    BY <1>1, <1>2, StoredIs
  <1>4. bypass'[f] = bypass[f] \/
              /\ bypass'[f] = NoId
              /\ \E c \in Fresh(batch) : c.on = f /\ c.tag \in {NoId, bypass[f]}
    BY <1>1 DEF Cleared
  <1> QED BY <1>1, <1>3, <1>4

LEMMA NumbersAre ==
  ASSUME ReadIInv
  PROVE  /\ \A f \in File : /\ disk[f].made \in Nat /\ store[f].made \in Nat
                            /\ store[f].made <= disk[f].made
         /\ \A c \in batch \cup live \cup flush.found :
               c.on \in File /\ c.what.made \in Nat /\ c.what.made <= disk[c.on].made
  BY FilesAre, ChangeIs DEF ReadIInv, NoneAhead

LEMMA VersionsStep ==
  ASSUME ReadIInv, ReadThroughBounds, [ReadNext]_readVars, Unbroken', Versions
  PROVE  Versions'
  <1>0. /\ \A f \in File : /\ disk[f].made \in Nat /\ store[f].made \in Nat
                           /\ store[f].made <= disk[f].made
        /\ \A c \in batch \cup live \cup flush.found :
               c.on \in File /\ c.what.made \in Nat /\ c.what.made <= disk[c.on].made
    BY NumbersAre
  <1>1. CASE UNCHANGED <<store, batch, live, flush>>
    BY <1>1 DEF Versions
  <1>2. ASSUME NEW r \in Wanted, BeginRead(r) \/ BeginChange(r) PROVE Versions'
    BY <1>1, <1>2 DEF BeginRead, BeginChange, watcher, queue, manager
  <1>3. ASSUME NEW i \in 1..Len(ops), LookUp(i) \/ Pass(i) \/ Hint(i) \/ Execute(i)
                                      \/ \E hinted \in BOOLEAN : Refuse(i, hinted)
        PROVE  Versions'
    <2>1. UNCHANGED <<store, batch, live, flush>>
      BY <1>3 DEF LookUp, Pass, Hint, Execute, Refuse, watcher, queue, manager
    <2> QED BY <1>1, <2>1
  <1>4. ASSUME NEW paths \in SUBSET dirty, NEW again \in SUBSET dirty, FlushStart(paths, again)
        PROVE  Versions'
    <2>1. flush'.found = {} /\ UNCHANGED <<store, live, batch>>
      BY <1>4 DEF FlushStart, queue, manager, Idle
    <2> QED BY <2>1 DEF Versions
  <1>5. ASSUME NEW f \in File, Tag(f) PROVE Versions'
    <2>1. flush'.found = flush.found /\ UNCHANGED <<store, live, batch>>
      BY <1>5 DEF Tag, queue, manager, ReadIInv, ReadTypeOK
    <2> QED BY <2>1 DEF Versions
  <1>6. ASSUME Read PROVE Versions'
    <2>1. UNCHANGED <<store, batch>> /\ flush.at \in File
      BY <1>6, ReadIs DEF manager
    <2>2. ReadChange.on = flush.at /\ ReadChange.what = disk[flush.at]
      BY DEF ReadChange
    <2>3. \A c \in batch \cup live : c.on = flush.at => c.what.made <= ReadChange.what.made
      BY <1>0, <2>2
    <2>4. /\ \A d \in ReadFound : store[d.on].made <= d.what.made
          /\ \A c \in batch, d \in ReadFound : c.on = d.on => c.what.made <= d.what.made
          /\ \A c \in live, d \in ReadFound : c.on = d.on => c.what.made <= d.what.made
      BY <1>0, <2>1, <2>2, <2>3 DEF Versions, ReadFound
    <2>5. CASE ReadTodo = {}
      <3>1. flush'.found = {} /\ live' \subseteq live \cup ReadFound
        BY <1>6, <2>5, ReadIs, MergedIs, FlushIs
      <3> QED BY <2>1, <2>4, <3>1 DEF Versions
    <2>6. CASE ReadTodo # {}
      <3>1. flush'.found = ReadFound /\ live' = live
        BY <1>6, <2>6, ReadIs
      <3> QED BY <2>1, <2>4, <3>1 DEF Versions
    <2> QED BY <2>5, <2>6
  <1>7. ASSUME Push PROVE Versions'
    BY <1>7 DEF Push, watcher, manager, Versions
  <1>8. ASSUME ApplyDelta PROVE Versions'
    <2>1. batch' = {} /\ UNCHANGED <<live, flush>>
      BY <1>8 DEF ApplyDelta, watcher
    <2>2. ASSUME NEW d \in live \cup flush.found PROVE store'[d.on].made <= d.what.made
      <3>1. CASE \E c \in Fresh(batch) : c.on = d.on
        <4>1. PICK c \in Fresh(batch) : c.on = d.on
          BY <3>1
        <4>2. c \in batch /\ store'[d.on] = c.what
          BY <1>0, <1>8, <4>1, ApplyIs
        <4> QED BY <4>1, <4>2 DEF Versions
      <3>2. CASE \A c \in Fresh(batch) : c.on # d.on
        <4>1. store'[d.on] = store[d.on]
          BY <1>0, <1>8, <3>2, ApplyIs
        <4> QED BY <4>1 DEF Versions
      <3> QED BY <3>1, <3>2
    <2> QED BY <2>1, <2>2 DEF Versions
  <1>9. ASSUME NEW f \in File, Unsuppress(f) \/ BypassExpires(f) PROVE Versions'
    <2>1. UNCHANGED <<store, batch, live, flush>>
      BY <1>9 DEF Unsuppress, BypassExpires, watcher, queue, manager
    <2> QED BY <1>1, <2>1
  <1>a. ASSUME NEW f \in File, OtherTask(f) \/ \E there \in BOOLEAN : Edit(f, there) PROVE Versions'
    <2>1. "other task" \in mishap' \/ "user" \in mishap'
      BY <1>a DEF OtherTask, Edit
    <2> QED BY <2>1 DEF Unbroken
  <1>b. CASE UNCHANGED readVars
    BY <1>1, <1>b DEF readVars, watcher, queue, manager
  <1> QED BY <1>2, <1>3, <1>4, <1>5, <1>6, <1>7, <1>8, <1>9, <1>a, <1>b, Kinds

LEMMA BypassedStep ==
  ASSUME ReadIInv, ReadThroughBounds, [ReadNext]_readVars, Unbroken', Tagged, Versions, Bypassed
  PROVE  Bypassed'
  <1>0. /\ \A f \in File : /\ disk[f].made \in Nat /\ store[f].made \in Nat
                           /\ store[f].made <= disk[f].made
        /\ \A c \in batch \cup live \cup flush.found :
               c.on \in File /\ c.what.made \in Nat /\ c.what.made <= disk[c.on].made
        /\ OpsStay /\ Len(ops) \in Nat
        /\ \A i \in 1..Len(ops) : Targets(i) \subseteq File
    <2>1. OpsStay
      BY Stays
    <2> QED BY <2>1, NumbersAre, OpsAre
  <1>1. \A c \in batch \cup live \cup flush.found :
           /\ c.tag \in 1..Len(ops) /\ c.tag # NoId /\ ops[c.tag].at = "over"
    <2>1. \A c \in batch \cup live \cup flush.found : IsTag(c.on, c.tag)
      BY DEF Tagged
    <2> QED BY <2>1, TagIs
  <1>x. ASSUME \A f \in File : bypass'[f] = NoId => store'[f].made = disk'[f].made,
               \A c \in batch' \cup live' \cup flush'.found :
                  c.tag = bypass'[c.on] => c.what.made = disk'[c.on].made,
               \A i \in 1..Len(ops') : \A f : f \in Targets(i)' /\ Writes(i)' /\ ops'[i].at = "asks"
                  => bypass'[f] = i
        PROVE  Bypassed'
    BY <1>x DEF Bypassed, Writes, Targets
  <1>2. \A i \in 1..Len(ops) : /\ Targets(i)' = Targets(i) /\ (Writes(i)' <=> Writes(i))
    BY <1>0 DEF OpsStay
  <1>3. ASSUME UNCHANGED <<ops, bypass, disk, store>>,
               \A c \in batch' \cup live' \cup flush'.found :
                  c \in batch \cup live \cup flush.found \/ c.what.made = disk[c.on].made
        PROVE  Bypassed'
    BY <1>2, <1>3, <1>x DEF Bypassed
  <1>4. CASE UNCHANGED <<ops, bypass, disk, store, batch, live, flush>>
    BY <1>3, <1>4
  <1>5. ASSUME NEW r \in Wanted, BeginRead(r) PROVE Bypassed'
    <2>0. PICK n : n = Len(ops) + 1
      OBVIOUS
    <2>1. /\ Len(ops') = n /\ ops'[n].req = r /\ IsRead(r)
          /\ \A i \in 1..Len(ops) : ops'[i] = ops[i]
          /\ \A i \in 1..n : i \in 1..Len(ops) \/ i = n
      BY <1>5, <2>0, BeginIs
    <2>2. UNCHANGED <<bypass, disk, store, batch, live, flush>>
      BY <1>5 DEF BeginRead, watcher, queue, manager
    <2>3. ~Writes(n)'
      BY <2>1 DEF Writes
    <2> QED BY <1>2, <1>x, <2>1, <2>2, <2>3 DEF Bypassed
  <1>6. ASSUME NEW r \in Wanted, BeginChange(r) PROVE Bypassed'
    <2>0. PICK n : n = Len(ops) + 1
      OBVIOUS
    <2>1. /\ Len(ops') = n /\ ops'[n].req = r
          /\ \A i \in 1..Len(ops) : ops'[i] = ops[i]
          /\ \A i \in 1..n : i \in 1..Len(ops) \/ i = n
      BY <1>6, <2>0, BeginIs
    <2>2. /\ bypass' = [f \in File |-> IF f \in {r.from, r.to} THEN n ELSE bypass[f]]
          /\ UNCHANGED <<disk, store, batch, live, flush>>
          /\ \A i \in 1..Len(ops) : \/ ops[i].at = "over" \/ IsRead(ops[i].req)
                                    \/ Targets(i) \cap {r.from, r.to} = {}
      BY <1>6, <2>0 DEF BeginChange, watcher, queue
    <2>3. \A f \in File : bypass'[f] = NoId => store'[f].made = disk'[f].made
      BY <1>0, <2>0, <2>2 DEF Bypassed, NoId
    <2>4. \A c \in batch' \cup live' \cup flush'.found :
                  c.tag = bypass'[c.on] => c.what.made = disk'[c.on].made
      BY <1>0, <1>1, <2>0, <2>2 DEF Bypassed
    <2>5. Targets(n)' = {r.from, r.to} /\ {r.from, r.to} \subseteq File
      BY <2>1 DEF Targets, ReadThroughBounds
    <2>6. \A i \in 1..Len(ops) : \A f : f \in Targets(i)' /\ Writes(i)' /\ ops'[i].at = "asks"
             => bypass'[f] = i
      BY <1>0, <1>2, <2>1, <2>2 DEF Bypassed, Writes
    <2>7. \A f \in Targets(n)' : bypass'[f] = n
      BY <2>2, <2>5
    <2> QED BY <1>x, <2>1, <2>3, <2>4, <2>6, <2>7
  <1>7. ASSUME NEW i \in 1..Len(ops), NEW made, Moves(i, made), UNCHANGED <<bypass, store, batch, live, flush>>,
               Writes(i) => ops'[i].at = "over",
               \A f \in File : disk'[f] # disk[f] => Writes(i) /\ ops[i].at = "asks" /\ f \in Targets(i)
        PROVE  Bypassed'
    <2>1. \A f \in File : disk'[f] # disk[f] => bypass[f] = i /\ i # NoId
      BY <1>0, <1>7 DEF Bypassed, NoId
    <2>2. \A c \in batch \cup live \cup flush.found : c.tag = i => ops[i].at = "over"
      BY <1>1
    <2>3. \A f \in File : bypass'[f] = NoId => store'[f].made = disk'[f].made
      BY <1>7, <2>1 DEF Bypassed
    <2>4. \A c \in batch' \cup live' \cup flush'.found :
                  c.tag = bypass'[c.on] => c.what.made = disk'[c.on].made
      BY <1>0, <1>7, <2>1, <2>2 DEF Bypassed
    <2>5. Len(ops') = Len(ops) /\ \A j \in 1..Len(ops) : j # i => ops'[j] = ops[j]
      BY <1>7 DEF Moves
    <2>6. \A j \in 1..Len(ops') : \A f : f \in Targets(j)' /\ Writes(j)' /\ ops'[j].at = "asks"
             => bypass'[f] = j
      BY <1>2, <1>7, <2>5 DEF Bypassed
    <2> QED BY <1>x, <2>3, <2>4, <2>6
  <1>8. ASSUME NEW i \in 1..Len(ops), LookUp(i) \/ Pass(i) \/ \E hinted \in BOOLEAN : Refuse(i, hinted)
        PROVE  Bypassed'
    <2>1. UNCHANGED <<disk, bypass, store, batch, live, flush>>
      BY <1>8 DEF LookUp, Pass, Refuse, watcher, queue, manager
    <2>2. \E made : Moves(i, made)
      BY <1>8, MovesAre
    <2>3. Writes(i) => ops'[i].at = "over"
      <3>1. Writes(i) => ops[i].at \in {"asks", "over"}
        BY DEF ReadIInv, OpsOK
      <3> QED BY <1>8, <3>1, MovesAre
    <2> QED BY <1>7, <2>1, <2>2, <2>3
  <1>9. ASSUME NEW i \in 1..Len(ops), Execute(i) PROVE Bypassed'
    <2>1. UNCHANGED <<bypass, store, batch, live, flush>>
      BY <1>9 DEF Execute, watcher, queue, manager
    <2>2. (\E made : Moves(i, made)) /\ ops'[i].at = "over" /\ ops[i].at = "asks"
      BY <1>9, MovesAre
    <2>3. \A f \in File : disk'[f] # disk[f] => Writes(i) /\ f \in Targets(i)
      <3>1. CASE UNCHANGED disk
        BY <3>1
      <3>2. CASE ~UNCHANGED disk
        BY <1>9, <3>2, MovesAre DEF Writes
      <3> QED BY <3>1, <3>2
    <2> QED BY <1>7, <2>1, <2>2, <2>3
  <1>a. ASSUME NEW i \in 1..Len(ops), Hint(i) PROVE Bypassed'
    BY <1>4, <1>a DEF Hint, queue, manager
  <1>b. ASSUME NEW paths \in SUBSET dirty, NEW again \in SUBSET dirty, FlushStart(paths, again)
        PROVE  Bypassed'
    <2>1. flush'.found = {} /\ UNCHANGED <<ops, bypass, disk, store, live, batch>>
      BY <1>b DEF FlushStart, queue, manager, Idle
    <2> QED BY <1>3, <2>1
  <1>c. ASSUME NEW f \in File, Tag(f) PROVE Bypassed'
    <2>1. flush'.found = flush.found /\ UNCHANGED <<ops, bypass, disk, store, live, batch>>
      BY <1>c DEF Tag, queue, manager, ReadIInv, ReadTypeOK
    <2> QED BY <1>3, <2>1
  <1>d. ASSUME Read PROVE Bypassed'
    <2>1. UNCHANGED <<ops, bypass, disk, store, batch>>
      BY <1>d, ReadIs DEF manager
    <2>2. ReadChange.what.made = disk[ReadChange.on].made
      BY DEF ReadChange
    <2>3. flush'.found \subseteq ReadFound /\ live' \subseteq live \cup ReadFound
      BY <1>d, ReadIs, FlushIs, MergedIs
    <2> QED BY <1>3, <2>1, <2>2, <2>3 DEF ReadFound
  <1>e. ASSUME Push PROVE Bypassed'
    BY <1>3, <1>e DEF Push, watcher, manager
  <1>f. ASSUME ApplyDelta PROVE Bypassed'
    <2>1. batch' = {} /\ UNCHANGED <<ops, disk, live, flush>>
      BY <1>f DEF ApplyDelta, watcher
    <2>2. ASSUME NEW f \in File PROVE \/ /\ bypass'[f] = bypass[f]
                                         /\ bypass[f] = NoId => store'[f].made = disk[f].made
                                      \/ /\ bypass'[f] = NoId /\ store'[f].made = disk[f].made
                                         /\ ops[bypass[f]].at = "over"
      <3>1. CASE bypass'[f] = bypass[f] /\ \E c \in Fresh(batch) : c.on = f
        <4>1. PICK c \in Fresh(batch) : c.on = f
          BY <3>1
        <4>2. c \in batch /\ store'[f] = c.what
          BY <1>f, <4>1, ApplyIs
        <4>3. store[f].made <= c.what.made /\ c.what.made <= disk[f].made /\ c.what.made \in Nat
          BY <1>0, <4>1, <4>2 DEF Versions
        <4>4. bypass[f] = NoId => c.what.made = disk[f].made
          BY <1>0, <4>3 DEF Bypassed
        <4> QED BY <3>1, <4>2, <4>4
      <3>2. CASE bypass'[f] = bypass[f] /\ \A c \in Fresh(batch) : c.on # f
        <4>1. store'[f] = store[f]
          BY <1>f, <3>2, ApplyIs
        <4> QED BY <3>2, <4>1 DEF Bypassed
      <3>3. CASE bypass'[f] # bypass[f]
        <4>1. PICK c \in Fresh(batch) : c.on = f /\ c.tag \in {NoId, bypass[f]} /\ bypass'[f] = NoId
          BY <1>f, <3>3, ApplyIs
        <4>2. c \in batch /\ store'[f] = c.what
          BY <1>f, <4>1, ApplyIs
        <4>3. c.tag = bypass[f] /\ ops[c.tag].at = "over"
          BY <1>1, <4>1, <4>2
        <4>4. c.what.made = disk[f].made
          BY <4>1, <4>2, <4>3 DEF Bypassed
        <4> QED BY <4>1, <4>2, <4>3, <4>4
      <3> QED BY <3>1, <3>2, <3>3
    <2>3. \A f \in File : bypass'[f] = NoId => store'[f].made = disk'[f].made
      BY <2>1, <2>2
    <2>4. \A c \in batch' \cup live' \cup flush'.found :
                  c.tag = bypass'[c.on] => c.what.made = disk'[c.on].made
      BY <1>0, <1>1, <2>1, <2>2 DEF Bypassed
    <2>5. \A i \in 1..Len(ops') : \A f : f \in Targets(i)' /\ Writes(i)' /\ ops'[i].at = "asks"
             => bypass'[f] = i
      BY <1>0, <1>2, <2>1, <2>2 DEF Bypassed
    <2> QED BY <1>x, <2>3, <2>4, <2>5
  <1>g. ASSUME NEW f \in File, Unsuppress(f) PROVE Bypassed'
    BY <1>4, <1>g DEF Unsuppress, queue, manager
  <1>h. ASSUME NEW f \in File, BypassExpires(f) PROVE Bypassed'
    <2>1. /\ bypass[f] # NoId /\ bypass' = [bypass EXCEPT ![f] = NoId]
          /\ UNCHANGED <<ops, disk, store, batch, live, flush>>
          /\ (ops[bypass[f]].at # "over" \/ store[f].made < disk[f].made) => "expired" \in mishap'
      BY <1>h DEF BypassExpires, watcher, queue, Note
    <2>2. ops[bypass[f]].at = "over" /\ ~(store[f].made < disk[f].made)
      BY <2>1 DEF Unbroken
    <2>3. store[f].made = disk[f].made
      BY <1>0, <2>2
    <2>4. bypass'[f] = NoId /\ \A g \in File : g # f => bypass'[g] = bypass[g]
      BY <2>1 DEF ReadIInv, ReadTypeOK
    <2>5. \A g \in File : bypass'[g] = NoId => store'[g].made = disk'[g].made
      BY <2>1, <2>3, <2>4 DEF Bypassed
    <2>6. \A c \in batch' \cup live' \cup flush'.found :
                  c.tag = bypass'[c.on] => c.what.made = disk'[c.on].made
      BY <1>0, <1>1, <2>1, <2>4 DEF Bypassed
    <2>7. \A i \in 1..Len(ops') : \A g : g \in Targets(i)' /\ Writes(i)' /\ ops'[i].at = "asks"
             => bypass'[g] = i
      BY <1>0, <1>2, <2>1, <2>2, <2>4 DEF Bypassed
    <2> QED BY <1>x, <2>5, <2>6, <2>7
  <1>i. ASSUME NEW f \in File, OtherTask(f) \/ \E there \in BOOLEAN : Edit(f, there) PROVE Bypassed'
    <2>1. "other task" \in mishap' \/ "user" \in mishap'
      BY <1>i DEF OtherTask, Edit
    <2> QED BY <2>1 DEF Unbroken
  <1>j. CASE UNCHANGED readVars
    BY <1>4, <1>j DEF readVars, watcher, queue, manager
  <1> QED BY <1>5, <1>6, <1>8, <1>9, <1>a, <1>b, <1>c, <1>d, <1>e, <1>f, <1>g, <1>h, <1>i, <1>j, Kinds

LEMMA StoreGrows ==
  ASSUME ReadIInv, ReadThroughBounds, [ReadNext]_readVars, Unbroken', Versions, NEW f \in File
  PROVE  store[f].made <= store'[f].made /\ store'[f].made \in Nat
  <1>1. store[f].made \in Nat
    BY FilesAre
  <1>2. CASE ApplyDelta
    <2>1. CASE \E c \in Fresh(batch) : c.on = f
      <3>1. PICK c \in Fresh(batch) : c.on = f
        BY <2>1
      <3>2. c \in batch /\ store'[f] = c.what
        BY <1>2, <3>1, ApplyIs
      <3> QED BY <3>1, <3>2, ChangeIs DEF Versions
    <2>2. CASE \A c \in Fresh(batch) : c.on # f
      <3>1. store'[f] = store[f]
        BY <1>2, <2>2, ApplyIs
      <3> QED BY <1>1, <3>1
    <2> QED BY <2>1, <2>2
  <1>3. ASSUME NEW g \in File, OtherTask(g) PROVE FALSE
    <2>1. "other task" \in mishap'
      BY <1>3 DEF OtherTask
    <2> QED BY <2>1 DEF Unbroken
  <1>4. CASE UNCHANGED store
    BY <1>1, <1>4
  <1>5. ASSUME NEW i \in 1..Len(ops), LookUp(i) \/ Pass(i) \/ Hint(i) \/ Execute(i)
                                      \/ \E hinted \in BOOLEAN : Refuse(i, hinted)
        PROVE  UNCHANGED store
    BY <1>5 DEF LookUp, Pass, Hint, Execute, Refuse, manager
  <1>6. ASSUME NEW g \in File, \/ Tag(g) \/ Unsuppress(g) \/ BypassExpires(g)
                               \/ \E there \in BOOLEAN : Edit(g, there)
        PROVE  UNCHANGED store
    BY <1>6 DEF Tag, Unsuppress, BypassExpires, Edit, manager
  <1> QED BY <1>2, <1>3, <1>4, <1>5, <1>6, Kinds
          DEF BeginRead, BeginChange, FlushStart, Read, Push, readVars, manager

LEMMA ReadingStep ==
  ASSUME ReadIInv, ReadThroughBounds, [ReadNext]_readVars, Unbroken', Versions, Bypassed, Reading
  PROVE  Reading'
  <1>0. /\ OpsStay /\ Len(ops) \in Nat
        /\ \A i \in 1..Len(ops) : ops[i].req.from \in File /\ ops[i].since \in Nat
        /\ \A f \in File : /\ disk[f].made \in Nat /\ store[f].made \in Nat
                           /\ store[f].made <= disk[f].made
                           /\ disk'[f].made \in Nat /\ disk[f].made <= disk'[f].made
                           /\ store'[f].made \in Nat /\ store[f].made <= store'[f].made
    <2>1. ASSUME NEW i \in 1..Len(ops) PROVE ops[i].req.from \in File /\ ops[i].since \in Nat
      <3>1. ops[i] \in Operations(clock) /\ Targets(i) \subseteq File /\ ops[i].req.from \in Targets(i)
            /\ clock \in Nat
        BY OpsAre
      <3> QED BY <3>1 DEF Operations
    <2> QED BY <2>1, Stays, NumbersAre, OpsAre, DiskGrows, StoreGrows
  <1>1. ASSUME NEW i \in 1..Len(ops), IsRead(ops[i].req)
        PROVE  LET f == ops[i].req.from
               IN  /\ ops'[i].req = ops[i].req /\ ops'[i].since = ops[i].since
                   /\ ops[i].since <= disk'[f].made
                   /\ ops[i].at = "looks" => ops[i].since <= store'[f].made
                   /\ ops[i].at = "over" => ops[i].since <= ops[i].made
    <2> DEFINE f == ops[i].req.from
    <2>1. /\ ops[i].since <= disk[f].made
          /\ ops[i].at = "looks" => ops[i].since <= store[f].made
          /\ ops[i].at = "over" => ops[i].since <= ops[i].made
      BY <1>1 DEF Reading
    <2>2. f \in File /\ ops[i].since \in Nat /\ ops'[i].req = ops[i].req /\ ops'[i].since = ops[i].since
      BY <1>0 DEF OpsStay
    <2> HIDE DEF f
    <2>3. ops[i].since <= disk'[f].made /\ (ops[i].at = "looks" => ops[i].since <= store'[f].made)
      BY <1>0, <2>1, <2>2
    <2> QED BY <2>1, <2>2, <2>3 DEF f
  <1>2. ASSUME Len(ops') = Len(ops),
               \A i \in 1..Len(ops) : IsRead(ops[i].req) =>
                  \/ ops'[i].at = ops[i].at /\ ops'[i].made = ops[i].made
                  \/ ops'[i].at \in {"asks", "misses"}
                  \/ ops'[i].at = "over" /\ ops[i].since <= ops'[i].made
        PROVE  Reading'
    <2> SUFFICES ASSUME NEW i \in 1..Len(ops), IsRead(ops'[i].req)
                 PROVE  /\ ops'[i].since <= disk'[ops'[i].req.from].made
                        /\ ops'[i].at = "looks" => ops'[i].since <= store'[ops'[i].req.from].made
                        /\ ops'[i].at = "over" => ops'[i].since <= ops'[i].made
      BY <1>2 DEF Reading
    <2>1. IsRead(ops[i].req)
      BY <1>0 DEF OpsStay
    <2> QED BY <1>1, <1>2, <2>1
  <1>3. CASE UNCHANGED ops
    BY <1>2, <1>3
  <1>4. ASSUME NEW r \in Wanted, BeginRead(r) \/ BeginChange(r) PROVE Reading'
    <2>0. PICK n : n = Len(ops) + 1
      OBVIOUS
    <2>1. /\ Len(ops') = n /\ ops'[n].req = r /\ ops'[n].since = Newest(r.from)
          /\ \A i \in 1..Len(ops) : ops'[i] = ops[i]
          /\ \A i \in 1..n : i \in 1..Len(ops) \/ i = n
      BY <1>4, <2>0, BeginIs
    <2>2. IsRead(r) => /\ ops'[n].at = IF bypass[r.from] = NoId THEN "looks" ELSE "misses"
      BY <1>4, <2>0, BeginIs
    <2>3. r.from \in File
      BY DEF ReadThroughBounds
    <2>4. Newest(r.from) \in Nat /\ Newest(r.from) <= disk[r.from].made
      <3>1. clock \in Nat
        BY DEF ReadIInv, ReadTypeOK
      <3> QED BY <2>3, <3>1, NewestIsMade
    <2>5. UNCHANGED <<disk, store>>
      BY <1>4 DEF BeginRead, BeginChange, manager
    <2>6. bypass[r.from] = NoId => Newest(r.from) <= store[r.from].made
      BY <2>3, <2>4 DEF Bypassed
    <2> QED BY <1>1, <2>1, <2>2, <2>4, <2>5, <2>6 DEF Reading
  <1>5. ASSUME NEW i \in 1..Len(ops), LookUp(i) \/ Pass(i) \/ Execute(i)
                                      \/ \E hinted \in BOOLEAN : Refuse(i, hinted)
        PROVE  Reading'
    <2>1. Len(ops') = Len(ops) /\ \A j \in 1..Len(ops) : j # i => ops'[j] = ops[j]
      <3>1. \E made : Moves(i, made)
        BY <1>5, MovesAre
      <3> QED BY <3>1 DEF Moves
    <2>2. IsRead(ops[i].req) => \/ ops'[i].at \in {"asks", "misses"}
                                \/ ops'[i].at = "over" /\ ops[i].since <= ops'[i].made
      <3>1. CASE LookUp(i)
        <4>1. IsRead(ops[i].req) => ops[i].at = "looks" /\ ops[i].since <= store[ops[i].req.from].made
          BY <3>1, MovesAre DEF Reading
        <4> QED BY <3>1, <4>1, MovesAre DEF Moves
      <3>2. CASE Pass(i)
        BY <3>2, MovesAre
      <3>3. CASE Execute(i)
        <4>1. IsRead(ops[i].req) => ops[i].since <= disk[ops[i].req.from].made
          BY DEF Reading
        <4> QED BY <3>3, <4>1, MovesAre DEF Moves
      <3>4. CASE \E hinted \in BOOLEAN : Refuse(i, hinted)
        BY <3>4, MovesAre
      <3> QED BY <1>5, <3>1, <3>2, <3>3, <3>4
    <2> QED BY <1>2, <2>1, <2>2
  <1>6. CASE \/ \E i \in 1..Len(ops) : Hint(i)
             \/ \E paths \in SUBSET dirty, again \in SUBSET dirty : FlushStart(paths, again)
             \/ \E f \in File : Tag(f) \/ Unsuppress(f) \/ BypassExpires(f) \/ OtherTask(f)
                                \/ \E there \in BOOLEAN : Edit(f, there)
             \/ Read \/ Push \/ ApplyDelta
             \/ UNCHANGED readVars
    BY <1>3, <1>6 DEF Hint, FlushStart, Tag, Unsuppress, BypassExpires, OtherTask, Edit, Read, Push,
                      ApplyDelta, readVars
  <1> QED BY <1>4, <1>5, <1>6, Kinds

LEMMA ReadInvStep ==
  ASSUME ReadIInv, ReadThroughBounds, [ReadNext]_readVars, TagInv, ReadInv
  PROVE  ReadInv'
  <1> SUFFICES ASSUME Unbroken' PROVE Versions' /\ Bypassed' /\ Reading'
    BY DEF ReadInv
  <1>1. Unbroken /\ Harmless
    BY MishapsStay DEF Unbroken, Harmless
  <1>2. Tagged /\ Versions /\ Bypassed /\ Reading
    BY <1>1 DEF TagInv, ReadInv
  <1> QED BY <1>2, VersionsStep, BypassedStep, ReadingStep

(* A session reads what it has written: the version that a read gives is no   *)
(* older than the newest one that an operation of the session which was       *)
(* answered before has made or seen.  For any files and any number of         *)
(* operations under way, whatever the watcher, the queue and the deltas do:   *)
(* the bypass of a file stays until clearReadBypass has seen a change with    *)
(* the id of its last change, and that is the file as it is on the disk.      *)
THEOREM SessionReadsItsWrites == ReadSpec => []ReadsOwnWrites
  <1> DEFINE Inv == ReadIInv /\ TagInv /\ ReadInv
  <1>1. ReadInit => Inv
    <2> SUFFICES ASSUME ReadInit PROVE ReadInv
      BY ReadThroughBounds, InvInit, TagInvInit
    <2>1. /\ flush = Idle /\ batch = {} /\ live = {} /\ ops = <<>> /\ store = disk
      BY DEF ReadInit
    <2>2. flush.found = {} /\ 1..Len(ops) = {}
      BY <2>1 DEF Idle
    <2> QED BY <2>1, <2>2 DEF ReadInv, Versions, Bypassed, Reading
  <1>2. Inv /\ [ReadNext]_readVars => Inv'
    BY ReadThroughBounds, InvStep, TagInvStep, ReadInvStep
  <1>3. Inv => ReadsOwnWrites
    <2> SUFFICES ASSUME ReadIInv, Reading, NEW i \in 1..Len(ops), IsRead(ops[i].req), ops[i].at = "over"
                 PROVE  ops[i].made >= ops[i].since
      BY DEF ReadInv, ReadsOwnWrites, Unbroken
    <2>1. ops[i].made \in Int /\ ops[i].since \in Int /\ ops[i].since <= ops[i].made
      BY OpsAre, ReadThroughBounds DEF Operations, Reading
    <2> QED BY <2>1
  <1> HIDE DEF Inv
  <1> QED BY <1>1, <1>2, <1>3, PTL DEF ReadSpec

-----------------------------------------------------------------------------
(* The way of a change from the disk to the manifest, as long as a bypass     *)
(* that ends is all that goes wrong.                                          *)

(* The delta that waits, the queue and what the flush has found, in the order *)
(* in which they reach the manifest.                                          *)
Changes(k) == IF k = 1 THEN batch ELSE IF k = 2 THEN live ELSE flush.found

Tags(k) == IF k = 0 THEN Range(recent) ELSE {c.tag : c \in Changes(k)}

AllTags == Range(recent) \cup {c.tag : c \in batch \cup live \cup flush.found}

Over(changes, w, f) == IF \E c \in changes : c.on = f THEN CHOOSE c \in changes : c.on = f ELSE w

(* What will be known of a file when everything up to there is stored.        *)
AtStore(f) == [on |-> f, what |-> store[f], tag |-> MaxOps]
AtBatch(f) == Over(batch, AtStore(f), f)
AtLive(f) == Over(live, AtBatch(f), f)
AtFound(f) == Over(flush.found, AtLive(f), f)

Word(k, f) == IF k = 0 THEN AtStore(f) ELSE IF k = 1 THEN AtBatch(f)
              ELSE IF k = 2 THEN AtLive(f) ELSE AtFound(f)

Hot(f) == f \in dirty \cup flush.todo

(* A change that is told of a file is what it has become, unless it has been  *)
(* changed after that; a file that is there is told of with the last tag.     *)
Good(w, f, t) == /\ ~Outdated(f, t) => Alike(w.what, disk[f])
                 /\ w.what.there => w.tag >= t

(* Where a tag has come, so has all of its change and what was before it.     *)
Covered == \A q \in 0..3 : \A t \in Tags(q) : \A f \in Targets(t) : \A r \in q..3 :
              ~(q = 3 /\ f \in flush.todo) => Good(Word(r, f), f, t)

(* A removal whose tag has come further than it is told there as well.        *)
GoneBefore == \A p \in 1..3 : \A c \in Changes(p) : ~c.what.there =>
                 \A q \in 0..(p - 1) : (\E o \in 0..q : c.tag \in Tags(o)) => ~Word(q, c.on).what.there

(* The last word on a file is right, or the file is yet to be read.           *)
LastWord == \A f \in File :
              /\ Word(3, f).what.there => f \in localIndex
              /\ \/ Hot(f)
                 \/ /\ Alike(Word(3, f).what, disk[f])
                    /\ Word(3, f).what.there => ~Outdated(f, Word(3, f).tag)

NotBefore(f, t) == suppressed[f] = NoId \/ suppressed[f] >= t

(* Hints come in the order of the changes; a file that is read has the tag of *)
(* the last of them, and the other file of that change is not forgotten.      *)
Hinted ==
    /\ \A g \in File : suppressed[g] # NoId => \A f \in Targets(suppressed[g]) : NotBefore(f, suppressed[g])
    /\ \A t \in AllTags : /\ \A h \in hints : t < h
                          /\ \A f \in Targets(t) : NotBefore(f, t) /\ (flush.at = f => flush.tag >= t)
    /\ \A h \in hints : flush.tag < h
    /\ flush.at # None =>
          /\ \A g \in Targets(flush.tag) : NotBefore(g, flush.tag)
          /\ \A g \in Targets(flush.tag) \ {flush.at} :
                g \in flush.todo \/ \E c \in flush.found : c.on = g /\ c.tag = flush.tag
          /\ Outdated(flush.at, flush.tag) => flush.at \in dirty

Untroubled == mishap \subseteq {"expired"}

FollowInv == Untroubled => Hinted /\ Covered /\ GoneBefore /\ LastWord

LEMMA OverIs ==
  ASSUME NEW changes, OnePerFile(changes), NEW w, NEW f
  PROVE  /\ \A c \in changes : c.on = f => Over(changes, w, f) = c
         /\ (\A c \in changes : c.on # f) => Over(changes, w, f) = w
  <1>1. ASSUME NEW c \in changes, c.on = f PROVE Over(changes, w, f) = c
    <2>1. (CHOOSE d \in changes : d.on = f) = c
      BY <1>1 DEF OnePerFile
    <2> QED BY <1>1, <2>1 DEF Over
  <1> QED BY <1>1 DEF Over

LEMMA WordIs ==
  ASSUME ChangesOK, NEW f
  PROVE  /\ Word(0, f) = [on |-> f, what |-> store[f], tag |-> MaxOps]
         /\ \A c \in batch : c.on = f => Word(1, f) = c
         /\ (\A c \in batch : c.on # f) => Word(1, f) = Word(0, f)
         /\ \A c \in live : c.on = f => Word(2, f) = c
         /\ (\A c \in live : c.on # f) => Word(2, f) = Word(1, f)
         /\ \A c \in flush.found : c.on = f => Word(3, f) = c
         /\ (\A c \in flush.found : c.on # f) => Word(3, f) = Word(2, f)
  <1>1. OnePerFile(batch) /\ OnePerFile(live) /\ OnePerFile(flush.found)
    BY DEF ChangesOK
  <1>2. /\ Word(0, f) = AtStore(f) /\ Word(1, f) = Over(batch, Word(0, f), f)
        /\ Word(2, f) = Over(live, Word(1, f), f) /\ Word(3, f) = Over(flush.found, Word(2, f), f)
    BY DEF Word, AtBatch, AtLive, AtFound
  <1> QED BY <1>1, <1>2, OverIs DEF AtStore

LEMMA WordIsNext ==
  ASSUME ChangesOK', NEW f
  PROVE  /\ Word(0, f)' = [on |-> f, what |-> store'[f], tag |-> MaxOps]
         /\ \A c \in batch' : c.on = f => Word(1, f)' = c
         /\ (\A c \in batch' : c.on # f) => Word(1, f)' = Word(0, f)'
         /\ \A c \in live' : c.on = f => Word(2, f)' = c
         /\ (\A c \in live' : c.on # f) => Word(2, f)' = Word(1, f)'
         /\ \A c \in flush'.found : c.on = f => Word(3, f)' = c
         /\ (\A c \in flush'.found : c.on # f) => Word(3, f)' = Word(2, f)'
  <1>1. OnePerFile(batch') /\ OnePerFile(live') /\ OnePerFile(flush'.found)
    BY DEF ChangesOK
  <1>2. /\ Word(0, f)' = [on |-> f, what |-> store'[f], tag |-> MaxOps]
        /\ Word(1, f)' = Over(batch', Word(0, f)', f)
        /\ Word(2, f)' = Over(live', Word(1, f)', f)
        /\ Word(3, f)' = Over(flush'.found, Word(2, f)', f)
    BY DEF Word, AtBatch, AtLive, AtFound, AtStore
  <1> QED BY <1>1, <1>2, OverIs

LEMMA TagsAre ==
  /\ Tags(0) = Range(recent) /\ Tags(1) = {c.tag : c \in batch}
  /\ Tags(2) = {c.tag : c \in live} /\ Tags(3) = {c.tag : c \in flush.found}
  /\ \A q \in 0..3 : Tags(q) \subseteq AllTags
  /\ Tags(0)' = Range(recent') /\ Tags(1)' = {c.tag : c \in batch'}
  /\ Tags(2)' = {c.tag : c \in live'} /\ Tags(3)' = {c.tag : c \in flush'.found}
  /\ \A q \in 0..3 : q \in {0, 1, 2, 3}
  /\ Changes(1) = batch /\ Changes(2) = live /\ Changes(3) = flush.found
  /\ Changes(1)' = batch' /\ Changes(2)' = live' /\ Changes(3)' = flush'.found
  BY DEF Tags, Changes, AllTags

LEMMA TagsName ==
  ASSUME ReadIInv, ReadThroughBounds, [ReadNext]_readVars, Tagged
  PROVE  /\ \A t \in AllTags : /\ t \in 1..Len(ops) /\ t \in Op /\ Targets(t) \subseteq File
                               /\ Writes(t) /\ ops[t].at = "over" /\ Targets(t)' = Targets(t)
         /\ \A c \in batch \cup live \cup flush.found : c.tag \in AllTags /\ c.on \in Targets(c.tag)
         /\ flush.at # None => /\ flush.tag \in 1..Len(ops) /\ flush.tag \in Op /\ Writes(flush.tag)
                               /\ Targets(flush.tag) \subseteq File /\ ops[flush.tag].at = "over"
                               /\ flush.at \in Targets(flush.tag)
  <1>1. Len(ops) \in 0..MaxOps /\ MaxOps \in Nat /\ \A t \in 1..Len(ops) : Targets(t) \subseteq File
    BY OpsAre
  <1>2. \A t \in 1..Len(ops) : t \in Op
    BY <1>1 DEF Op
  <1>3. \A t \in 1..Len(ops) : Targets(t)' = Targets(t)
    BY Stays DEF OpsStay
  <1>4. \A t \in AllTags : Writes(t) /\ ops[t].at = "over"
    BY DEF Tagged, IsTag, AllTags
  <1>5. \A c \in batch \cup live \cup flush.found : c.tag \in AllTags /\ c.on \in Targets(c.tag)
    BY DEF Tagged, IsTag, AllTags
  <1>6. flush.at # None => IsTag(flush.at, flush.tag)
    BY DEF Tagged
  <1> QED BY <1>1, <1>2, <1>3, <1>4, <1>5, <1>6 DEF Writes, IsTag

(* As long as no change is made, what is outdated stays the same.             *)
LEMMA MadeStays ==
  ASSUME ReadIInv, ReadThroughBounds, [ReadNext]_readVars, UNCHANGED clock
  PROVE  /\ \A i \in 1..Len(ops) : Writes(i) => ops'[i].made = ops[i].made
         /\ \A i \in 1..Len(ops') : i \in 1..Len(ops) \/ ops'[i].made = 0
  <1>1. ASSUME UNCHANGED ops
        PROVE  /\ \A i \in 1..Len(ops) : Writes(i) => ops'[i].made = ops[i].made
               /\ \A i \in 1..Len(ops') : i \in 1..Len(ops) \/ ops'[i].made = 0
    BY <1>1
  <1>2. ASSUME NEW r \in Wanted, BeginRead(r) \/ BeginChange(r)
        PROVE  /\ \A i \in 1..Len(ops) : Writes(i) => ops'[i].made = ops[i].made
               /\ \A i \in 1..Len(ops') : i \in 1..Len(ops) \/ ops'[i].made = 0
    BY <1>2, BeginIs
  <1>3. ASSUME NEW i \in 1..Len(ops), LookUp(i) \/ Pass(i) \/ Execute(i)
                                      \/ \E hinted \in BOOLEAN : Refuse(i, hinted)
        PROVE  /\ \A j \in 1..Len(ops) : Writes(j) => ops'[j].made = ops[j].made
               /\ \A j \in 1..Len(ops') : j \in 1..Len(ops) \/ ops'[j].made = 0
    <2>1. Len(ops') = Len(ops) /\ \A j \in 1..Len(ops) : j # i => ops'[j] = ops[j]
      <3>1. \E made : Moves(i, made)
        BY <1>3, MovesAre
      <3> QED BY <3>1 DEF Moves
    <2>2. ops[i].at # "over" => ops[i].made = 0
      BY DEF ReadIInv, OpsOK
    <2>3. Writes(i) => ops[i].at \in {"asks", "over"}
      BY DEF ReadIInv, OpsOK
    <2>4. clock \in Nat
      BY OpsAre
    <2>5. Writes(i) => ops'[i].made = 0 /\ ops[i].at # "over"
      <3>1. CASE LookUp(i) \/ Pass(i)
        BY <2>3, <3>1, MovesAre
      <3>2. CASE Execute(i)
        BY <2>4, <3>2, MovesAre DEF Moves, Writes
      <3>3. CASE \E hinted \in BOOLEAN : Refuse(i, hinted)
        BY <3>3, MovesAre DEF Moves
      <3> QED BY <1>3, <3>1, <3>2, <3>3
    <2> QED BY <2>1, <2>2, <2>5
  <1>4. CASE \/ \E i \in 1..Len(ops) : Hint(i)
             \/ \E paths \in SUBSET dirty, again \in SUBSET dirty : FlushStart(paths, again)
             \/ \E f \in File : Tag(f) \/ Unsuppress(f) \/ BypassExpires(f) \/ OtherTask(f)
                                \/ \E there \in BOOLEAN : Edit(f, there)
             \/ Read \/ Push \/ ApplyDelta
             \/ UNCHANGED readVars
    BY <1>1, <1>4 DEF Hint, FlushStart, Tag, Unsuppress, BypassExpires, OtherTask, Edit, Read, Push,
                      ApplyDelta, readVars
  <1> QED BY <1>2, <1>3, <1>4, Kinds

LEMMA GoodStays ==
  ASSUME ReadIInv, ReadThroughBounds, [ReadNext]_readVars, UNCHANGED <<disk, clock>>
  PROVE  /\ \A f : \A t \in Nat : Outdated(f, t)' <=> Outdated(f, t)
         /\ \A w, f : \A t \in Nat : Good(w, f, t)' <=> Good(w, f, t)
  <1>1. /\ \A i \in 1..Len(ops) : Writes(i) => ops'[i].made = ops[i].made
        /\ \A i \in 1..Len(ops') : i \in 1..Len(ops) \/ ops'[i].made = 0
    BY MadeStays
  <1>2. OpsStay /\ Len(ops) \in Nat /\ Len(ops') \in Nat
    BY Stays, OpsAre DEF OpsStay
  <1>3. ASSUME NEW f, NEW t \in Nat PROVE Outdated(f, t)' <=> Outdated(f, t)
    <2>1. \A i \in 1..Len(ops) : /\ i \in 1..Len(ops') /\ Targets(i)' = Targets(i)
                                 /\ ops'[i].req = ops[i].req
                                 /\ (~IsRead(ops[i].req) => ops'[i].made = ops[i].made)
      BY <1>1, <1>2 DEF OpsStay, Writes
    <2>2. \A i : i \in (t + 1)..Len(ops) <=> i \in 1..Len(ops) /\ t < i
      BY <1>2
    <2>3. \A i : i \in (t + 1)..Len(ops') <=> i \in 1..Len(ops') /\ t < i
      BY <1>2
    <2>4. \A i \in 1..Len(ops') : ops'[i].made > 0 => i \in 1..Len(ops)
      BY <1>1
    <2> QED BY <2>1, <2>2, <2>3, <2>4 DEF Outdated
  <1> QED BY <1>3 DEF Good

(* The next state's part of the invariant, of each word and tag by itself.    *)
LEMMA CoveredBy ==
  ASSUME \A q \in 0..3 : \A t \in Tags(q)' : \A f \in Targets(t)' : \A r \in q..3 :
            ~(q = 3 /\ f \in flush'.todo) => \A w : w = Word(r, f)' => Good(w, f, t)'
  PROVE  Covered'
  BY DEF Covered, Good

LEMMA GoneBy ==
  ASSUME \A p \in 1..3 : \A c \in Changes(p)' : ~c.what.there =>
            \A q \in 0..(p - 1) : \A o \in 0..q : c.tag \in Tags(o)' =>
               \A f : f = c.on => ~Word(q, f)'.what.there
  PROVE  GoneBefore'
  BY DEF GoneBefore

LEMMA LastBy ==
  ASSUME \A f \in File : \A w : w = Word(3, f)' =>
            /\ w.what.there => f \in localIndex'
            /\ \/ Hot(f)'
               \/ /\ Alike(w.what, disk'[f])
                  /\ w.what.there => ~Outdated(f, w.tag)'
  PROVE  LastWord'
  BY DEF LastWord, Hot, Alike, Outdated

LEMMA HintedBy ==
  ASSUME \A g \in File : \A t : t = suppressed'[g] /\ t # NoId => \A f \in Targets(t)' : NotBefore(f, t)',
         \A t \in AllTags' : /\ \A h \in hints' : t < h
                             /\ \A f \in Targets(t)' : NotBefore(f, t)' /\ (flush'.at = f => flush'.tag >= t),
         \A h \in hints' : flush'.tag < h,
         flush'.at # None => \A t : t = flush'.tag =>
             /\ \A g \in Targets(t)' : NotBefore(g, t)'
             /\ \A g \in Targets(t)' \ {flush'.at} :
                   g \in flush'.todo \/ \E c \in flush'.found : c.on = g /\ c.tag = t
             /\ \A f : f = flush'.at /\ Outdated(f, t)' => f \in dirty'
  PROVE  Hinted'
  BY DEF Hinted, NotBefore, Targets, Outdated

(* Every word has a tag.                                                      *)
LEMMA WordTag ==
  ASSUME ReadIInv, ReadThroughBounds, NEW f
  PROVE  \A r \in {0, 1, 2, 3} : Word(r, f).tag \in Nat
  <1>1. MaxOps \in Nat /\ \A c \in batch \cup live \cup flush.found : c.tag \in Nat
    BY ChangeIs DEF ReadThroughBounds, Op, NoId
  <1>2. ChangesOK
    BY DEF ReadIInv
  <1>3. Word(0, f).tag \in Nat
    BY <1>1, <1>2, WordIs
  <1>4. Word(1, f).tag \in Nat
    BY <1>1, <1>2, <1>3, WordIs
  <1>5. Word(2, f).tag \in Nat
    BY <1>1, <1>2, <1>4, WordIs
  <1>6. Word(3, f).tag \in Nat
    BY <1>1, <1>2, <1>5, WordIs
  <1> QED BY <1>3, <1>4, <1>5, <1>6

LEMMA WordThere ==
  ASSUME ReadIInv, ReadThroughBounds, NEW f \in File
  PROVE  \A r \in {0, 1, 2, 3} : Word(r, f).what.there \in BOOLEAN
  <1>1. \A c \in batch \cup live \cup flush.found : c.what.there \in BOOLEAN
    BY ChangeIs
  <1>2. ChangesOK
    BY DEF ReadIInv
  <1>3. Word(0, f).what.there \in BOOLEAN
    BY <1>2, WordIs, FilesAre
  <1>4. Word(1, f).what.there \in BOOLEAN
    BY <1>1, <1>2, <1>3, WordIs
  <1>5. Word(2, f).what.there \in BOOLEAN
    BY <1>1, <1>2, <1>4, WordIs
  <1>6. Word(3, f).what.there \in BOOLEAN
    BY <1>1, <1>2, <1>5, WordIs
  <1> QED BY <1>3, <1>4, <1>5, <1>6

(* What is neither read nor stored.                                           *)
LEMMA QuietKeeps ==
  ASSUME ReadIInv, ReadIInv', ReadThroughBounds, [ReadNext]_readVars, Tagged, Covered, GoneBefore, LastWord,
         UNCHANGED <<store, batch, live, recent, localIndex>>, flush'.found = flush.found,
         flush'.todo = flush.todo \/ flush.found = {},
         \A f : Hot(f) => Hot(f)',
         \A t \in AllTags : \A f \in Targets(t) : \A w : Good(w, f, t) => Good(w, f, t)',
         \A f \in File : \/ Hot(f)'
                         \/ disk'[f] = disk[f] /\ \A t \in Nat : Outdated(f, t)' <=> Outdated(f, t)
  PROVE  Covered' /\ GoneBefore' /\ LastWord'
  <1>1. ChangesOK /\ ChangesOK'
    BY DEF ReadIInv
  <1>2. \A q \in {0, 1, 2, 3} : Tags(q)' = Tags(q)
    BY TagsAre
  <1>3. \A f : \A r \in {0, 1, 2, 3} : Word(r, f)' = Word(r, f)
    <2> SUFFICES ASSUME NEW f PROVE \A r \in {0, 1, 2, 3} : Word(r, f)' = Word(r, f)
      OBVIOUS
    <2>1. Word(0, f)' = Word(0, f)
      BY <1>1, WordIs, WordIsNext
    <2>2. Word(1, f)' = Word(1, f)
      BY <1>1, <2>1, WordIs, WordIsNext
    <2>3. Word(2, f)' = Word(2, f)
      BY <1>1, <2>2, WordIs, WordIsNext
    <2>4. Word(3, f)' = Word(3, f)
      BY <1>1, <2>3, WordIs, WordIsNext
    <2> QED BY <2>1, <2>2, <2>3, <2>4
  <1>4. \A t \in AllTags : Targets(t)' = Targets(t) /\ t \in Nat
    BY TagsName
  <1>5. Covered'
    <2>1. ASSUME NEW q \in 0..3, NEW t \in Tags(q)', NEW f \in Targets(t)', NEW r \in q..3,
                 ~(q = 3 /\ f \in flush'.todo)
          PROVE  Good(Word(r, f), f, t) /\ Word(r, f)' = Word(r, f) /\ t \in AllTags /\ f \in Targets(t)
      <3>1. t \in Tags(q) /\ t \in AllTags /\ r \in {0, 1, 2, 3}
        BY <1>2, <2>1, TagsAre
      <3>2. ~(q = 3 /\ f \in flush.todo)
        BY <2>1, <3>1, TagsAre
      <3> QED BY <1>3, <1>4, <3>1, <3>2 DEF Covered
    <2> QED BY <2>1, CoveredBy
  <1>6. GoneBefore'
    <2>1. ASSUME NEW p \in 1..3, NEW c \in Changes(p)', ~c.what.there, NEW q \in 0..(p - 1), NEW o \in 0..q,
                 c.tag \in Tags(o)'
          PROVE  ~Word(q, c.on).what.there /\ \A f : Word(q, f)' = Word(q, f)
      <3>1. c \in Changes(p)
        BY DEF Changes
      <3>2. c.tag \in Tags(o) /\ q \in {0, 1, 2, 3}
        BY <1>2, <2>1
      <3> QED BY <1>3, <2>1, <3>1, <3>2 DEF GoneBefore
    <2> QED BY <2>1, GoneBy
  <1>7. LastWord'
    <2> SUFFICES ASSUME NEW f \in File, NEW w, w = Word(3, f)'
                 PROVE  /\ w.what.there => f \in localIndex'
                        /\ \/ Hot(f)'
                           \/ /\ Alike(w.what, disk'[f])
                              /\ w.what.there => ~Outdated(f, w.tag)'
      BY LastBy
    <2>1. w = Word(3, f)
      BY <1>3
    <2>2. /\ w.what.there => f \in localIndex
          /\ \/ Hot(f)
             \/ /\ Alike(w.what, disk[f])
                /\ w.what.there => ~Outdated(f, w.tag)
      BY <2>1 DEF LastWord
    <2>3. w.tag \in Nat
      BY <2>1, WordTag
    <2> QED BY <2>2, <2>3
  <1> QED BY <1>5, <1>6, <1>7

(* A change is carried out: what was told of its files is outdated.           *)
LEMMA ChangeOutdates ==
  ASSUME ReadIInv, ReadThroughBounds, [ReadNext]_readVars, Tagged, NEW i \in 1..Len(ops), Execute(i),
         ~IsRead(ops[i].req), Moves(i, clock + 1), ops[i].at = "asks",
         disk' = [f \in File |-> IF f \in Targets(i) THEN Changed(ops[i].req, f) ELSE disk[f]]
  PROVE  /\ \A f : \A t \in Nat : Outdated(f, t)' <=> Outdated(f, t) \/ (f \in Targets(i) /\ t < i)
         /\ \A t \in AllTags : Targets(t) \cap Targets(i) # {} => t < i
         /\ \A t \in AllTags : \A f \in Targets(t) : \A w : Good(w, f, t) => Good(w, f, t)'
         /\ \A f \in File : f \notin Targets(i) => disk'[f] = disk[f]
  <1>0. OpsStay /\ Len(ops) \in Nat /\ clock \in Nat
    BY Stays, OpsAre
  <1>1. /\ Len(ops') = Len(ops) /\ \A j \in 1..Len(ops) : j # i => ops'[j] = ops[j]
        /\ ops'[i].req = ops[i].req /\ ops'[i].made > 0
    BY <1>0 DEF Moves
  <1>2. ASSUME NEW f, NEW t \in Nat
        PROVE  Outdated(f, t)' <=> Outdated(f, t) \/ (f \in Targets(i) /\ t < i)
    <2>1. \A j : j \in (t + 1)..Len(ops) <=> j \in 1..Len(ops) /\ t < j
      BY <1>0
    <2>2. \A j \in 1..Len(ops) : Targets(j)' = Targets(j) /\ ops'[j].req = ops[j].req
      BY <1>0 DEF OpsStay
    <2>3. Outdated(f, t)' <=> \E j \in 1..Len(ops) : /\ t < j /\ f \in Targets(j) /\ ~IsRead(ops[j].req)
                                                     /\ ops'[j].made > 0
      BY <1>1, <2>1, <2>2 DEF Outdated
    <2>4. Outdated(f, t) <=> \E j \in 1..Len(ops) : /\ t < j /\ f \in Targets(j) /\ ~IsRead(ops[j].req)
                                                    /\ ops[j].made > 0
      BY <2>1 DEF Outdated
    <2>5. ~(ops[i].made > 0)
      BY DEF ReadIInv, OpsOK
    <2> QED BY <1>1, <2>3, <2>4, <2>5
  <1>3. ASSUME NEW t \in AllTags, Targets(t) \cap Targets(i) # {} PROVE t < i
    <2>1. Writes(t) /\ ops[t].at = "over" /\ t \in 1..Len(ops)
      BY TagsName
    <2>2. Writes(i)
      BY DEF Writes
    <2>3. ~(i < t)
      BY <1>3, <2>1, <2>2 DEF ReadIInv, OpsOK
    <2>4. t # i
      BY <2>1
    <2> QED BY <1>0, <2>1, <2>3, <2>4
  <1>4. \A f \in File : f \notin Targets(i) => disk'[f] = disk[f]
    OBVIOUS
  <1>5. ASSUME NEW t \in AllTags, NEW f \in Targets(t), NEW w, Good(w, f, t) PROVE Good(w, f, t)'
    <2>1. f \in File /\ t \in Nat
      BY TagsName
    <2>2. CASE f \in Targets(i)
      <3>1. Outdated(f, t)'
        BY <1>2, <1>3, <2>1, <2>2
      <3> QED BY <1>5, <3>1 DEF Good
    <2>3. CASE f \notin Targets(i)
      BY <1>2, <1>4, <1>5, <2>1, <2>3 DEF Good
    <2> QED BY <2>2, <2>3
  <1> QED BY <1>2, <1>3, <1>4, <1>5

(* The queue becomes a delta.                                                 *)
LEMMA PushKeeps ==
  ASSUME ReadIInv, ReadIInv', ReadThroughBounds, [ReadNext]_readVars, Tagged, Covered, GoneBefore, LastWord, Push
  PROVE  Covered' /\ GoneBefore' /\ LastWord'
  <1>0. /\ batch = {} /\ batch' = live /\ live' = {}
        /\ UNCHANGED <<disk, clock, dirty, localIndex, flush, store, recent, ops>>
    BY DEF Push, watcher, manager
  <1>1. ChangesOK /\ ChangesOK'
    BY DEF ReadIInv
  <1>2. /\ Tags(0)' = Tags(0) /\ Tags(1)' = Tags(2) /\ Tags(2)' = {} /\ Tags(3)' = Tags(3)
    <2>1. Tags(0)' = Tags(0) /\ Tags(3)' = Tags(3)
      BY <1>0 DEF Tags, Changes
    <2>2. Tags(1)' = Tags(2) /\ Tags(2)' = {}
      BY <1>0 DEF Tags, Changes
    <2> QED BY <2>1, <2>2
  <1>3. ASSUME NEW f
        PROVE  /\ Word(0, f)' = Word(0, f) /\ Word(1, f)' = Word(2, f) /\ Word(2, f)' = Word(2, f)
               /\ Word(3, f)' = Word(3, f)
    <2>1. Word(0, f)' = Word(0, f)
      BY <1>0, <1>1, WordIs, WordIsNext
    <2>2. Word(1, f)' = Word(2, f)
      <3>1. Word(1, f) = Word(0, f)
        BY <1>0, <1>1, WordIs
      <3>2. (\A c \in live : c.on # f) => Word(2, f) = Word(0, f) /\ Word(1, f)' = Word(0, f)'
        BY <1>0, <1>1, <3>1, WordIs, WordIsNext
      <3>3. \A c \in live : c.on = f => Word(2, f) = c /\ Word(1, f)' = c
        BY <1>0, <1>1, WordIs, WordIsNext
      <3> QED BY <2>1, <3>2, <3>3
    <2>3. Word(2, f)' = Word(1, f)'
      BY <1>0, <1>1, WordIsNext
    <2>4. (\A c \in flush.found : c.on # f) => Word(3, f) = Word(2, f) /\ Word(3, f)' = Word(2, f)'
      BY <1>0, <1>1, WordIs, WordIsNext
    <2>5. \A c \in flush.found : c.on = f => Word(3, f) = c /\ Word(3, f)' = c
      BY <1>0, <1>1, WordIs, WordIsNext
    <2> QED BY <2>1, <2>2, <2>3, <2>4, <2>5
  <1>4. \A t \in AllTags : Targets(t)' = Targets(t) /\ t \in Nat
    BY TagsName
  <1>5. \A f : \A t \in Nat : (Outdated(f, t)' <=> Outdated(f, t)) /\ \A w : Good(w, f, t)' <=> Good(w, f, t)
    BY <1>0, GoodStays
  <1>6. Covered'
    <2>1. ASSUME NEW q \in 0..3, NEW t \in Tags(q)', NEW f \in Targets(t)', NEW r \in q..3,
                 ~(q = 3 /\ f \in flush'.todo)
          PROVE  \A w : w = Word(r, f)' => Good(w, f, t) /\ t \in Nat
      <3>1. q \in {0, 1, 3} /\ r \in {0, 1, 2, 3}
        BY <1>2, TagsAre
      <3>2. t \in AllTags
        BY <1>2, <3>1, TagsAre
      <3>3. f \in Targets(t) /\ t \in Nat
        BY <1>4, <3>2
      <3>4. CASE q = 0
        BY <1>2, <1>3, <3>1, <3>3, <3>4 DEF Covered
      <3>5. CASE q = 1
        BY <1>2, <1>3, <3>1, <3>3, <3>5 DEF Covered
      <3>6. CASE q = 3
        BY <1>0, <1>2, <1>3, <2>1, <3>1, <3>3, <3>6 DEF Covered
      <3> QED BY <3>1, <3>4, <3>5, <3>6
    <2> QED BY <1>5, <2>1, CoveredBy
  <1>7. GoneBefore'
    <2>1. ASSUME NEW p \in 1..3, NEW c \in Changes(p)', ~c.what.there, NEW q \in 0..(p - 1), NEW o \in 0..q,
                 c.tag \in Tags(o)'
          PROVE  ~Word(q, c.on)'.what.there
      <3>1. p \in {1, 3} /\ (p = 1 => c \in Changes(2)) /\ (p = 3 => c \in Changes(3))
        BY <1>0, <2>1, TagsAre
      <3>2. CASE p = 1
        <4>1. q = 0 /\ o = 0 /\ c.tag \in Tags(0)
          BY <1>2, <2>1, <3>2
        <4>2. ~Word(0, c.on).what.there
          BY <2>1, <3>1, <3>2, <4>1 DEF GoneBefore
        <4> QED BY <1>3, <4>1, <4>2
      <3>3. CASE p = 3
        <4>1. q \in {0, 1, 2} /\ o \in {0, 1, 2}
          BY <2>1, <3>3
        <4>2. CASE q = 0
          <5>1. o = 0 /\ c.tag \in Tags(0)
            BY <1>2, <2>1, <4>2
          <5>2. ~Word(0, c.on).what.there
            BY <2>1, <3>1, <3>3, <5>1 DEF GoneBefore
          <5> QED BY <1>3, <4>2, <5>2
        <4>3. CASE q \in {1, 2}
          <5>1. c.tag \in Tags(0) \/ c.tag \in Tags(2)
            BY <1>2, <2>1, <4>1
          <5>2. ~Word(2, c.on).what.there
            BY <2>1, <3>1, <3>3, <5>1 DEF GoneBefore
          <5> QED BY <1>3, <4>3, <5>2
        <4> QED BY <4>1, <4>2, <4>3
      <3> QED BY <3>1, <3>2, <3>3
    <2> QED BY <2>1, GoneBy
  <1>8. LastWord'
    <2> SUFFICES ASSUME NEW f \in File, NEW w, w = Word(3, f)'
                 PROVE  /\ w.what.there => f \in localIndex'
                        /\ \/ Hot(f)'
                           \/ /\ Alike(w.what, disk'[f])
                              /\ w.what.there => ~Outdated(f, w.tag)'
      BY LastBy
    <2>1. w = Word(3, f)
      BY <1>3
    <2>2. w.tag \in Nat
      BY <2>1, WordTag
    <2> QED BY <1>0, <1>5, <2>1, <2>2 DEF LastWord, Hot
  <1> QED BY <1>6, <1>7, <1>8

(* The delta is stored: of a file it is what was told in it, or that was      *)
(* known before.                                                              *)
LEMMA ApplyWords ==
  ASSUME ReadIInv, ReadIInv', ReadThroughBounds, [ReadNext]_readVars, Tagged, Covered, GoneBefore, ApplyDelta,
         NEW f \in File
  PROVE  /\ Word(1, f)' = Word(0, f)'
         /\ \A r \in {2, 3} : \/ Word(r, f)' = Word(r, f)
                              \/ Word(r, f) = Word(1, f) /\ Word(r, f)' = Word(0, f)'
         /\ Word(0, f)'.what.there => Word(1, f).what.there
         /\ \A t \in Op : Good(Word(1, f), f, t) => \A w : w = Word(0, f)' => Good(w, f, t)
         /\ Word(0, f)'.tag = MaxOps
         /\ \/ Alike(Word(0, f)'.what, Word(1, f).what)
            \/ /\ Word(1, f) \in batch /\ Word(1, f).on = f /\ Word(1, f).tag \in Tags(0)
               /\ Word(0, f)' = Word(0, f)
  <1>0. /\ batch' = {} /\ UNCHANGED <<disk, clock, dirty, localIndex, flush, live, ops>>
    BY DEF ApplyDelta, watcher
  <1>1. ChangesOK /\ ChangesOK'
    BY DEF ReadIInv
  <1>2. Word(1, f)' = Word(0, f)'
    BY <1>0, <1>1, WordIsNext
  <1>3. /\ Word(0, f) = [on |-> f, what |-> store[f], tag |-> MaxOps]
        /\ Word(0, f)' = [on |-> f, what |-> store'[f], tag |-> MaxOps]
    BY <1>1, WordIs, WordIsNext
  <1>4. \/ Word(2, f)' = Word(2, f)
        \/ Word(2, f) = Word(1, f) /\ Word(2, f)' = Word(0, f)'
    <2>1. (\A c \in live : c.on # f) => Word(2, f) = Word(1, f) /\ Word(2, f)' = Word(1, f)'
      BY <1>0, <1>1, WordIs, WordIsNext
    <2>2. \A c \in live : c.on = f => Word(2, f) = c /\ Word(2, f)' = c
      BY <1>0, <1>1, WordIs, WordIsNext
    <2> QED BY <1>2, <2>1, <2>2
  <1>5. \/ Word(3, f)' = Word(3, f)
        \/ Word(3, f) = Word(1, f) /\ Word(3, f)' = Word(0, f)'
    <2>1. (\A c \in flush.found : c.on # f) => Word(3, f) = Word(2, f) /\ Word(3, f)' = Word(2, f)'
      BY <1>0, <1>1, WordIs, WordIsNext
    <2>2. \A c \in flush.found : c.on = f => Word(3, f) = c /\ Word(3, f)' = c
      BY <1>0, <1>1, WordIs, WordIsNext
    <2> QED BY <1>4, <2>1, <2>2
  <1>6. \/ Word(0, f)'.what = Word(1, f).what
        \/ /\ Word(1, f) \in batch /\ Word(1, f).on = f /\ Word(1, f).tag \in Tags(0)
           /\ Word(0, f)' = Word(0, f)
    <2>1. CASE \E c \in Fresh(batch) : c.on = f
      <3>1. PICK c \in Fresh(batch) : c.on = f
        BY <2>1
      <3>2. c \in batch /\ store'[f] = c.what
        BY <3>1, ApplyIs
      <3>3. Word(1, f) = c
        BY <1>1, <3>1, <3>2, WordIs
      <3> QED BY <1>3, <3>2, <3>3
    <2>2. CASE \A c \in Fresh(batch) : c.on # f
      <3>1. store'[f] = store[f]
        BY <2>2, ApplyIs
      <3>2. CASE \E c \in batch : c.on = f
        <4>1. PICK c \in batch : c.on = f
          BY <3>2
        <4>2. c.tag \in Range(recent) /\ Word(1, f) = c
          BY <1>1, <2>2, <4>1, WordIs DEF Fresh
        <4> QED BY <1>3, <3>1, <4>1, <4>2, TagsAre
      <3>3. CASE \A c \in batch : c.on # f
        <4>1. Word(1, f) = Word(0, f)
          BY <1>1, <3>3, WordIs
        <4> QED BY <1>3, <3>1, <4>1
      <3> QED BY <3>2, <3>3
    <2> QED BY <2>1, <2>2
  <1>7. ASSUME Word(1, f) \in batch, Word(1, f).on = f, Word(1, f).tag \in Tags(0)
        PROVE  /\ Word(0, f).what.there => Word(1, f).what.there
               /\ Good(Word(0, f), f, Word(1, f).tag)
               /\ Word(1, f).tag \in 1..Len(ops)
    <2>1. ~Word(1, f).what.there => ~Word(0, f).what.there
      <3>1. PICK c : c = Word(1, f)
        OBVIOUS
      <3>2. c \in Changes(1) /\ c.on = f /\ c.tag \in Tags(0)
        BY <1>7, <3>1, TagsAre
      <3>3. ~c.what.there => ~Word(0, c.on).what.there
        BY <3>2 DEF GoneBefore
      <3> QED BY <3>1, <3>2, <3>3
    <2>2. f \in Targets(Word(1, f).tag) /\ Word(1, f).tag \in 1..Len(ops)
      <3>1. \A c \in batch \cup live \cup flush.found :
               c.tag \in 1..Len(ops) /\ c.on \in Targets(c.tag)
        BY TagsName
      <3> QED BY <1>7, <3>1
    <2>3. Good(Word(0, f), f, Word(1, f).tag)
      BY <1>7, <2>2 DEF Covered
    <2> QED BY <2>1, <2>2, <2>3
  <1>8. Word(0, f)'.what.there => Word(1, f).what.there
    BY <1>6, <1>7
  <1>9. ASSUME NEW t \in Op, Good(Word(1, f), f, t), NEW w, w = Word(0, f)' PROVE Good(w, f, t)
    <2>1. w.tag = MaxOps /\ w.tag >= t
      BY <1>3, <1>9, ReadThroughBounds DEF ReadThroughBounds, Op
    <2>2. CASE w.what = Word(1, f).what
      BY <1>9, <2>1, <2>2 DEF Good
    <2>3. CASE /\ Word(1, f) \in batch /\ Word(1, f).on = f /\ Word(1, f).tag \in Tags(0)
               /\ w = Word(0, f)
      <3> SUFFICES ASSUME ~Outdated(f, t) PROVE Alike(w.what, disk[f])
        BY <2>1 DEF Good
      <3>1. Alike(Word(1, f).what, disk[f])
        BY <1>9 DEF Good
      <3>2. CASE ~Word(1, f).what.there
        <4>1. ~w.what.there
          BY <1>7, <2>3, <3>2
        <4>2. ~disk[f].there /\ disk[f].there \in BOOLEAN /\ w.what.there \in BOOLEAN
          BY <1>3, <2>3, <3>1, <3>2, FilesAre DEF Alike
        <4> QED BY <4>1, <4>2 DEF Alike
      <3>3. CASE Word(1, f).what.there
        <4>1. Word(1, f).tag >= t
          BY <1>9, <3>3 DEF Good
        <4>2. PICK u \in 1..Len(ops) : u = Word(1, f).tag
          BY <1>7, <2>3
        <4>3. ~Outdated(f, u)
          <5>1. Len(ops) \in Nat /\ t \in Nat /\ t <= u
            BY <4>1, <4>2, OpsAre DEF Op
          <5>2. (u + 1)..Len(ops) \subseteq (t + 1)..Len(ops)
            BY <5>1
          <5> QED BY <5>2 DEF Outdated
        <4>4. Good(w, f, u)
          BY <1>7, <2>3, <4>2
        <4> QED BY <4>3, <4>4 DEF Good
      <3> QED BY <3>2, <3>3
    <2> QED BY <1>6, <1>9, <2>2, <2>3
  <1> QED BY <1>2, <1>3, <1>4, <1>5, <1>6, <1>8, <1>9 DEF Alike

LEMMA ApplyKeeps ==
  ASSUME ReadIInv, ReadIInv', ReadThroughBounds, [ReadNext]_readVars, Tagged, Covered, GoneBefore, LastWord, ApplyDelta
  PROVE  Covered' /\ GoneBefore' /\ LastWord'
  <1>0. /\ batch' = {} /\ UNCHANGED <<disk, clock, dirty, localIndex, flush, live, ops>>
    BY DEF ApplyDelta, watcher
  <1>2. /\ Tags(0)' \subseteq Tags(0) \cup Tags(1) /\ Tags(1)' = {} /\ Tags(2)' = Tags(2) /\ Tags(3)' = Tags(3)
    <2>1. Tags(0)' \subseteq Tags(0) \cup Tags(1)
      BY RecentIs DEF Tags, Changes
    <2>2. Tags(1)' = {} /\ Tags(2)' = Tags(2) /\ Tags(3)' = Tags(3)
      BY <1>0 DEF Tags, Changes
    <2> QED BY <2>1, <2>2
  <1>3. \A t \in AllTags : Targets(t)' = Targets(t) /\ Targets(t) \subseteq File /\ t \in Nat /\ t \in Op
    BY TagsName
  <1>4. \A f : \A t \in Nat : (Outdated(f, t)' <=> Outdated(f, t)) /\ \A w : Good(w, f, t)' <=> Good(w, f, t)
    BY <1>0, GoodStays
  <1>5. Covered'
    <2>1. ASSUME NEW q \in 0..3, NEW t \in Tags(q)', NEW f \in Targets(t)', NEW r \in q..3,
                 ~(q = 3 /\ f \in flush'.todo)
          PROVE  \A w : w = Word(r, f)' => Good(w, f, t) /\ t \in Nat
      <3>1. q \in {0, 2, 3} /\ r \in {0, 1, 2, 3} /\ q <= r
        BY <1>2, TagsAre
      <3>2. t \in AllTags
        BY <1>2, <3>1, TagsAre
      <3>3. f \in Targets(t) /\ f \in File /\ t \in Nat /\ t \in Op
        BY <1>3, <3>2
      <3>4. PICK o \in {0, 1, 2, 3} : /\ t \in Tags(o) /\ (q = 0 => o \in {0, 1})
                                      /\ (q = 2 => o = 2) /\ (q = 3 => o = 3)
        BY <1>2, <3>1
      <3>5. ASSUME NEW s \in {1, 2, 3}, o <= s PROVE Good(Word(s, f), f, t)
        <4>1. o \in 0..3 /\ s \in o..3 /\ ~(o = 3 /\ f \in flush.todo)
          BY <1>0, <2>1, <3>1, <3>4, <3>5
        <4> QED BY <3>3, <3>4, <4>1 DEF Covered
      <3>6. CASE r \in {0, 1}
        <4>1. o <= 1
          BY <3>1, <3>4, <3>6
        <4>2. Good(Word(1, f), f, t)
          BY <3>5, <4>1
        <4>3. \A w : w = Word(0, f)' => Good(w, f, t)
          BY <3>3, <4>2, ApplyWords
        <4>4. Word(1, f)' = Word(0, f)'
          BY <3>3, ApplyWords
        <4> QED BY <3>3, <3>6, <4>3, <4>4
      <3>7. CASE r \in {2, 3}
        <4>1. o <= r
          BY <3>1, <3>4, <3>7
        <4>2. Good(Word(r, f), f, t)
          BY <3>5, <3>7, <4>1
        <4>3. CASE Word(r, f)' = Word(r, f)
          BY <3>3, <4>2, <4>3
        <4>4. CASE Word(r, f) = Word(1, f) /\ Word(r, f)' = Word(0, f)'
          <5>1. Good(Word(1, f), f, t)
            BY <4>2, <4>4
          <5>2. \A w : w = Word(0, f)' => Good(w, f, t)
            BY <3>3, <5>1, ApplyWords
          <5> QED BY <3>3, <4>4, <5>2
        <4> QED BY <3>3, <3>7, <4>3, <4>4, ApplyWords
      <3> QED BY <3>1, <3>6, <3>7
    <2> QED BY <1>4, <2>1, CoveredBy
  <1>6. GoneBefore'
    <2>1. ASSUME NEW p \in 1..3, NEW c \in Changes(p)', ~c.what.there, NEW q \in 0..(p - 1), NEW o \in 0..q,
                 c.tag \in Tags(o)'
          PROVE  ~Word(q, c.on)'.what.there
      <3>1. p \in {2, 3} /\ c \in Changes(p)
        BY <1>0, <2>1, TagsAre DEF Changes
      <3>2. q \in {0, 1, 2} /\ o \in {0, 2} /\ o <= q /\ q < p
        BY <1>2, <2>1, <3>1
      <3>3. \E u \in {0, 1, 2} : c.tag \in Tags(u) /\ (o = 0 => u \in {0, 1}) /\ (o = 2 => u = 2)
        BY <1>2, <2>1, <3>2
      <3>4. c.on \in File
        <4>1. c \in batch \cup live \cup flush.found
          BY <3>1 DEF Changes
        <4> QED BY <4>1, ChangeIs
      <3>5. CASE q \in {0, 1}
        <4>1. c.tag \in Tags(0) \/ c.tag \in Tags(1)
          BY <3>2, <3>3, <3>5
        <4>2. ~Word(1, c.on).what.there
          BY <2>1, <3>1, <4>1 DEF GoneBefore
        <4>3. ~Word(0, c.on)'.what.there /\ Word(1, c.on)' = Word(0, c.on)'
          BY <3>4, <4>2, ApplyWords
        <4> QED BY <3>5, <4>3
      <3>6. CASE q = 2
        <4>1. p = 3
          BY <3>1, <3>2, <3>6
        <4>2. ~Word(2, c.on).what.there
          BY <2>1, <3>1, <3>3, <4>1 DEF GoneBefore
        <4>3. CASE Word(2, c.on)' = Word(2, c.on)
          BY <3>6, <4>2, <4>3
        <4>4. CASE Word(2, c.on) = Word(1, c.on) /\ Word(2, c.on)' = Word(0, c.on)'
          <5>1. ~Word(0, c.on)'.what.there
            BY <3>4, <4>2, <4>4, ApplyWords
          <5> QED BY <3>6, <4>4, <5>1
        <4> QED BY <3>4, <4>3, <4>4, ApplyWords
      <3> QED BY <3>2, <3>5, <3>6
    <2> QED BY <2>1, GoneBy
  <1>7. LastWord'
    <2> SUFFICES ASSUME NEW f \in File, NEW w, w = Word(3, f)'
                 PROVE  /\ w.what.there => f \in localIndex'
                        /\ \/ Hot(f)'
                           \/ /\ Alike(w.what, disk'[f])
                              /\ w.what.there => ~Outdated(f, w.tag)'
      BY LastBy
    <2>1. Hot(f)' <=> Hot(f)
      BY <1>0 DEF Hot
    <2>2. /\ Word(3, f).what.there => f \in localIndex
          /\ \/ Hot(f)
             \/ /\ Alike(Word(3, f).what, disk[f])
                /\ Word(3, f).what.there => ~Outdated(f, Word(3, f).tag)
      BY DEF LastWord
    <2>3. CASE w = Word(3, f)
      <3>1. w.tag \in Nat
        BY <2>3, WordTag
      <3> QED BY <1>0, <1>4, <2>1, <2>2, <2>3, <3>1
    <2>4. CASE Word(3, f) = Word(1, f) /\ w = Word(0, f)'
      <3>1. w.what.there => Word(1, f).what.there
        BY <2>4, ApplyWords
      <3>2. w.tag = MaxOps /\ MaxOps \in Nat
        BY <2>4, ApplyWords, ReadThroughBounds DEF ReadThroughBounds
      <3>3. ~Outdated(f, w.tag)'
        <4>1. Len(ops) \in 0..MaxOps
          BY OpsAre
        <4>2. (MaxOps + 1)..Len(ops) = {}
          BY <3>2, <4>1
        <4> QED BY <1>4, <3>2, <4>2 DEF Outdated
      <3>4. Alike(Word(1, f).what, disk[f]) /\ (Word(1, f).what.there => ~Outdated(f, Word(1, f).tag))
            => Alike(w.what, disk[f])
        <4> SUFFICES ASSUME Alike(Word(1, f).what, disk[f]),
                            Word(1, f).what.there => ~Outdated(f, Word(1, f).tag)
                     PROVE  Alike(w.what, disk[f])
          OBVIOUS
        <4>1. CASE Alike(w.what, Word(1, f).what)
          BY <4>1 DEF Alike
        <4>2. CASE /\ Word(1, f) \in batch /\ Word(1, f).on = f /\ Word(1, f).tag \in Tags(0)
                   /\ w = Word(0, f)
          <5>1. PICK t : t = Word(1, f).tag
            OBVIOUS
          <5>2. f \in Targets(t) /\ t \in Op
            <6>1. \A c \in batch \cup live \cup flush.found : c.tag \in AllTags /\ c.on \in Targets(c.tag)
              BY TagsName
            <6> QED BY <1>3, <4>2, <5>1, <6>1
          <5>3. Good(w, f, t)
            BY <4>2, <5>1, <5>2 DEF Covered
          <5>4. CASE Word(1, f).what.there
            BY <5>1, <5>3, <5>4 DEF Good
          <5>5. CASE ~Word(1, f).what.there
            <6>1. ~w.what.there
              BY <3>1, <5>5
            <6>2. disk[f].there \in BOOLEAN /\ w.what.there \in BOOLEAN
              <7>1. w.what = store[f]
                BY <4>2, WordIs DEF ReadIInv
              <7> QED BY <7>1, FilesAre
            <6> QED BY <5>5, <6>1, <6>2 DEF Alike
          <5> QED BY <5>4, <5>5
        <4> QED BY <2>4, <4>1, <4>2, ApplyWords
      <3> QED BY <1>0, <2>1, <2>2, <2>4, <3>1, <3>3, <3>4
    <2> QED BY <2>3, <2>4, ApplyWords
  <1> QED BY <1>5, <1>6, <1>7

(* What a flush tells of a file after a reading.                              *)
LEMMA ReadWords ==
  ASSUME ReadIInv, ReadIInv', ReadThroughBounds, [ReadNext]_readVars, Tagged, LastWord, Read, NEW f
  PROVE  /\ Word(0, f)' = Word(0, f) /\ Word(1, f)' = Word(1, f)
         /\ ReadTodo # {} => Word(2, f)' = Word(2, f)
         /\ ReadTodo = {} => Word(2, f)' = Word(3, f)'
         /\ f # flush.at \/ ~Reports => Word(3, f)' = Word(3, f)
         /\ f = flush.at /\ Reports => Word(3, f)' = ReadChange
         /\ f = flush.at /\ ~Reports => ~Word(3, f).what.there /\ ~disk[f].there
  <1>1. ChangesOK /\ ChangesOK'
    BY DEF ReadIInv
  <1>2. /\ UNCHANGED <<disk, batch, store>> /\ flush.at \in flush.todo /\ flush.at \in File
        /\ OnePerFile(ReadFound)
        /\ ReadTodo = {} => flush' = Idle /\ live' = Merged(live, ReadFound)
        /\ ReadTodo # {} => flush'.found = ReadFound /\ live' = live
    BY ReadIs DEF manager
  <1>3. Word(0, f)' = Word(0, f)
    BY <1>1, <1>2, WordIs, WordIsNext
  <1>4. Word(1, f)' = Word(1, f)
    BY <1>1, <1>2, <1>3, WordIs, WordIsNext
  <1>5. ReadTodo # {} => Word(2, f)' = Word(2, f)
    BY <1>1, <1>2, <1>4, WordIs, WordIsNext
  <1>6. /\ \A c \in ReadFound : c.on = f => Word(3, f)' = c
        /\ (\A c \in ReadFound : c.on # f) => Word(3, f)' = Word(2, f)
    <2>1. CASE ReadTodo # {}
      BY <1>1, <1>2, <1>5, <2>1, WordIsNext
    <2>2. CASE ReadTodo = {}
      <3>1. flush'.found = {} /\ live' = Merged(live, ReadFound)
        BY <1>2, <2>2, FlushIs
      <3>2. Word(3, f)' = Word(2, f)'
        BY <1>1, <3>1, WordIsNext
      <3>3. \A c \in ReadFound : c.on = f => Word(2, f)' = c
        BY <1>1, <3>1, MergedIs, WordIsNext
      <3>4. ASSUME \A c \in ReadFound : c.on # f PROVE Word(2, f)' = Word(2, f)
        <4>1. CASE \E c \in live : c.on = f
          <5>1. PICK c \in live : c.on = f
            BY <4>1
          <5>2. c \in live'
            BY <3>1, <3>4, <5>1, MergedIs
          <5> QED BY <1>1, <5>1, <5>2, WordIs, WordIsNext
        <4>2. CASE \A c \in live : c.on # f
          <5>1. \A c \in live' : c.on # f
            BY <3>1, <3>4, <4>2, MergedIs
          <5> QED BY <1>1, <1>4, <4>2, <5>1, WordIs, WordIsNext
        <4> QED BY <4>1, <4>2
      <3> QED BY <3>2, <3>3, <3>4
    <2> QED BY <2>1, <2>2
  <1>7. ReadTodo = {} => Word(2, f)' = Word(3, f)'
    <2> SUFFICES ASSUME ReadTodo = {} PROVE Word(2, f)' = Word(3, f)'
      OBVIOUS
    <2>1. flush'.found = {}
      BY <1>2, FlushIs
    <2> QED BY <1>1, <2>1, WordIsNext
  <1>8. \A c \in flush.found : c.on # flush.at
    BY <1>2 DEF ReadIInv, ChangesOK
  <1>9. f # flush.at \/ ~Reports => Word(3, f)' = Word(3, f)
    <2> SUFFICES ASSUME f # flush.at \/ ~Reports PROVE Word(3, f)' = Word(3, f)
      OBVIOUS
    <2>1. \A c \in ReadFound : c.on = f => c \in flush.found
      BY DEF ReadFound, ReadChange
    <2>2. flush.found \subseteq ReadFound
      BY DEF ReadFound
    <2>3. CASE \E c \in flush.found : c.on = f
      BY <1>1, <1>6, <2>2, <2>3, WordIs
    <2>4. CASE \A c \in flush.found : c.on # f
      BY <1>1, <1>6, <2>1, <2>4, WordIs
    <2> QED BY <2>3, <2>4
  <1>a. f = flush.at /\ Reports => Word(3, f)' = ReadChange
    <2>1. Reports => ReadChange \in ReadFound
      BY DEF ReadFound
    <2>2. ReadChange.on = flush.at
      BY DEF ReadChange
    <2> QED BY <1>6, <2>1, <2>2
  <1>b. f = flush.at /\ ~Reports => ~Word(3, f).what.there /\ ~disk[f].there
    BY <1>2 DEF Reports, LastWord
  <1> QED BY <1>3, <1>4, <1>5, <1>7, <1>9, <1>a, <1>b

(* The last word on a file covers every tag of a change of it, its own        *)
(* included, unless the file is yet to be read.                               *)
LEMMA ReadGood ==
  ASSUME ReadIInv, ReadIInv', ReadThroughBounds, [ReadNext]_readVars, Tagged, Hinted, Covered, LastWord, Read,
         NEW q \in {0, 1, 2, 3}, NEW t, t \in Tags(q) \/ (q = 3 /\ Reports /\ t = flush.tag),
         NEW g \in Targets(t), ~(q = 3 /\ g \in ReadTodo)
  PROVE  \A w : w = Word(3, g)' => Good(w, g, t)
  <1>0. /\ flush.at # None /\ flush.at \in flush.todo /\ flush.at \in File
        /\ ReadChange = [on |-> flush.at, what |-> disk[flush.at], tag |-> flush.tag]
    BY ReadIs DEF Read, ReadChange
  <1>1. t \in AllTags \/ t = flush.tag
    BY TagsAre
  <1>2. t \in Nat /\ t \in Op /\ Targets(t) \subseteq File
    BY <1>0, <1>1, TagsName DEF Op
  <1>3. CASE g = flush.at /\ Reports
    <2>1. flush.tag >= t
      <3>1. t \in AllTags => flush.tag >= t
        BY <1>3 DEF Hinted
      <3> QED BY <1>1, <1>2, <3>1
    <2>2. Word(3, g)' = ReadChange
      BY <1>3, ReadWords
    <2> QED BY <1>0, <1>3, <2>1, <2>2 DEF Good, Alike
  <1>4. CASE g = flush.at /\ ~Reports
    <2>1. ~Word(3, g).what.there /\ ~disk[g].there /\ Word(3, g)' = Word(3, g)
      BY <1>4, ReadWords
    <2>2. disk[g].there \in BOOLEAN /\ Word(3, g).what.there \in BOOLEAN
      BY <1>0, <1>4, FilesAre, WordThere
    <2> QED BY <2>1, <2>2 DEF Good, Alike
  <1>5. CASE g # flush.at
    <2>1. Word(3, g)' = Word(3, g)
      BY <1>5, ReadWords
    <2>2. CASE t \in Tags(q)
      <3>1. ~(q = 3 /\ g \in flush.todo)
        BY <1>5 DEF ReadTodo
      <3>2. q \in 0..3 /\ 3 \in q..3
        OBVIOUS
      <3>3. Good(Word(3, g), g, t)
        BY <2>2, <3>1, <3>2 DEF Covered
      <3> QED BY <2>1, <3>3
    <2>3. CASE q = 3 /\ Reports /\ t = flush.tag
      <3>1. g \notin flush.todo
        BY <1>5, <2>3 DEF ReadTodo
      <3>2. PICK c \in flush.found : c.on = g /\ c.tag = flush.tag
        BY <1>0, <1>5, <2>3, <3>1 DEF Hinted
      <3>3. t \in Tags(3)
        BY <2>3, <3>2, TagsAre
      <3>4. Good(Word(3, g), g, t)
        BY <3>1, <3>3 DEF Covered
      <3> QED BY <2>1, <3>4
    <2> QED BY <2>2, <2>3
  <1> QED BY <1>3, <1>4, <1>5

LEMMA ReadKeeps ==
  ASSUME ReadIInv, ReadIInv', ReadThroughBounds, [ReadNext]_readVars, Tagged, Hinted, Covered, GoneBefore, LastWord,
         Read, Untroubled'
  PROVE  Covered' /\ GoneBefore' /\ LastWord'
  <1>0. /\ flush.at # None /\ flush.at \in flush.todo /\ flush.at \in File
        /\ ReadChange = [on |-> flush.at, what |-> disk[flush.at], tag |-> flush.tag]
        /\ UNCHANGED <<disk, clock, dirty, batch, recent, store, ops>>
        /\ localIndex' = IF disk[flush.at].there THEN localIndex \cup {flush.at} ELSE localIndex \ {flush.at}
        /\ ReadTodo = {} => flush' = Idle /\ live' = Merged(live, ReadFound)
        /\ ReadTodo # {} => flush'.todo = ReadTodo /\ flush'.found = ReadFound /\ live' = live
    BY ReadIs DEF Read, ReadChange, manager
  <1>1. ~disk[flush.at].there => ~Outdated(flush.at, flush.tag)
    <2>1. ~disk[flush.at].there /\ Outdated(flush.at, flush.tag) => "late tag" \in mishap'
      BY DEF Read, Note
    <2> QED BY <2>1 DEF Untroubled
  <1>2. /\ \A t : Targets(t)' = Targets(t)
        /\ \A t \in AllTags : t \in Nat
        /\ flush.tag \in Nat /\ flush.tag # NoId /\ flush.at \in Targets(flush.tag)
    <2>1. \A t : Targets(t)' = Targets(t)
      BY <1>0 DEF Targets
    <2> QED BY <1>0, <2>1, TagsName DEF NoId
  <1>3. \A f : \A t \in Nat : (Outdated(f, t)' <=> Outdated(f, t)) /\ \A w : Good(w, f, t)' <=> Good(w, f, t)
    BY <1>0, GoodStays
  <1>4. /\ Tags(0)' = Tags(0) /\ Tags(1)' = Tags(1)
        /\ ReadTodo # {} => /\ Tags(2)' = Tags(2)
                            /\ \A t \in Tags(3)' : t \in Tags(3) \/ (Reports /\ t = flush.tag)
        /\ ReadTodo = {} => /\ Tags(3)' = {}
                            /\ \A t \in Tags(2)' : t \in Tags(2) \/ t \in Tags(3) \/ (Reports /\ t = flush.tag)
    <2>1. Tags(0)' = Tags(0) /\ Tags(1)' = Tags(1)
      BY <1>0 DEF Tags, Changes
    <2>2. \A c \in ReadFound : c.tag \in Tags(3) \/ (Reports /\ c.tag = flush.tag)
      BY <1>0 DEF ReadFound, Tags, Changes
    <2>3. ReadTodo # {} => Tags(2)' = Tags(2) /\ \A t \in Tags(3)' : t \in Tags(3) \/ (Reports /\ t = flush.tag)
      BY <1>0, <2>2 DEF Tags, Changes
    <2>4. ASSUME ReadTodo = {}
          PROVE  /\ Tags(3)' = {}
                 /\ \A t \in Tags(2)' : t \in Tags(2) \/ t \in Tags(3) \/ (Reports /\ t = flush.tag)
      <3>1. flush'.found = {} /\ live' \subseteq live \cup ReadFound
        BY <1>0, <2>4, FlushIs, MergedIs
      <3> QED BY <2>2, <3>1 DEF Tags, Changes
    <2> QED BY <2>1, <2>3, <2>4
  <1>5. Covered'
    <2>1. ASSUME NEW q \in 0..3, NEW t \in Tags(q)', NEW f \in Targets(t)', NEW r \in q..3,
                 ~(q = 3 /\ f \in flush'.todo)
          PROVE  \A w : w = Word(r, f)' => Good(w, f, t) /\ t \in Nat
      <3>1. q \in {0, 1, 2, 3} /\ r \in {0, 1, 2, 3} /\ q <= r /\ f \in Targets(t)
        BY <1>2
      <3>2. PICK o \in {0, 1, 2, 3} : /\ t \in Tags(o) \/ (o = 3 /\ Reports /\ t = flush.tag)
                                      /\ o = q \/ (q = 2 /\ o = 3 /\ ReadTodo = {})
        BY <1>4, <3>1
      <3>3. t \in Nat
        <4>1. t \in AllTags \/ t = flush.tag
          BY <3>2, TagsAre
        <4> QED BY <1>2, <4>1
      <3>4. ASSUME ~(o = 3 /\ f \in ReadTodo) PROVE \A w : w = Word(3, f)' => Good(w, f, t)
        BY <3>1, <3>2, <3>4, ReadGood
      <3>5. ~(o = 3 /\ f \in ReadTodo)
        BY <1>0, <2>1, <3>2
      <3>6. CASE r = 3
        BY <3>3, <3>4, <3>5, <3>6
      <3>7. CASE r = 2 /\ ReadTodo = {}
        <4>1. Word(2, f)' = Word(3, f)'
          BY <3>7, ReadWords
        <4> QED BY <3>3, <3>4, <3>5, <3>7, <4>1
      <3>8. CASE r \in {0, 1, 2} /\ ~(r = 2 /\ ReadTodo = {})
        <4>1. Word(r, f)' = Word(r, f)
          BY <3>8, ReadWords
        <4>2. o = q /\ o \in 0..3 /\ r \in o..3 /\ o # 3 /\ t \in Tags(o)
          BY <3>1, <3>2, <3>8
        <4>3. Good(Word(r, f), f, t)
          BY <3>1, <4>2 DEF Covered
        <4> QED BY <3>3, <4>1, <4>3
      <3> QED BY <3>1, <3>6, <3>7, <3>8
    <2> QED BY <1>3, <2>1, CoveredBy
  <1>6. GoneBefore'
    <2>1. ASSUME NEW p \in 1..3, NEW c \in Changes(p)', ~c.what.there, NEW q \in 0..(p - 1), NEW o \in 0..q,
                 c.tag \in Tags(o)'
          PROVE  ~Word(q, c.on)'.what.there
      <3>1. p \in {1, 2, 3} /\ q \in {0, 1, 2} /\ o \in {0, 1, 2} /\ o <= q /\ q < p
        OBVIOUS
      <3>2. ReadTodo = {} => p # 3
        <4>1. ReadTodo = {} => Changes(3)' = {}
          BY <1>0, FlushIs DEF Changes
        <4> QED BY <2>1, <4>1
      <3>3. ~(q = 2 /\ ReadTodo = {})
        BY <3>1, <3>2
      <3>4. Word(q, c.on)' = Word(q, c.on)
        BY <3>1, <3>3, ReadWords
      <3>5. c.tag \in Tags(o)
        BY <1>4, <2>1, <3>1, <3>3
      <3>6. \/ c \in Changes(p)
            \/ p = 2 /\ c \in Changes(3)
            \/ p \in {2, 3} /\ Reports /\ c = ReadChange
        <4>1. p = 1 => c \in Changes(1)
          BY <1>0, <2>1 DEF Changes
        <4>2. CASE p = 2
          <5>1. ReadTodo # {} => c \in Changes(2)
            BY <1>0, <2>1, <4>2 DEF Changes
          <5>2. ReadTodo = {} => c \in live \/ c \in ReadFound
            BY <1>0, <2>1, <4>2, MergedIs DEF Changes
          <5> QED BY <4>2, <5>1, <5>2 DEF Changes, ReadFound
        <4>3. CASE p = 3
          <5>1. c \in ReadFound
            BY <1>0, <2>1, <3>2, <4>3 DEF Changes
          <5> QED BY <4>3, <5>1 DEF Changes, ReadFound
        <4> QED BY <3>1, <4>1, <4>2, <4>3
      <3>7. CASE c \in Changes(p)
        BY <2>1, <3>4, <3>5, <3>7 DEF GoneBefore
      <3>8. CASE p = 2 /\ c \in Changes(3)
        <4>1. q \in 0..(3 - 1)
          BY <3>1
        <4>2. ~Word(q, c.on).what.there
          BY <2>1, <3>5, <3>8, <4>1 DEF GoneBefore
        <4> QED BY <3>4, <4>2
      <3>9. CASE Reports /\ c = ReadChange
        <4>1. c.on = flush.at /\ c.tag = flush.tag /\ c.what = disk[flush.at]
          BY <1>0, <3>9
        <4>2. ~Outdated(flush.at, flush.tag)
          BY <1>1, <2>1, <4>1
        <4>3. Good(Word(q, c.on), c.on, c.tag)
          <5>1. o \in 0..3 /\ q \in o..3 /\ o # 3
            BY <3>1
          <5>2. c.on \in Targets(c.tag)
            BY <1>2, <4>1
          <5> QED BY <3>5, <5>1, <5>2 DEF Covered
        <4>4. Alike(Word(q, c.on).what, disk[flush.at])
          BY <4>1, <4>2, <4>3 DEF Good
        <4> QED BY <2>1, <3>4, <4>1, <4>4 DEF Alike
      <3> QED BY <3>6, <3>7, <3>8, <3>9
    <2> QED BY <2>1, GoneBy
  <1>7. LastWord'
    <2> SUFFICES ASSUME NEW f \in File, NEW w, w = Word(3, f)'
                 PROVE  /\ w.what.there => f \in localIndex'
                        /\ \/ Hot(f)'
                           \/ /\ Alike(w.what, disk'[f])
                              /\ w.what.there => ~Outdated(f, w.tag)'
      BY LastBy
    <2>0. flush'.todo = ReadTodo
      BY <1>0, FlushIs
    <2>1. CASE f # flush.at
      <3>1. w = Word(3, f) /\ w.tag \in Nat
        BY <2>1, ReadWords, WordTag
      <3>2. Hot(f) => Hot(f)'
        BY <1>0, <2>0, <2>1 DEF Hot, ReadTodo
      <3>3. f \in localIndex' <=> f \in localIndex
        BY <1>0, <2>1
      <3> QED BY <1>0, <1>3, <3>1, <3>2, <3>3 DEF LastWord
    <2>2. CASE f = flush.at /\ Reports
      <3>1. w = ReadChange
        BY <2>2, ReadWords
      <3>2. w.what = disk[f] /\ w.tag = flush.tag
        BY <1>0, <2>2, <3>1
      <3>3. Outdated(f, flush.tag) => Hot(f)'
        BY <1>0, <2>2 DEF Hinted, Hot
      <3>4. w.what.there => f \in localIndex'
        BY <1>0, <2>2, <3>2
      <3>5. Alike(w.what, disk'[f])
        BY <1>0, <3>2 DEF Alike
      <3> QED BY <1>2, <1>3, <3>2, <3>3, <3>4, <3>5
    <2>3. CASE f = flush.at /\ ~Reports
      <3>1. w = Word(3, f) /\ ~w.what.there /\ ~disk[f].there
        BY <2>3, ReadWords
      <3>2. disk[f].there \in BOOLEAN /\ w.what.there \in BOOLEAN
        <4>1. disk[f].there \in BOOLEAN
          BY FilesAre
        <4>2. w.what.there \in BOOLEAN
          BY <3>1, WordThere
        <4> QED BY <4>1, <4>2
      <3> QED BY <1>0, <3>1, <3>2 DEF Alike
    <2> QED BY <2>1, <2>2, <2>3
  <1> QED BY <1>5, <1>6, <1>7

LEMMA HintedStays ==
  ASSUME ReadIInv, ReadIInv', ReadThroughBounds, [ReadNext]_readVars, Tagged, Hinted,
         UNCHANGED <<suppressed, flush>>, AllTags' \subseteq AllTags, dirty \subseteq dirty',
         \A h \in hints' : h \in hints \/ h > Len(ops),
         \A f \in File : \A t \in Nat : f = flush.at /\ t = flush.tag /\ Outdated(f, t)' =>
            Outdated(f, t) \/ f \in dirty'
  PROVE  Hinted'
  <1>1. /\ \A t \in AllTags : Targets(t)' = Targets(t) /\ t \in 1..Len(ops) /\ t \in Nat
        /\ flush.at # None => flush.tag \in Nat /\ flush.at \in File
                              /\ \A t : t = flush.tag => Targets(t)' = Targets(t)
        /\ flush.tag \in 0..Len(ops) /\ Len(ops) \in Nat
    <2>1. flush.tag \in 0..Len(ops) /\ (flush.at # None => flush.at \in File) /\ Len(ops) \in Nat
      BY FlushIs, OpsAre
    <2>2. \A t : Writes(t) => Targets(t)' = Targets(t)
      BY Stays DEF OpsStay, Writes
    <2> QED BY <2>1, <2>2, TagsName
  <1>2. \A g \in File : \A t : t = suppressed[g] /\ t # NoId => Targets(t)' = Targets(t)
    <2>1. \A t : Writes(t) => Targets(t)' = Targets(t)
      BY Stays DEF OpsStay, Writes
    <2> QED BY <2>1 DEF ReadIInv, HintsOK
  <1>3. \A f, t : NotBefore(f, t)' <=> NotBefore(f, t)
    BY DEF NotBefore
  <1>4. \A g \in File : \A t : t = suppressed'[g] /\ t # NoId => \A f \in Targets(t)' : NotBefore(f, t)'
    BY <1>2, <1>3 DEF Hinted
  <1>5. \A t \in AllTags' : /\ \A h \in hints' : t < h
                            /\ \A f \in Targets(t)' : NotBefore(f, t)' /\ (flush'.at = f => flush'.tag >= t)
    <2>1. \A t \in AllTags : \A h \in hints' : t < h
      <3>1. \A h \in hints : h \in 1..Len(ops)
        BY DEF ReadIInv, ReadTypeOK
      <3>2. \A h \in hints' : h \in Int
        BY DEF ReadIInv, HintsOK, Writes
      <3> QED BY <1>1, <3>1, <3>2 DEF Hinted
    <2> QED BY <1>1, <1>3, <2>1 DEF Hinted
  <1>6. \A h \in hints' : flush'.tag < h
    <2>1. \A h \in hints' : h \in Int
      BY DEF ReadIInv, HintsOK, Writes
    <2> QED BY <1>1, <2>1 DEF Hinted
  <1>7. flush'.at # None => \A t : t = flush'.tag =>
             /\ \A g \in Targets(t)' : NotBefore(g, t)'
             /\ \A g \in Targets(t)' \ {flush'.at} :
                   g \in flush'.todo \/ \E c \in flush'.found : c.on = g /\ c.tag = t
             /\ \A f : f = flush'.at /\ Outdated(f, t)' => f \in dirty'
    BY <1>1, <1>3 DEF Hinted
  <1> QED BY <1>4, <1>5, <1>6, <1>7, HintedBy

LEMMA HintedStep ==
  ASSUME ReadIInv, ReadIInv', ReadThroughBounds, [ReadNext]_readVars, Tagged, Hinted, Untroubled'
  PROVE  Hinted'
  <1>1. /\ \A t \in AllTags : Targets(t)' = Targets(t) /\ Targets(t) \subseteq File
                              /\ t \in 1..Len(ops) /\ t \in Nat /\ Writes(t)
        /\ \A t : Writes(t) => Targets(t)' = Targets(t) /\ Targets(t) \subseteq File /\ t \in 1..Len(ops) /\ t # NoId
        /\ flush.at # None => flush.tag \in Nat /\ flush.at \in File /\ Writes(flush.tag)
                              /\ flush.at \in Targets(flush.tag)
        /\ flush.tag \in 0..Len(ops) /\ Len(ops) \in Nat
        /\ suppressed \in [File -> 0..Len(ops)]
        /\ \A g \in File : suppressed[g] # NoId => Writes(suppressed[g]) /\ g \in Targets(suppressed[g])
        /\ \A h \in hints : Writes(h) /\ h \in Nat /\ \A f \in File : suppressed[f] < h
        /\ AllTags = Range(recent) \cup {c.tag : c \in batch \cup live \cup flush.found}
        /\ AllTags' = Range(recent') \cup {c.tag : c \in batch' \cup live' \cup flush'.found}
    <2>1. flush.tag \in 0..Len(ops) /\ (flush.at # None => flush.at \in File) /\ Len(ops) \in Nat
      BY FlushIs, OpsAre
    <2>2. \A t : Writes(t) => Targets(t)' = Targets(t) /\ Targets(t) \subseteq File /\ t \in 1..Len(ops)
                              /\ t # NoId
      BY Stays, OpsAre DEF OpsStay, Writes, NoId
    <2>3. /\ suppressed \in [File -> 0..Len(ops)]
          /\ \A g \in File : suppressed[g] # NoId => Writes(suppressed[g]) /\ g \in Targets(suppressed[g])
          /\ \A h \in hints : Writes(h) /\ h \in Nat /\ \A f \in File : suppressed[f] < h
      BY DEF ReadIInv, HintsOK, ReadTypeOK
    <2> QED BY <2>1, <2>2, <2>3, TagsName DEF AllTags
  <1>2. UNCHANGED <<disk, clock>> => \A f : \A t \in Nat : Outdated(f, t)' <=> Outdated(f, t)
    BY GoodStays
  <1>3. CASE /\ UNCHANGED <<disk, clock, suppressed, flush, dirty>> /\ AllTags' \subseteq AllTags
             /\ \A h \in hints' : h \in hints \/ h > Len(ops)
    BY <1>2, <1>3, HintedStays
  <1>4. ASSUME NEW r \in Wanted, BeginRead(r) \/ BeginChange(r) PROVE Hinted'
    <2>1. /\ UNCHANGED <<disk, clock, suppressed, flush, dirty, batch, live, recent>>
          /\ hints' \subseteq hints \cup {Len(ops) + 1}
      BY <1>4 DEF BeginRead, BeginChange, watcher, queue, manager
    <2> QED BY <1>1, <1>3, <2>1
  <1>5. ASSUME NEW i \in 1..Len(ops), LookUp(i) \/ Pass(i) \/ \E hinted \in BOOLEAN : Refuse(i, hinted)
        PROVE  Hinted'
    <2>1. /\ UNCHANGED <<disk, clock, suppressed, flush, dirty, batch, live, recent>> /\ hints' \subseteq hints
      BY <1>5 DEF LookUp, Pass, Refuse, watcher, queue, manager
    <2> QED BY <1>1, <1>3, <2>1
  <1>6. ASSUME NEW i \in 1..Len(ops), Execute(i) PROVE Hinted'
    <2>1. UNCHANGED <<suppressed, flush, batch, live, recent, hints>>
      BY <1>6 DEF Execute, queue, manager
    <2>2. CASE UNCHANGED <<disk, clock, dirty>>
      BY <1>1, <1>3, <2>1, <2>2
    <2>3. CASE ~UNCHANGED <<disk, clock, dirty>>
      <3>1. /\ ~IsRead(ops[i].req) /\ Moves(i, clock + 1) /\ ops[i].at = "asks"
            /\ disk' = [f \in File |-> IF f \in Targets(i) THEN Changed(ops[i].req, f) ELSE disk[f]]
            /\ dirty' = dirty \cup Targets(i)
        BY <1>6, <2>3, MovesAre
      <3>2. \A f : \A t \in Nat : Outdated(f, t)' <=> Outdated(f, t) \/ (f \in Targets(i) /\ t < i)
        BY <1>6, <3>1, ChangeOutdates
      <3> QED BY <1>1, <2>1, <3>1, <3>2, HintedStays
    <2> QED BY <2>2, <2>3
  <1>7. ASSUME NEW i \in 1..Len(ops), Hint(i) PROVE Hinted'
    <2>1. /\ i \in hints /\ (\A j \in hints : i <= j) /\ hints' = hints \ {i}
          /\ suppressed' = [f \in File |-> IF f \in Targets(i) THEN i ELSE suppressed[f]]
          /\ UNCHANGED <<disk, clock, dirty, flush, batch, live, recent, ops>>
      BY <1>7 DEF Hint, queue, manager
    <2>2. \A t : Targets(t)' = Targets(t)
      BY <2>1 DEF Targets
    <2>3. ASSUME NEW f \in File, NEW t \in Nat, t < i, NotBefore(f, t) PROVE NotBefore(f, t)'
      BY <1>1, <2>1, <2>3 DEF NotBefore
    <2>4. ASSUME NEW g \in File, NEW t, t = suppressed'[g], t # NoId, NEW f \in Targets(t)
          PROVE  NotBefore(f, t)'
      <3>1. CASE t = i
        <4>1. f \in File /\ suppressed'[f] = i /\ i \in Nat
          BY <1>1, <2>1, <2>4, <3>1
        <4> QED BY <3>1, <4>1 DEF NotBefore
      <3>2. CASE t # i
        <4>1. t = suppressed[g] /\ Writes(t) /\ f \in File /\ t \in Nat
          BY <1>1, <2>1, <2>4, <3>2
        <4>2. t < i
          BY <1>1, <2>1, <4>1
        <4>3. NotBefore(f, t)
          BY <2>4, <4>1 DEF Hinted
        <4> QED BY <2>3, <4>1, <4>2, <4>3
      <3> QED BY <3>1, <3>2
    <2>5. \A t \in AllTags : t < i /\ (\A h \in hints' : t < h)
             /\ \A f \in Targets(t) : NotBefore(f, t)' /\ (flush.at = f => flush.tag >= t)
      <3>1. \A t \in AllTags : t < i
        BY <2>1 DEF Hinted
      <3> QED BY <1>1, <2>1, <2>3, <3>1 DEF Hinted
    <2>6. AllTags' = AllTags
      BY <2>1 DEF AllTags
    <2>7. flush.tag < i
      BY <2>1 DEF Hinted
    <2>8. flush.at # None => \A t : t = flush.tag =>
             /\ \A g \in Targets(t) : NotBefore(g, t)'
             /\ \A g \in Targets(t) \ {flush.at} :
                   g \in flush.todo \/ \E c \in flush.found : c.on = g /\ c.tag = t
             /\ \A f : f = flush.at /\ Outdated(f, t)' => f \in dirty
      BY <1>1, <1>2, <2>1, <2>3, <2>7 DEF Hinted
    <2>9. \A h \in hints' : flush.tag < h
      BY <2>1 DEF Hinted
    <2> QED BY <2>1, <2>2, <2>4, <2>5, <2>6, <2>8, <2>9, HintedBy
  <1>8. ASSUME NEW paths \in SUBSET dirty, NEW again \in SUBSET dirty, FlushStart(paths, again)
        PROVE  Hinted'
    <2>1. /\ flush' = [Idle EXCEPT !.all = paths, !.todo = paths]
          /\ UNCHANGED <<disk, clock, suppressed, batch, live, recent, hints, ops>>
      BY <1>8 DEF FlushStart, queue, manager
    <2>2. flush'.at = None /\ flush'.found = {} /\ flush'.tag = NoId
      BY <2>1 DEF Idle
    <2>3. None \notin File
      BY DEF ReadThroughBounds
    <2>4. \A t : Targets(t)' = Targets(t)
      BY <2>1 DEF Targets
    <2>5. \A f, t : NotBefore(f, t)' <=> NotBefore(f, t)
      BY <2>1 DEF NotBefore
    <2>6. AllTags' \subseteq AllTags
      BY <1>1, <2>1, <2>2
    <2>7. \A g \in File : \A t : t = suppressed'[g] /\ t # NoId => \A f \in Targets(t)' : NotBefore(f, t)'
      BY <2>1, <2>4, <2>5 DEF Hinted
    <2>8. \A t \in AllTags' : /\ \A h \in hints' : t < h
                              /\ \A f \in Targets(t)' : NotBefore(f, t)' /\ (flush'.at = f => flush'.tag >= t)
      BY <1>1, <2>1, <2>2, <2>3, <2>4, <2>5, <2>6 DEF Hinted
    <2>9. \A h \in hints' : flush'.tag < h
      BY <1>1, <2>1, <2>2 DEF NoId, Writes
    <2> QED BY <2>2, <2>7, <2>8, <2>9, HintedBy
  <1>9. ASSUME NEW f \in File, Tag(f) PROVE Hinted'
    <2>0. PICK id : id = suppressed[f]
      OBVIOUS
    <2>1. /\ f \in flush.todo /\ flush' = [flush EXCEPT !.at = f, !.tag = id]
          /\ Outdated(f, id) => "late tag" \in mishap'
          /\ id # NoId /\ Apart(f, id) => "split" \in mishap'
          /\ UNCHANGED <<disk, clock, dirty, suppressed, live, batch, recent, hints, ops>>
      BY <1>9, <2>0 DEF Tag, Note, queue, manager
    <2>2. flush'.todo = flush.todo /\ flush'.at = f /\ flush'.tag = id /\ flush'.found = flush.found
      BY <2>1 DEF ReadIInv, ReadTypeOK
    <2>u. suppressed' = suppressed /\ hints' = hints /\ dirty' = dirty /\ UNCHANGED <<disk, clock>>
      BY <2>1
    <2>3. ~Outdated(f, id) /\ (id # NoId => ~Apart(f, id))
      BY <2>1 DEF Untroubled
    <2>4. id # NoId
      <3>1. PICK i \in 1..Len(ops) : f \in Targets(i) /\ Writes(i) /\ ops[i].made > 0
        BY <2>1 DEF Tagged, Made
      <3>2. Outdated(f, NoId)
        BY <3>1 DEF Outdated, Writes, NoId
      <3> QED BY <2>3, <3>2
    <2>5. id \in Nat /\ \A h \in hints : id < h
      BY <1>1, <2>0
    <2>6. \A t : Targets(t)' = Targets(t)
      BY <2>1 DEF Targets
    <2>7. \A g, t : NotBefore(g, t)' <=> NotBefore(g, t)
      BY <2>1 DEF NotBefore
    <2>8. AllTags' = AllTags
      BY <1>1, <2>1, <2>2
    <2>9. \A g \in File : \A t : t = suppressed'[g] /\ t # NoId => \A x \in Targets(t)' : NotBefore(x, t)'
      BY <2>u, <2>6, <2>7 DEF Hinted
    <2>a. \A t \in AllTags' : /\ \A h \in hints' : t < h
                              /\ \A g \in Targets(t)' : NotBefore(g, t)' /\ (flush'.at = g => flush'.tag >= t)
      <3>1. \A t \in AllTags : f \in Targets(t) => id >= t
        BY <2>0, <2>4 DEF Hinted, NotBefore
      <3> QED BY <1>1, <2>u, <2>2, <2>6, <2>7, <2>8, <3>1 DEF Hinted
    <2>b. \A h \in hints' : flush'.tag < h
      BY <2>u, <2>2, <2>5
    <2>c. \A t : t = id =>
             /\ \A g \in Targets(t) : NotBefore(g, t)
             /\ \A g \in Targets(t) \ {f} :
                   g \in flush.todo \/ \E c \in flush.found : c.on = g /\ c.tag = t
             /\ ~Outdated(f, t)'
      <3>1. \A g \in Targets(id) : NotBefore(g, id)
        BY <2>0, <2>4 DEF Hinted
      <3>2. \A g \in Targets(id) \ {f} :
                   g \in flush.todo \/ \E c \in flush.found : c.on = g /\ c.tag = id
        BY <2>3, <2>4 DEF Apart
      <3>3. \A t : t = id => ~Outdated(f, t)'
        BY <1>2, <2>1, <2>3, <2>5
      <3> QED BY <3>1, <3>2, <3>3
    <2> QED BY <2>u, <2>2, <2>6, <2>7, <2>9, <2>a, <2>b, <2>c, HintedBy
  <1>a. ASSUME NEW g \in File, Unsuppress(g) PROVE Hinted'
    <2>1. /\ suppressed' = [suppressed EXCEPT ![g] = NoId]
          /\ UNCHANGED <<disk, clock, dirty, flush, live, batch, recent, hints, ops>>
      BY <1>a DEF Unsuppress, queue, manager
    <2>2. \A f \in File : suppressed'[f] = suppressed[f] \/ suppressed'[f] = NoId
      BY <1>1, <2>1
    <2>3. \A f \in File : \A t : NotBefore(f, t) => NotBefore(f, t)'
      BY <2>2 DEF NotBefore
    <2>4. \A t : Targets(t)' = Targets(t)
      BY <2>1 DEF Targets
    <2>5. AllTags' = AllTags
      BY <1>1, <2>1
    <2>6. \A x \in File : \A t : t = suppressed'[x] /\ t # NoId => \A f \in Targets(t)' : NotBefore(f, t)'
      BY <1>1, <2>2, <2>3, <2>4 DEF Hinted
    <2>7. \A t \in AllTags' : /\ \A h \in hints' : t < h
                              /\ \A f \in Targets(t)' : NotBefore(f, t)' /\ (flush'.at = f => flush'.tag >= t)
      BY <1>1, <2>1, <2>3, <2>4, <2>5 DEF Hinted
    <2>8. \A h \in hints' : flush'.tag < h
      BY <2>1 DEF Hinted
    <2>9. flush'.at # None => \A t : t = flush'.tag =>
             /\ \A x \in Targets(t)' : NotBefore(x, t)'
             /\ \A x \in Targets(t)' \ {flush'.at} :
                   x \in flush'.todo \/ \E c \in flush'.found : c.on = x /\ c.tag = t
             /\ \A f : f = flush'.at /\ Outdated(f, t)' => f \in dirty'
      BY <1>1, <1>2, <2>1, <2>3, <2>4 DEF Hinted
    <2> QED BY <2>6, <2>7, <2>8, <2>9, HintedBy
  <1>b. ASSUME Read PROVE Hinted'
    <2>1. /\ UNCHANGED <<disk, clock, dirty, suppressed, batch, recent, hints, ops>>
          /\ flush.at # None /\ flush'.at = None /\ flush'.tag = NoId
          /\ flush'.found \subseteq ReadFound /\ live' \subseteq live \cup ReadFound
          /\ ReadChange.tag = flush.tag
      BY <1>b, ReadIs, FlushIs, MergedIs DEF Read, manager, ReadChange
    <2>2. AllTags' \subseteq AllTags \cup {flush.tag}
      BY <1>1, <2>1 DEF ReadFound
    <2>3. \A t : Targets(t)' = Targets(t)
      BY <2>1 DEF Targets
    <2>4. \A f, t : NotBefore(f, t)' <=> NotBefore(f, t)
      BY <2>1 DEF NotBefore
    <2>5. \A g \in File : \A t : t = suppressed'[g] /\ t # NoId => \A f \in Targets(t)' : NotBefore(f, t)'
      BY <2>1, <2>3, <2>4 DEF Hinted
    <2>6. None \notin File
      BY DEF ReadThroughBounds
    <2>7. \A t \in AllTags' : /\ \A h \in hints' : t < h
                              /\ \A f \in Targets(t)' : NotBefore(f, t)' /\ (flush'.at = f => flush'.tag >= t)
      BY <1>1, <2>1, <2>2, <2>3, <2>4, <2>6 DEF Hinted
    <2>8. \A h \in hints' : flush'.tag < h
      BY <1>1, <2>1 DEF NoId, Writes
    <2> QED BY <2>1, <2>5, <2>7, <2>8, HintedBy
  <1>c. ASSUME Push PROVE Hinted'
    <2>1. batch' = live /\ live' = {} /\ UNCHANGED <<disk, clock, suppressed, flush, dirty, recent, hints>>
      BY <1>c DEF Push, watcher, manager
    <2> QED BY <1>1, <1>3, <2>1
  <1>d. ASSUME ApplyDelta PROVE Hinted'
    <2>1. batch' = {} /\ UNCHANGED <<disk, clock, suppressed, flush, dirty, live, hints>>
          /\ Range(recent') \subseteq Range(recent) \cup {c.tag : c \in batch}
      BY <1>d, RecentIs DEF ApplyDelta, watcher
    <2>2. AllTags' \subseteq AllTags
      BY <1>1, <2>1
    <2> QED BY <1>3, <2>1, <2>2
  <1>e. ASSUME NEW f \in File, BypassExpires(f) PROVE Hinted'
    <2>1. UNCHANGED <<disk, clock, suppressed, flush, dirty, live, batch, recent, hints>>
      BY <1>e DEF BypassExpires, watcher, queue
    <2> QED BY <1>1, <1>3, <2>1
  <1>f. ASSUME NEW f \in File, OtherTask(f) \/ \E there \in BOOLEAN : Edit(f, there) PROVE Hinted'
    <2>1. "other task" \in mishap' \/ "user" \in mishap'
      BY <1>f DEF OtherTask, Edit
    <2> QED BY <2>1 DEF Untroubled
  <1>g. CASE UNCHANGED readVars
    <2>1. UNCHANGED <<disk, clock, suppressed, flush, dirty, live, batch, recent, hints>>
      BY <1>g DEF readVars, watcher, queue, manager
    <2> QED BY <1>1, <1>3, <2>1
  <1> QED BY <1>4, <1>5, <1>6, <1>7, <1>8, <1>9, <1>a, <1>b, <1>c, <1>d, <1>e, <1>f, <1>g, Kinds

(* What neither reads a file nor moves a change on its way.                   *)
LEMMA RestKeeps ==
  ASSUME ReadIInv, ReadIInv', ReadThroughBounds, [ReadNext]_readVars, Tagged, Covered, GoneBefore, LastWord,
         UNCHANGED <<disk, clock, store, batch, live, recent, localIndex>>, flush'.found = flush.found,
         flush'.todo = flush.todo \/ flush.found = {},
         \A f : Hot(f) => Hot(f)'
  PROVE  Covered' /\ GoneBefore' /\ LastWord'
  <1>1. /\ \A f : \A t \in Nat : Outdated(f, t)' <=> Outdated(f, t)
        /\ \A w, f : \A t \in Nat : Good(w, f, t)' <=> Good(w, f, t)
    BY GoodStays
  <1>2. \A t \in AllTags : t \in Nat
    BY TagsName
  <1>3. \A t \in AllTags : \A f \in Targets(t) : \A w : Good(w, f, t) => Good(w, f, t)'
    BY <1>1, <1>2
  <1>4. \A f \in File : disk'[f] = disk[f] /\ \A t \in Nat : Outdated(f, t)' <=> Outdated(f, t)
    BY <1>1
  <1> QED BY <1>3, <1>4, QuietKeeps

LEMMA WordsStep ==
  ASSUME ReadIInv, ReadIInv', ReadThroughBounds, [ReadNext]_readVars, Tagged, Hinted, Covered, GoneBefore, LastWord,
         Untroubled'
  PROVE  Covered' /\ GoneBefore' /\ LastWord'
  <1>1. CASE UNCHANGED <<disk, clock, dirty, store, batch, live, recent, localIndex, flush>>
    <2>1. \A f : Hot(f) => Hot(f)'
      BY <1>1 DEF Hot
    <2> QED BY <1>1, <2>1, RestKeeps
  <1>2. ASSUME NEW r \in Wanted, BeginRead(r) \/ BeginChange(r)
        PROVE  Covered' /\ GoneBefore' /\ LastWord'
    <2>1. UNCHANGED <<disk, clock, dirty, store, batch, live, recent, localIndex, flush>>
      BY <1>2 DEF BeginRead, BeginChange, watcher, queue, manager
    <2> QED BY <1>1, <2>1
  <1>3. ASSUME NEW i \in 1..Len(ops), LookUp(i) \/ Pass(i) \/ \E hinted \in BOOLEAN : Refuse(i, hinted)
        PROVE  Covered' /\ GoneBefore' /\ LastWord'
    <2>1. UNCHANGED <<disk, clock, dirty, store, batch, live, recent, localIndex, flush>>
      BY <1>3 DEF LookUp, Pass, Refuse, watcher, queue, manager
    <2> QED BY <1>1, <2>1
  <1>4. ASSUME NEW i \in 1..Len(ops), Execute(i) PROVE Covered' /\ GoneBefore' /\ LastWord'
    <2>1. UNCHANGED <<store, batch, live, recent, localIndex, flush>>
      BY <1>4 DEF Execute, queue, manager
    <2>2. CASE UNCHANGED <<disk, clock, dirty>>
      BY <1>1, <2>1, <2>2
    <2>3. CASE ~UNCHANGED <<disk, clock, dirty>>
      <3>1. /\ ~IsRead(ops[i].req) /\ Moves(i, clock + 1) /\ ops[i].at = "asks"
            /\ disk' = [f \in File |-> IF f \in Targets(i) THEN Changed(ops[i].req, f) ELSE disk[f]]
            /\ dirty' = dirty \cup Targets(i)
        BY <1>4, <2>3, MovesAre
      <3>2. /\ \A f : \A t \in Nat : Outdated(f, t)' <=> Outdated(f, t) \/ (f \in Targets(i) /\ t < i)
            /\ \A t \in AllTags : \A f \in Targets(t) : \A w : Good(w, f, t) => Good(w, f, t)'
            /\ \A f \in File : f \notin Targets(i) => disk'[f] = disk[f]
        BY <1>4, <3>1, ChangeOutdates
      <3>3. (\A f : Hot(f) => Hot(f)') /\ \A f \in Targets(i) : Hot(f)'
        BY <2>1, <3>1 DEF Hot
      <3>4. \A f \in File : \/ Hot(f)'
                            \/ disk'[f] = disk[f] /\ \A t \in Nat : Outdated(f, t)' <=> Outdated(f, t)
        BY <3>2, <3>3
      <3>5. flush'.found = flush.found /\ flush'.todo = flush.todo
        BY <2>1
      <3> QED BY <2>1, <3>2, <3>3, <3>4, <3>5, QuietKeeps
    <2> QED BY <2>2, <2>3
  <1>5. ASSUME NEW i \in 1..Len(ops), Hint(i) PROVE Covered' /\ GoneBefore' /\ LastWord'
    <2>1. UNCHANGED <<disk, clock, dirty, store, batch, live, recent, localIndex, flush>>
      BY <1>5 DEF Hint, queue, manager
    <2> QED BY <1>1, <2>1
  <1>6. ASSUME NEW paths \in SUBSET dirty, NEW again \in SUBSET dirty, FlushStart(paths, again)
        PROVE  Covered' /\ GoneBefore' /\ LastWord'
    <2>1. /\ flush = Idle /\ flush' = [Idle EXCEPT !.all = paths, !.todo = paths]
          /\ dirty' = (dirty \ paths) \cup again
          /\ UNCHANGED <<disk, clock, localIndex, batch, live, recent, store>>
      BY <1>6 DEF FlushStart, queue, manager
    <2>2. flush.found = {} /\ flush.todo = {} /\ flush'.found = {} /\ flush'.todo = paths
      BY <2>1 DEF Idle
    <2>3. \A f : Hot(f) => Hot(f)'
      BY <2>1, <2>2 DEF Hot
    <2> QED BY <2>1, <2>2, <2>3, RestKeeps
  <1>7. ASSUME NEW f \in File, Tag(f) PROVE Covered' /\ GoneBefore' /\ LastWord'
    <2>1. UNCHANGED <<disk, clock, dirty, localIndex, batch, live, recent, store>>
      BY <1>7 DEF Tag, queue, manager
    <2>2. flush'.found = flush.found /\ flush'.todo = flush.todo
      BY <1>7 DEF Tag, ReadIInv, ReadTypeOK
    <2>3. \A g : Hot(g) => Hot(g)'
      BY <2>1, <2>2 DEF Hot
    <2> QED BY <2>1, <2>2, <2>3, RestKeeps
  <1>8. ASSUME NEW f \in File, Unsuppress(f) \/ BypassExpires(f)
        PROVE  Covered' /\ GoneBefore' /\ LastWord'
    <2>1. UNCHANGED <<disk, clock, dirty, store, batch, live, recent, localIndex, flush>>
      BY <1>8 DEF Unsuppress, BypassExpires, watcher, queue, manager
    <2> QED BY <1>1, <2>1
  <1>9. ASSUME NEW f \in File, OtherTask(f) \/ \E there \in BOOLEAN : Edit(f, there)
        PROVE  Covered' /\ GoneBefore' /\ LastWord'
    <2>1. "other task" \in mishap' \/ "user" \in mishap'
      BY <1>9 DEF OtherTask, Edit
    <2> QED BY <2>1 DEF Untroubled
  <1>a. CASE Read \/ Push \/ ApplyDelta
    BY <1>a, ReadKeeps, PushKeeps, ApplyKeeps
  <1>b. CASE UNCHANGED readVars
    <2>1. UNCHANGED <<disk, clock, dirty, store, batch, live, recent, localIndex, flush>>
      BY <1>b DEF readVars, watcher, queue, manager
    <2> QED BY <1>1, <2>1
  <1> QED BY <1>2, <1>3, <1>4, <1>5, <1>6, <1>7, <1>8, <1>9, <1>a, <1>b, Kinds

LEMMA FollowInvStep ==
  ASSUME ReadIInv, ReadThroughBounds, [ReadNext]_readVars, TagInv, FollowInv
  PROVE  FollowInv'
  <1> SUFFICES ASSUME Untroubled'
               PROVE  Hinted' /\ Covered' /\ GoneBefore' /\ LastWord'
    BY DEF FollowInv
  <1>1. Untroubled
    BY MishapsStay DEF Untroubled
  <1>2. Harmless
    BY <1>1 DEF Untroubled, Harmless
  <1>3. Tagged /\ Hinted /\ Covered /\ GoneBefore /\ LastWord
    BY <1>1, <1>2 DEF TagInv, FollowInv
  <1>4. ReadIInv'
    BY InvStep
  <1> QED BY <1>3, <1>4, HintedStep, WordsStep

LEMMA FollowInvInit ==
  ASSUME ReadThroughBounds, ReadInit
  PROVE  FollowInv
  <1>1. /\ flush = Idle /\ batch = {} /\ live = {} /\ hints = {} /\ recent = <<>> /\ ops = <<>>
        /\ store = disk /\ localIndex = {f \in File : disk[f].there}
        /\ suppressed = [f \in File |-> NoId]
    BY DEF ReadInit
  <1>2. flush.at = None /\ flush.found = {} /\ flush.tag = NoId /\ Range(recent) = {}
    BY <1>1 DEF Idle, Range
  <1>3. AllTags = {} /\ (\A q \in 0..3 : Tags(q) = {}) /\ \A p \in 1..3 : Changes(p) = {}
    BY <1>1, <1>2 DEF AllTags, Tags, Changes
  <1>4. Hinted
    BY <1>1, <1>2, <1>3 DEF Hinted
  <1>5. Covered /\ GoneBefore
    BY <1>3 DEF Covered, GoneBefore
  <1>6. \A f : Word(3, f) = [on |-> f, what |-> store[f], tag |-> MaxOps]
    <2>1. ChangesOK
      BY InvInit DEF ReadIInv
    <2> QED BY <1>1, <1>2, <2>1, WordIs
  <1>7. \A f : \A t \in Nat : ~Outdated(f, t)
    <2>1. Len(ops) = 0
      BY <1>1
    <2>2. \A t \in Nat : (t + 1)..Len(ops) = {}
      BY <2>1
    <2> QED BY <2>2 DEF Outdated
  <1>8. LastWord
    BY <1>1, <1>6, <1>7 DEF LastWord, Alike, ReadThroughBounds
  <1> QED BY <1>4, <1>5, <1>8 DEF FollowInv

(* When nothing is under way the manifest of the device is what the client    *)
(* has, whatever the delays: filterDuplicateMutationChanges drops no change   *)
(* that is not stored yet, handleWatcherChanges and scheduleLiveDrain lose    *)
(* and overtake none, and applyDelta leaves no older one behind; unless the   *)
(* user changes a file, a tag is lost or another task of the device stores.   *)
THEOREM CopyFollows == ReadSpec => []StoreFollows
  <1> DEFINE Inv == ReadIInv /\ TagInv /\ FollowInv
  <1>1. ReadInit => Inv
    BY ReadThroughBounds, InvInit, TagInvInit, FollowInvInit
  <1>2. Inv /\ [ReadNext]_readVars => Inv'
    BY ReadThroughBounds, InvStep, TagInvStep, FollowInvStep
  <1>3. Inv => StoreFollows
    <2> SUFFICES ASSUME ReadIInv, FollowInv, Untroubled, Quiet, NEW f \in File
                 PROVE  Alike(store[f], disk[f])
      BY DEF StoreFollows, Untroubled
    <2>1. dirty = {} /\ flush = Idle /\ live = {} /\ batch = {}
      BY DEF Quiet
    <2>2. flush.todo = {} /\ flush.found = {}
      BY <2>1 DEF Idle
    <2>3. Word(3, f).what = store[f]
      <3>1. ChangesOK
        BY DEF ReadIInv
      <3> QED BY <2>1, <2>2, <3>1, WordIs
    <2>4. ~Hot(f)
      BY <2>1, <2>2 DEF Hot
    <2> QED BY <2>3, <2>4 DEF FollowInv, LastWord
  <1> HIDE DEF Inv
  <1> QED BY <1>1, <1>2, <1>3, PTL DEF ReadSpec

=============================================================================
