----------------------------- MODULE FileAgent -----------------------------
(* A device's cache at work: the store of ClientCacheStore, the deltas that   *)
(* the cache task manager puts into it, and the FileAgent of the device       *)
(* (server/src/file-agent): the table of expiry times, the periodic           *)
(* collection that evicts what has expired and sweeps the blobs nothing       *)
(* refers to, the prefetch of a starting session, and the FUSE reads that     *)
(* renew what they are served.                                                *)
(*                                                                            *)
(* A path's expiry time is "none" (not in the table), "live" or "expired": a  *)
(* bump never shortens a life, and time may pass at any moment.  What runs in *)
(* one turn of the event loop is one step, and so is a continuation that only *)
(* waited for a promise another step settled: no file access comes between.   *)
EXTENDS ClientCacheStore

CONSTANTS Delta,            \* the batches clients send
          Reader,           \* FUSE reads and prefetches under way
          MaxDeltas,        \* bound: batches and truncation marks
          MaxQueue          \* bound: operations waiting when one more is sent

ASSUME AgentBounds == /\ Path # {}
                      /\ Delta \subseteq Change
                      /\ MaxDeltas \in Nat
                      /\ MaxQueue \in Nat \ {0}

VARIABLES agent,            \* has a session created the device's FileAgent?
          ttl,              \* its table of expiry times
          gc,               \* its collection
          fetch,            \* its in-flight table: paths being fetched
          reader,           \* what each reader is doing
          deltas,
          since             \* history: paths written since the agent exists

agentVars == <<agent, ttl, gc, fetch, reader, deltas, since>>

vars == <<storeVars, agentVars>>

NoReader == [pc |-> "idle", kind |-> "fuse", path |-> CHOOSE p \in Path : TRUE,
             entry |-> Absent]

NoCollection == [run |-> FALSE, due |-> FALSE, todo |-> {}]

TypeOK ==
    /\ StoreTypeOK
    /\ agent \in BOOLEAN
    /\ ttl \in [Path -> {"none", "live", "expired"}]
    /\ gc \in [run: BOOLEAN, due: BOOLEAN, todo: SUBSET Path]
    /\ fetch \in [Path -> BOOLEAN]
    /\ reader \in [Reader -> [pc: {"idle", "found", "fetching"},
                              kind: {"fuse", "prefetch"},
                              path: Path, entry: Entry]]
    /\ deltas \in 0..MaxDeltas
    /\ since \subseteq Path

Init ==
    /\ StoreInit
    /\ agent = FALSE
    /\ ttl = [p \in Path |-> "none"]
    /\ gc = NoCollection
    /\ fetch = [p \in Path |-> FALSE]
    /\ reader = [r \in Reader |-> NoReader]
    /\ deltas = 0
    /\ since = {}

Bumped(paths) == [p \in Path |-> IF p \in paths THEN "live" ELSE ttl[p]]

-----------------------------------------------------------------------------
(* What arrives from outside.                                                 *)

OpenSession ==
    /\ ~agent
    /\ agent' = TRUE
    /\ UNCHANGED <<storeVars, ttl, gc, fetch, reader, deltas, since>>

(* A collection that has just been woken gets in line before anybody else.    *)
Arrives(op) ==
    /\ ~gc.due
    /\ deltas < MaxDeltas
    /\ Len(queue) < MaxQueue
    /\ deltas' = deltas + 1
    /\ Request(op)
    /\ UNCHANGED <<agent, ttl, gc, fetch, reader, since>>

ReceiveDelta(d) == Arrives([kind |-> "apply", change |-> d])

ReceiveTruncated(t) == Arrives([kind |-> "truncate", truncated |-> t])

TimePasses(p) ==
    /\ ttl[p] = "live"
    /\ ttl' = [ttl EXCEPT ![p] = "expired"]
    /\ UNCHANGED <<storeVars, agent, gc, fetch, reader, deltas, since>>

-----------------------------------------------------------------------------
(* Reads.  Nobody takes the lock to look an entry up.                         *)

Done(r) == reader' = [reader EXCEPT ![r] = NoReader]

(* The entry as the manifest has it when the reader's file access happens.    *)
LookUp(r, kind, p) ==
    /\ agent
    /\ reader[r].pc = "idle"
    /\ reader' = [reader EXCEPT ![r] = [pc |-> "found", kind |-> kind,
                                        path |-> p, entry |-> disk.entries[p]]]
    /\ UNCHANGED <<storeVars, agent, ttl, gc, fetch, deltas, since>>

(* A FUSE read is served from the blob if it is there, which renews the path; *)
(* every other one goes on to the client.                                     *)
ServeFuse(r) ==
    /\ reader[r].pc = "found"
    /\ reader[r].kind = "fuse"
    /\ ttl' = IF reader[r].entry \in blobs THEN Bumped({reader[r].path}) ELSE ttl
    /\ Done(r)
    /\ UNCHANGED <<storeVars, agent, gc, fetch, deltas, since>>

(* A prefetch renews a path that has an entry, and otherwise joins the fetch  *)
(* of the path or starts one.                                                 *)
PrefetchHot(r) ==
    /\ reader[r].pc = "found"
    /\ reader[r].kind = "prefetch"
    /\ reader[r].entry # Absent
    /\ ttl' = Bumped({reader[r].path})
    /\ Done(r)
    /\ UNCHANGED <<storeVars, agent, gc, fetch, deltas, since>>

PrefetchMiss(r) ==
    /\ reader[r].pc = "found"
    /\ reader[r].kind = "prefetch"
    /\ reader[r].entry = Absent
    /\ fetch' = [fetch EXCEPT ![reader[r].path] = TRUE]
    /\ reader' = [reader EXCEPT ![r].pc = "fetching"]
    /\ UNCHANGED <<storeVars, agent, ttl, gc, deltas, since>>

(* The fetch looks the manifest up once more and settles, with an entry or as *)
(* missing; the readers that share it renew the path either way.              *)
Fetched(p) ==
    /\ fetch[p]
    /\ fetch' = [fetch EXCEPT ![p] = FALSE]
    /\ ttl' = Bumped({p})
    /\ reader' = [r \in Reader |->
                    IF reader[r].pc = "fetching" /\ reader[r].path = p
                      THEN NoReader ELSE reader[r]]
    /\ UNCHANGED <<storeVars, agent, gc, deltas, since>>

-----------------------------------------------------------------------------
(* The collection.                                                            *)

\* (slip) the expired paths leave the table when they are collected.
GcTimerDropping ==
    /\ agent
    /\ ~gc.run
    /\ gc' = [run |-> TRUE, due |-> TRUE, todo |-> {p \in Path : ttl[p] = "expired"}]
    /\ ttl' = [p \in Path |-> IF ttl[p] = "expired" THEN "none" ELSE ttl[p]]
    /\ UNCHANGED <<storeVars, agent, fetch, reader, deltas, since>>

\* (slip) nothing has expired, so there is nothing to do.
GcTimerIfExpired ==
    /\ agent
    /\ ~gc.run
    /\ gc' = [run |-> TRUE, due |-> TRUE, todo |-> {p \in Path : ttl[p] = "expired"}]
    /\ gc'.todo # {}
    /\ UNCHANGED <<storeVars, agent, ttl, fetch, reader, deltas, since>>

(* The timer starts one unless the last one is still running.                 *)
GcTimer ==
    /\ agent
    /\ ~gc.run
    /\ gc' = [run |-> TRUE, due |-> TRUE, todo |-> {p \in Path : ttl[p] = "expired"}]
    /\ UNCHANGED <<storeVars, agent, ttl, fetch, reader, deltas, since>>

Settled == {p \in gc.todo : ~fetch[p]}

(* Its loop skips paths with a fetch in flight, asks the store to remove the  *)
(* entry of the next other one and waits.                                     *)
GcEvict(p) ==
    /\ gc.due
    /\ p \in Settled
    /\ \E skipped \in SUBSET (gc.todo \ Settled) :
          gc' = [gc EXCEPT !.due = FALSE, !.todo = @ \ (skipped \cup {p})]
    /\ Request([kind |-> "remove", path |-> p])
    /\ UNCHANGED <<agent, ttl, fetch, reader, deltas, since>>

GcSweep ==
    /\ gc.due
    /\ Settled = {}
    /\ gc' = [gc EXCEPT !.due = FALSE, !.todo = {}]
    /\ Request([kind |-> "sweep"])
    /\ UNCHANGED <<agent, ttl, fetch, reader, deltas, since>>

-----------------------------------------------------------------------------
(* The store at work, and who hears of it.                                    *)

StoreWorks == Working /\ UNCHANGED agentVars

(* A delta that is on disk renews its paths, the deleted ones too, if there   *)
(* is an agent to tell.                                                       *)
DeltaApplied ==
    /\ Commit
    /\ Kind = "apply"
    /\ LET paths == DOMAIN Head(queue).change IN
         IF agent THEN ttl' = Bumped(paths) /\ since' = since \cup paths
                  ELSE UNCHANGED <<ttl, since>>
    /\ UNCHANGED <<agent, gc, fetch, reader, deltas>>

Truncated ==
    /\ Commit
    /\ Kind = "truncate"
    /\ UNCHANGED agentVars

(* A removal that succeeded takes the path off the table and wakes the loop.  *)
Evicted ==
    /\ Commit
    /\ Kind = "remove"
    /\ ttl' = [ttl EXCEPT ![Head(queue).path] = "none"]
    /\ gc' = [gc EXCEPT !.due = TRUE]
    /\ UNCHANGED <<agent, fetch, reader, deltas, since>>

Swept ==
    /\ Commit
    /\ Kind = "sweep"
    /\ gc' = NoCollection
    /\ UNCHANGED <<agent, ttl, fetch, reader, deltas, since>>

\* (slip) an exception leaves the collection marked as running.
StoreFailsForGood ==
    /\ Fail
    /\ UNCHANGED agentVars

(* A removal that failed ends the collection: its path stays on the table.    *)
StoreFails ==
    /\ Fail
    /\ gc' = IF Kind \in {"remove", "sweep"} THEN NoCollection ELSE gc
    /\ UNCHANGED <<agent, ttl, fetch, reader, deltas, since>>

ServerRestarts ==
    /\ Restart
    /\ agent' = FALSE
    /\ ttl' = [p \in Path |-> "none"]
    /\ gc' = NoCollection
    /\ fetch' = [p \in Path |-> FALSE]
    /\ reader' = [r \in Reader |-> NoReader]
    /\ since' = {}
    /\ UNCHANGED deltas

-----------------------------------------------------------------------------

Reading(r) == ServeFuse(r) \/ PrefetchHot(r) \/ PrefetchMiss(r)

Collecting == GcTimer \/ GcSweep \/ (\E p \in Path : GcEvict(p))

Committing == DeltaApplied \/ Truncated \/ Evicted \/ Swept

Next ==
    \/ OpenSession
    \/ \E d \in Delta : ReceiveDelta(d)
    \/ \E t \in BOOLEAN : ReceiveTruncated(t)
    \/ \E p \in Path : TimePasses(p) \/ Fetched(p)
    \/ \E r \in Reader : Reading(r)
    \/ \E r \in Reader, p \in Path, kind \in {"fuse", "prefetch"} : LookUp(r, kind, p)
    \/ Collecting
    \/ StoreWorks
    \/ Committing
    \/ StoreFails
    \/ ServerRestarts

(* File accesses return, the collection's timer ticks, and what a promise     *)
(* wakes runs; nobody has to open a session, read or change a file.           *)
Fairness ==
    /\ WF_vars(StoreWorks)
    /\ WF_vars(Committing)
    /\ WF_vars(Collecting)
    /\ \A r \in Reader : WF_vars(Reading(r))
    /\ \A p \in Path : WF_vars(Fetched(p))

Spec == Init /\ [][Next]_vars

FairSpec == Spec /\ Fairness

-----------------------------------------------------------------------------
(* Properties.                                                                *)

(* What is written while the agent exists stays under its control: as long as *)
(* no read of the manifest has failed, an entry of such a path is in the      *)
(* table of expiry times, so that some collection comes to it.  (Entries      *)
(* from before the agent, or before a restart, are kept until somebody reads  *)
(* them, as ttl-table.ts says.)                                               *)
WrittenIsTracked ==
    faults = 0 => \A p \in since : disk.entries[p] # Absent => ttl[p] # "none"

(* A path whose time is over is renewed or evicted sooner or later, whatever  *)
(* collections fail, and however often a fetch of the path is in flight when  *)
(* one comes by.                                                              *)
ExpiredGoes == \A p \in Path : ttl[p] = "expired" ~> ttl[p] # "expired"

(* While the agent exists, a blob that no entry refers to is swept or comes   *)
(* into use again: blobs of failed or interrupted deltas and of overwritten   *)
(* entries do not pile up.                                                    *)
Orphan(c) == agent /\ c \in blobs \ Live(disk)

OrphansGo == \A c \in Content : Orphan(c) ~> ~Orphan(c)
=============================================================================
