------------------------- MODULE ClientCacheStore -------------------------
(* The store of one device (server/src/file-agent/store.ts), step by step:    *)
(* every operation waits for its turn in the device's promise chain, reads    *)
(* the manifest file into memory, works on that copy over several file        *)
(* accesses, writes the copy to a temporary file and renames it.  Between any *)
(* two file accesses other requests arrive, a file access may fail, and the   *)
(* server process may die: it keeps its files and loses everything else.      *)
(* (A loss of power, which may undo writes that were never synced, is not     *)
(* modelled.)                                                                 *)
EXTENDS CacheManifest, Sequences

CONSTANTS MaxFaults,        \* bound: manifest reads that fail
          MaxFailures,      \* bound: operations that fail on the way
          MaxRestarts,      \* bound: deaths of the server process
          MaxTrouble        \* bound: these three together

ASSUME StoreBounds == {MaxFaults, MaxFailures, MaxRestarts, MaxTrouble} \subseteq Nat

VARIABLES disk,             \* manifest.json
          blobs,            \* the files under blobs/
          queue,            \* the promise chain: the first one holds the lock
          step,             \* has the holder read the manifest?
          local,            \* the holder's copy of the manifest
          todo,             \* paths of its delta it has not come to
          doomed,           \* blobs its sweep is about to delete
          faults, failures, restarts

storeVars == <<disk, blobs, queue, step, local, todo, doomed,
               faults, failures, restarts>>

Kind == Head(queue).kind

Trouble == faults + failures + restarts < MaxTrouble

StoreTypeOK ==
    /\ disk \in Manifest
    /\ local \in Manifest
    /\ blobs \subseteq Content
    /\ doomed \subseteq Content
    /\ todo \subseteq Path
    /\ queue \in Seq(Op)
    /\ step \in {"waiting", "holding"}
    /\ faults \in 0..MaxFaults
    /\ failures \in 0..MaxFailures
    /\ restarts \in 0..MaxRestarts

StoreInit ==
    /\ disk = EmptyManifest
    /\ local = EmptyManifest
    /\ blobs = {}
    /\ doomed = {}
    /\ todo = {}
    /\ queue = <<>>
    /\ step = "waiting"
    /\ faults = 0
    /\ failures = 0
    /\ restarts = 0

-----------------------------------------------------------------------------
(* The lock.  A caller appends itself to the chain; the next one runs when    *)
(* the one before it has settled, whichever way.                              *)

Request(op) ==
    /\ queue' = Append(queue, op)
    /\ UNCHANGED <<disk, blobs, step, local, todo, doomed,
                   faults, failures, restarts>>

(* A settled operation leaves nothing behind in memory.                       *)
Idle == step' = "waiting" /\ local' = EmptyManifest /\ todo' = {} /\ doomed' = {}

Released == queue' = Tail(queue) /\ Idle

-----------------------------------------------------------------------------
(* The critical sections.                                                     *)

(* loadManifest: any failure to read or parse counts as an empty manifest.    *)
Read ==
    \/ local' = disk /\ UNCHANGED faults
    \/ Trouble /\ faults < MaxFaults /\ faults' = faults + 1 /\ local' = EmptyManifest

Load ==
    /\ queue # <<>>
    /\ step = "waiting"
    /\ Read
    /\ step' = "holding"
    /\ todo' = IF Kind = "apply" THEN DOMAIN Head(queue).change ELSE {}
    /\ doomed' = IF Kind = "sweep" THEN blobs \ Live(local') ELSE {}
    /\ UNCHANGED <<disk, blobs, queue, failures, restarts>>

\* (slip) a path that has an entry is taken to have its blob.
PutChangeTrusting(p) ==
    /\ step = "holding"
    /\ p \in todo
    /\ LET entry == Head(queue).change[p] IN
         /\ blobs' = IF local.entries[p] = Absent
                       THEN blobs \cup ({entry} \cap Content) ELSE blobs
         /\ local' = [local EXCEPT !.entries[p] = entry]
    /\ todo' = todo \ {p}
    /\ UNCHANGED <<disk, queue, step, doomed, faults, failures, restarts>>

\* (slip) the manifest is saved after every change.
PutChangeInPlace(p) ==
    /\ step = "holding"
    /\ p \in todo
    /\ LET entry == Head(queue).change[p] IN
         /\ blobs' = blobs \cup ({entry} \cap Content)
         /\ local' = [local EXCEPT !.entries[p] = entry]
    /\ disk' = local'
    /\ todo' = todo \ {p}
    /\ UNCHANGED <<queue, step, doomed, faults, failures, restarts>>

(* One change of a delta: its blob is written unless it is there already,     *)
(* then the entry is set in the copy.                                         *)
PutChange(p) ==
    /\ step = "holding"
    /\ p \in todo
    /\ LET entry == Head(queue).change[p] IN
         /\ blobs' = blobs \cup ({entry} \cap Content)
         /\ local' = [local EXCEPT !.entries[p] = entry]
    /\ todo' = todo \ {p}
    /\ UNCHANGED <<disk, queue, step, doomed, faults, failures, restarts>>

(* One blob that no entry of the copy refers to is deleted.                   *)
SweepBlob(c) ==
    /\ step = "holding"
    /\ c \in doomed
    /\ blobs' = blobs \ {c}
    /\ doomed' = doomed \ {c}
    /\ UNCHANGED <<disk, queue, step, local, todo, faults, failures, restarts>>

(* The copy as writeManifestAtomic gets it, or the file as it stands where    *)
(* the operation found nothing to change.  The changes of a delta are in the  *)
(* copy by now.                                                               *)
Written ==
    IF Kind = "apply" THEN [local EXCEPT !.revision = @ + 1]
                      ELSE Stored(Head(queue), local, disk)

Commit ==
    /\ step = "holding"
    /\ todo = {}
    /\ doomed = {}
    /\ disk' = Written
    /\ Released
    /\ UNCHANGED <<blobs, faults, failures, restarts>>

(* A directory or file that cannot be written, a blob that does not match its *)
(* hash, an entry without content: the operation throws and the file stays.   *)
(* A sweep that cannot delete a blob just ends.                               *)
Fail ==
    /\ queue # <<>>
    /\ Trouble /\ failures < MaxFailures
    /\ failures' = failures + 1
    /\ Released
    /\ UNCHANGED <<disk, blobs, faults, restarts>>

(* The process dies and starts again with the files it finds.                 *)
Restart ==
    /\ Trouble /\ restarts < MaxRestarts
    /\ restarts' = restarts + 1
    /\ queue' = <<>>
    /\ Idle
    /\ UNCHANGED <<disk, blobs, faults, failures>>

Working == Load \/ (\E p \in Path : PutChange(p)) \/ (\E c \in Content : SweepBlob(c))

StoreNext == (\E op \in Op : Request(op)) \/ Working \/ Commit \/ Fail \/ Restart

StoreSpec == StoreInit /\ [][StoreNext]_storeVars

-----------------------------------------------------------------------------
(* As long as no read of the manifest has failed, every entry that refers to  *)
(* a content has its blob on disk: whatever operation failed, wherever the    *)
(* process died, whichever sweep ran.  A delta writes blobs before entries,   *)
(* and a sweep decides and deletes under the same lock.                       *)
BlobsPresent == faults = 0 => Live(disk) \subseteq blobs

(* The manifest file changes as AtomicManifest says.                          *)
Atomic == INSTANCE AtomicManifest WITH manifest <- disk, requests <- queue,
                                       Unreadable <- MaxFaults > 0

AtomicSpec == Atomic!Spec
=============================================================================
