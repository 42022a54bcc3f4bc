--------------------------- MODULE CacheTaskSync ---------------------------
(***************************************************************************)
(* One active executor and its task: the client's watcher                  *)
(* (client/src/cache-watcher.ts), its initial sync (cache-sync.ts) and its *)
(* state machine (cache-task-state-machine.ts) against the manager's delta *)
(* handler (server/src/cache-task-manager.ts).                             *)
(*                                                                         *)
(* A connection is the active executor at most once in its life, so the    *)
(* model follows one assignment from the moment it reaches the client.  A  *)
(* version stands for a file's content and for the (size, mtime) stat      *)
(* gives of it; 0 is no file.                                              *)
(***************************************************************************)
EXTENDS Integers, Sequences, FiniteSets

CONSTANTS
    Paths,         \* files of the scope
    MaxChanges,    \* bound: writes and removals of local files
    MaxRemoves,    \* bound: removals among them
    MaxInflight,   \* MAX_INFLIGHT_BYTES, in files
    MaxOther,      \* bound: revisions of other writers the task has not seen
    MaxTimeouts,   \* bound: acks that take longer than ackTimeoutMs
    Hits,          \* paths whose first version the scan cache may know the hash of
    Faults         \* may the watcher, the reading of a file or of the manifest, or
                   \* the store fail, or a heartbeat be late?

ASSUME ConstantsAssumption ==
    /\ {MaxChanges, MaxRemoves, MaxInflight, MaxOther, MaxTimeouts} \subseteq Nat
    /\ Hits \subseteq Paths
    /\ Faults \in BOOLEAN

VARIABLES
    local,     \* the files on the client's disk
    newest,    \* the newest version any file ever had
    removes,   \* removals so far
    watch,     \* CacheWatcher: "off", "indexed", "on"
    index,     \* its localIndex
    heard,     \* the files its backend has raised an event for
    missed,    \* history: files whose last change the watcher has not seen, or
               \* not been able to read, since the walk
    dirty,     \* its dirtyPathSet
    chain,     \* its flushChain: the path sets still to be flushed, in order
    state,     \* CacheTaskState, or "crashed": the process is gone
    rev,       \* this.revision
    buffered,  \* bufferedChanges
    pending,   \* pendingLiveChanges
    sync,      \* the await runInitialSync is in, and its locals
    awaited,   \* batches whose ack somebody waits for
    batches,   \* batch ids handed out
    timeouts,  \* acks given up so far
    c2s, s2c,  \* the socket, one FIFO per direction
    executor,  \* does the task still hold the assignment for this client?
    ready,     \* task.phase = "ready"
    taskRev,   \* task.revision
    storeRev,  \* manifest.revision on disk
    entries    \* manifest entries: the stat and the content they were made from

disk    == <<local, newest, removes>>
watcher == <<watch, index, heard, missed, dirty, chain>>
machine == <<state, rev, buffered, pending, sync, awaited, batches, timeouts>>
server  == <<executor, ready, taskRev, storeRev, entries>>
vars == <<disk, watcher, machine, c2s, s2c, server>>

Version == 0..(1 + MaxChanges)
Entry == [stat: Version, content: Version]
NoEntry == [stat |-> 0, content |-> 0]

\* A change for one path; `sha` is the content its declared hash belongs to.
Change == [path: Paths, stat: Version, content: Version, sha: Version]

\* runInitialSync: `todo` not yet hashed, `deletes` for the metadata batch,
\* `plan` not yet sent, `next` the revision predicted for the next batch,
\* `top` the highest one acked, `failed` how the first batch to fail failed,
\* `owed` the flushes flushNow waits for.
Sync == [at: {"start", "walk", "hash", "meta", "upload", "flush", "push",
              "pushed", "complete", "sent", "over"},
         walked: [Paths -> Version], todo: SUBSET Paths, deletes: SUBSET Paths,
         plan: SUBSET Change, next: Nat, top: Nat, failed: {"no", "ack", "late"}, owed: Nat]

NewSync == [at |-> "start", walked |-> [p \in Paths |-> 0], todo |-> {}, deletes |-> {},
            plan |-> {}, next |-> 0, top |-> 0, failed |-> "no", owed |-> 0]

Delta(base, changes) ==
    [kind |-> "delta", id |-> batches + 1, base |-> base, changes |-> changes]
Ack(id, code, revision) == [kind |-> "ack", id |-> id, code |-> code, rev |-> revision]

-----------------------------------------------------------------------------
(* Helpers                                                                 *)

Present == {p \in Paths : local[p] # 0}

\* What a flush of a path set finds on disk: an upsert, or a delete if the
\* watcher's index knows the file.
Upserted(paths) == {[path |-> p, stat |-> local[p], content |-> local[p], sha |-> local[p]] :
                        p \in paths \cap Present}
Deleted(paths)  == {[path |-> p, stat |-> 0, content |-> 0, sha |-> 0] : p \in paths}
Found(paths) == Upserted(paths) \cup Deleted((paths \ Present) \cap index)

\* (slip) the earlier one wins.
OverlayKeepingOlder(older, newer) ==
    older \cup {c \in newer : \A d \in older : d.path # c.path}

\* Map.set, one change per path: the later one wins.
Overlay(older, newer) ==
    {c \in older : \A d \in newer : d.path # c.path} \cup newer

\* sendDeltaAndWaitAck and registerPendingAck.
Send(base, changes) ==
    /\ c2s' = Append(c2s, Delta(base, changes))
    /\ batches' = batches + 1
    /\ awaited' = awaited \cup {batches + 1}

\* waitForCapacity is what the uploads are stuck in.
Full == Cardinality(awaited) >= MaxInflight
Uploading == sync.at = "upload" /\ sync.plan # {}

\* Between two awaits the upload loop sends all it may.
Pumped == Uploading => Full

\* transitionToPassive; stopWatcher drops what the watcher still had.  An
\* upload loop aborted in waitForCapacity throws before it reaches
\* Promise.allSettled: the batches it started are rejected and nobody
\* handles it, which ends the process.
GiveUp(message) ==
    /\ state' = IF Uploading THEN "crashed" ELSE "passive"
    /\ c2s' = c2s \o message \o IF Uploading THEN <<[kind |-> "closed"]>> ELSE <<>>
    /\ rev' = 0
    /\ buffered' = {} /\ pending' = {} /\ awaited' = {}
    /\ sync' = [NewSync EXCEPT !.at = "over"]
    /\ watch' = "off" /\ index' = {} /\ dirty' = {} /\ chain' = <<>>
    /\ heard' = {} /\ missed' = {}

Passive == GiveUp(<<>>)
PassiveWithFault == GiveUp(<<[kind |-> "fault"]>>)

-----------------------------------------------------------------------------
\* An assignment just arrived.  The manifest it carries is what an earlier
\* connection left: nothing, or the version that is (or was) on disk.
Init ==
    /\ local \in [Paths -> {0, 1}]
    /\ entries \in [Paths -> {NoEntry, [stat |-> 1, content |-> 1]}]
    /\ newest = 1 /\ removes = 0
    /\ watch = "off" /\ index = {} /\ dirty = {} /\ chain = <<>>
    /\ heard = {} /\ missed = {}
    /\ state = "syncing" /\ rev = 0
    /\ buffered = {} /\ pending = {}
    /\ sync = NewSync
    /\ awaited = {} /\ batches = 0 /\ timeouts = 0
    /\ c2s = <<>> /\ s2c = <<>>
    /\ executor = TRUE /\ ready = FALSE
    /\ taskRev = 0 /\ storeRev = 0

-----------------------------------------------------------------------------
(* The user's files                                                        *)

\* onFsEvent: chokidar has reached the file, and raises every change from now on.
Noticed(p) ==
    /\ watch = "on"
    /\ dirty' = dirty \cup {p} /\ heard' = heard \cup {p} /\ missed' = missed \ {p}

\* Nobody watches, or chokidar's own scan, which nobody waits for, has not
\* reached the file: with ignoreInitial it will take the file as it finds it.
Unnoticed(p) ==
    /\ watch # "on" \/ p \notin heard
    /\ missed' = IF watch = "on" /\ sync.at # "walk" THEN missed \cup {p} ELSE missed
    /\ UNCHANGED <<dirty, heard>>

\* Any program writes or removes a file.
Written(p, v) ==
    /\ local' = [local EXCEPT ![p] = v]
    /\ Noticed(p) \/ Unnoticed(p)
    /\ UNCHANGED <<watch, index, chain, machine, c2s, s2c, server>>

Edit(p) ==
    /\ newest + removes <= MaxChanges
    /\ Written(p, newest + 1)
    /\ newest' = newest + 1
    /\ UNCHANGED removes

Remove(p) ==
    /\ local[p] # 0 /\ removes < MaxRemoves /\ newest + removes <= MaxChanges
    /\ Written(p, 0)
    /\ removes' = removes + 1
    /\ UNCHANGED newest

-----------------------------------------------------------------------------
(* The watcher                                                             *)

\* start(): rebuildLocalIndex ...
WatcherIndexes ==
    /\ sync.at = "start" /\ watch = "off"
    /\ index' = Present /\ watch' = "indexed"
    /\ UNCHANGED <<disk, heard, missed, dirty, chain, machine, c2s, s2c, server>>

\* ... and then backend.watch, which returns before chokidar is "ready".
WatcherArms ==
    /\ watch = "indexed"
    /\ watch' = "on"
    /\ sync' = [sync EXCEPT !.at = "walk"]
    /\ UNCHANGED <<disk, index, heard, missed, dirty, chain, state, rev, buffered, pending, awaited, batches,
                   timeouts, c2s, s2c, server>>

\* The debounce timer: enqueueFlush.
FlushTimer ==
    /\ watch = "on" /\ dirty # {}
    /\ chain' = Append(chain, dirty) /\ dirty' = {}
    /\ UNCHANGED <<disk, watch, index, heard, missed, machine, c2s, s2c, server>>

\* One link of the flush chain: build the changes and hand them to
\* handleWatcherChanges, which files them by the state it finds.  A file that
\* cannot be read gives no change.
Flush ==
    /\ chain # <<>>
    /\ \E unread \in SUBSET (Head(chain) \cap Present) :
       LET paths == Head(chain)
           found == Found(paths \ unread)
       IN /\ unread # {} => Faults
          /\ missed' = missed \cup unread
          /\ index' = (index \ paths) \cup (paths \cap Present)
          /\ chain' = Tail(chain)
          /\ IF state = "syncing"
             THEN buffered' = Overlay(buffered, found) /\ UNCHANGED pending
             ELSE pending' = Overlay(pending, found) /\ UNCHANGED buffered
    /\ sync' = IF sync.at # "flush" THEN sync
               ELSE [sync EXCEPT !.owed = @ - 1,
                                 !.at = IF sync.owed = 1 THEN "push" ELSE @]
    /\ UNCHANGED <<disk, watch, heard, dirty, state, rev, awaited, batches, timeouts,
                   c2s, s2c, server>>

\* emitFault(fatal): EMFILE, ENOSPC and the like.
WatcherFails ==
    /\ Faults /\ watch = "on" /\ Pumped
    /\ PassiveWithFault
    /\ UNCHANGED <<disk, batches, timeouts, s2c, server>>

-----------------------------------------------------------------------------
(* The initial sync                                                        *)

\* walkScope stats every file and hashScope compares with the manifest.
Walk ==
    /\ sync.at = "walk"
    /\ sync' = [sync EXCEPT !.at = "hash", !.walked = local,
                            !.todo = {p \in Present : entries[p].stat # local[p]},
                            !.deletes = {p \in Paths \ Present : entries[p] # NoEntry}]
    /\ UNCHANGED <<disk, watcher, state, rev, buffered, pending, awaited, batches, timeouts,
                   c2s, s2c, server>>

\* buildUpsertChange reads the file now but looks the hash up under the stat
\* of the walk.
Hash(p) ==
    /\ sync.at = "hash" /\ p \in sync.todo
    /\ local[p] # 0
    /\ \E sha \in {local[p]} \cup {v \in {1} : p \in Hits /\ sync.walked[p] = v} :
          sync' = [sync EXCEPT
            !.todo = @ \ {p},
            !.plan = @ \cup {[path |-> p, stat |-> sync.walked[p],
                              content |-> local[p], sha |-> sha]}]
    /\ UNCHANGED <<disk, watcher, state, rev, buffered, pending, awaited, batches, timeouts,
                   c2s, s2c, server>>

\* The file is gone: the whole sync fails with LOCAL_SCAN_FAILED.
HashFails(p) ==
    /\ sync.at = "hash" /\ p \in sync.todo
    /\ local[p] = 0
    /\ PassiveWithFault
    /\ UNCHANGED <<disk, batches, timeouts, s2c, server>>

\* pushInitialDeltaBatches: the metadata batch first ...
SendMeta ==
    /\ sync.at = "hash" /\ sync.todo = {}
    /\ IF sync.deletes = {}
       THEN sync' = [sync EXCEPT !.at = "upload"] /\ UNCHANGED <<c2s, batches, awaited>>
       ELSE sync' = [sync EXCEPT !.at = "meta"] /\ Send(0, Deleted(sync.deletes))
    /\ UNCHANGED <<disk, watcher, state, rev, buffered, pending, timeouts, s2c, server>>

\* (slip) the prediction does not advance.
SendUploadOnSameBase(c) ==
    /\ sync.at = "upload" /\ c \in sync.plan
    /\ ~Full
    /\ Send(sync.next, {c})
    /\ sync' = [sync EXCEPT !.plan = @ \ {c}]
    /\ UNCHANGED <<disk, watcher, state, rev, buffered, pending, timeouts, s2c, server>>

\* ... then one batch per file, each on the revision predicted for it,
\* without waiting for the ack of the one before.
SendUpload(c) ==
    /\ sync.at = "upload" /\ c \in sync.plan
    /\ ~Full
    /\ Send(sync.next, {c})
    /\ sync' = [sync EXCEPT !.plan = @ \ {c}, !.next = @ + 1]
    /\ UNCHANGED <<disk, watcher, state, rev, buffered, pending, timeouts, s2c, server>>

\* A batch failed and the loop waits for capacity once more: the failed
\* one's promise still has no handler when the event loop turns.
UploadCrashes ==
    /\ Uploading /\ Full /\ sync.failed # "no"
    /\ Passive
    /\ UNCHANGED <<disk, batches, timeouts, s2c, server>>

\* (slip) only an ack's error is expected.
UploadFailsOnAckOnly ==
    /\ sync.at = "upload" /\ sync.plan = {} /\ awaited = {}
    /\ sync.failed = "ack" /\ Passive
    /\ UNCHANGED <<disk, batches, timeouts, s2c, server>>

\* The last batch is out when a failure surfaces: allSettled handles it.
UploadFails ==
    /\ sync.at = "upload" /\ sync.plan = {} /\ awaited = {}
    /\ \/ sync.failed = "ack" /\ Passive
       \/ sync.failed = "late" /\ PassiveWithFault
    /\ UNCHANGED <<disk, batches, timeouts, s2c, server>>

\* (slip) flushNow does not count its own flush.
UploadedMiscounting ==
    /\ sync.at = "upload" /\ sync.plan = {} /\ awaited = {} /\ sync.failed = "no"
    /\ rev' = sync.top
    /\ IF dirty = {}
       THEN sync' = [sync EXCEPT !.at = "push"] /\ UNCHANGED <<chain, dirty>>
       ELSE /\ chain' = Append(chain, dirty) /\ dirty' = {}
            /\ sync' = [sync EXCEPT !.at = "flush", !.owed = Len(chain)]
    /\ UNCHANGED <<disk, watch, index, heard, missed, state, buffered, pending, awaited,
                   batches, timeouts, c2s, s2c, server>>

\* Everything acked: take over the revision and flush the watcher.
Uploaded ==
    /\ sync.at = "upload" /\ sync.plan = {} /\ awaited = {} /\ sync.failed = "no"
    /\ rev' = sync.top
    /\ IF dirty = {}
       THEN sync' = [sync EXCEPT !.at = "push"] /\ UNCHANGED <<chain, dirty>>
       ELSE /\ chain' = Append(chain, dirty) /\ dirty' = {}
            /\ sync' = [sync EXCEPT !.at = "flush", !.owed = Len(chain) + 1]
    /\ UNCHANGED <<disk, watch, index, heard, missed, state, buffered, pending, awaited,
                   batches, timeouts, c2s, s2c, server>>

\* What was buffered meanwhile goes out as one live batch.
PushBuffered ==
    /\ sync.at = "push"
    /\ IF buffered = {}
       THEN sync' = [sync EXCEPT !.at = "complete"] /\ UNCHANGED <<c2s, batches, awaited>>
       ELSE sync' = [sync EXCEPT !.at = "pushed"] /\ Send(rev, buffered)
    /\ buffered' = {}
    /\ UNCHANGED <<disk, watcher, state, rev, pending, timeouts, s2c, server>>

SendComplete ==
    /\ sync.at = "complete"
    /\ c2s' = Append(c2s, [kind |-> "complete", base |-> rev])
    /\ sync' = [sync EXCEPT !.at = "sent"]
    /\ UNCHANGED <<disk, watcher, state, rev, buffered, pending, awaited, batches, timeouts,
                   s2c, server>>

\* The send resolved: from now on the live drain takes over.
StartWatching ==
    /\ sync.at = "sent"
    /\ state' = "watching"
    /\ sync' = [NewSync EXCEPT !.at = "over"]
    /\ UNCHANGED <<disk, watcher, rev, buffered, pending, awaited, batches, timeouts,
                   c2s, s2c, server>>

-----------------------------------------------------------------------------
(* Live batches, acks, timeouts                                            *)

\* scheduleLiveDrain: one batch at a time, all that is pending.
Drain ==
    /\ state = "watching" /\ pending # {} /\ awaited = {}
    /\ Send(rev, pending)
    /\ pending' = {}
    /\ UNCHANGED <<disk, watcher, state, rev, buffered, sync, timeouts, s2c, server>>

\* (slip) the client counts revisions itself.
AcceptedCounting(ack) ==
    /\ ack.id \in awaited /\ ack.code = "ok"
    /\ awaited' = awaited \ {ack.id}
    /\ rev' = rev + 1
    /\ sync' = CASE sync.at = "meta" -> [sync EXCEPT !.at = "upload", !.next = 1, !.top = 1]
                 [] sync.at = "upload" -> [sync EXCEPT !.top = @ + 1]
                 [] sync.at = "pushed" -> [sync EXCEPT !.at = "complete"]
                 [] OTHER -> sync
    /\ UNCHANGED <<watcher, state, buffered, pending, c2s>>

\* An ack somebody waits for, positive ...
Accepted(ack) ==
    /\ ack.id \in awaited /\ ack.code = "ok"
    /\ awaited' = awaited \ {ack.id}
    /\ CASE sync.at = "meta" ->
              sync' = [sync EXCEPT !.at = "upload", !.next = ack.rev, !.top = ack.rev]
              /\ UNCHANGED rev
         [] sync.at = "upload" ->
              sync' = [sync EXCEPT !.top = IF ack.rev > @ THEN ack.rev ELSE @]
              /\ UNCHANGED rev
         [] sync.at = "pushed" ->
              sync' = [sync EXCEPT !.at = "complete"] /\ rev' = ack.rev
         [] OTHER -> rev' = ack.rev /\ UNCHANGED sync
    /\ UNCHANGED <<watcher, state, buffered, pending, c2s>>

\* ... or negative; one failed upload fails all that are under way.  Anybody's
\* ack that says the assignment is gone ends it.
TokenGone(ack) == ack.code \in {"NOT_ACTIVE", "STALE_ASSIGNMENT"} /\ state \notin {"passive", "crashed"}
Refused(ack) ==
    \/ TokenGone(ack) /\ Passive
    \/ /\ ~TokenGone(ack) /\ ack.id \in awaited /\ ack.code # "ok"
       /\ IF sync.at # "upload" THEN Passive
          ELSE /\ awaited' = {} /\ sync' = [sync EXCEPT !.failed = "ack"]
               /\ UNCHANGED <<watcher, state, rev, buffered, pending, c2s>>

Ignored(ack) ==
    /\ ack.id \notin awaited /\ ~TokenGone(ack)
    /\ UNCHANGED <<watcher, state, rev, buffered, pending, sync, awaited, c2s>>

ReceiveAck ==
    /\ s2c # <<>> /\ Pumped
    /\ s2c' = Tail(s2c)
    /\ LET ack == Head(s2c) IN Accepted(ack) \/ Refused(ack) \/ Ignored(ack)
    /\ UNCHANGED <<disk, batches, timeouts, server>>

\* ackTimeoutMs pass: an initial sync fails for good, a live batch is dropped.
AckTimeout(id) ==
    /\ id \in awaited /\ timeouts < MaxTimeouts /\ Pumped
    /\ timeouts' = timeouts + 1
    /\ \/ state = "syncing" /\ sync.at # "upload" /\ PassiveWithFault
       \/ /\ sync.at = "upload"
          /\ awaited' = {} /\ sync' = [sync EXCEPT !.failed = "late"]
          /\ UNCHANGED <<watcher, state, rev, buffered, pending, c2s>>
       \/ /\ state = "watching"
          /\ awaited' = awaited \ {id}
          /\ UNCHANGED <<watcher, state, rev, buffered, pending, sync, c2s>>
    /\ UNCHANGED <<disk, batches, s2c, server>>

-----------------------------------------------------------------------------
(* The server: the handlers of CacheTaskManager for this one client        *)

\* loadManifest: what is on disk, or an empty manifest if that cannot be read.
Manifest == [rev |-> storeRev, entries |-> entries]
EmptyManifest == [rev |-> 0, entries |-> [p \in Paths |-> NoEntry]]
ManifestsRead == {Manifest} \cup {m \in {EmptyManifest} : Faults}

Applied(manifest, changes) ==
    [p \in Paths |->
        IF \E c \in changes : c.path = p
        THEN LET c == CHOOSE c \in changes : c.path = p
             IN [stat |-> c.stat, content |-> c.content]
        ELSE manifest.entries[p]]

Verdict(d) ==
    CASE ~executor -> "NOT_ACTIVE"
      [] executor /\ d.base # taskRev -> "STALE_REVISION"
      [] executor /\ d.base = taskRev /\ (\E c \in d.changes : c.sha # c.content) ->
           "SHA256_MISMATCH"
      [] OTHER -> "ok"

Reply(id, code, revision) == s2c' = Append(s2c, Ack(id, code, revision))

ServeDelta ==
    /\ c2s # <<>> /\ Head(c2s).kind = "delta"
    /\ c2s' = Tail(c2s)
    /\ LET d == Head(c2s)
       IN \/ /\ Verdict(d) # "ok"
             /\ Reply(d.id, Verdict(d), 0)
             /\ UNCHANGED <<taskRev, storeRev, entries>>
          \/ /\ Verdict(d) = "ok"
             /\ \E manifest \in ManifestsRead :
                   /\ storeRev' = manifest.rev + 1
                   /\ entries' = Applied(manifest, d.changes)
             /\ taskRev' = storeRev'
             /\ Reply(d.id, "ok", storeRev')
          \/ /\ Verdict(d) = "ok" /\ Faults
             /\ Reply(d.id, "STORE_WRITE_FAILED", 0)
             /\ UNCHANGED <<taskRev, storeRev, entries>>
    /\ UNCHANGED <<disk, watcher, machine, executor, ready>>

\* A sync that claims a revision the task does not have is done over, under
\* another assignment; updateScopeTruncated writes the manifest it read, or
\* throws.
ServeComplete ==
    /\ c2s # <<>> /\ Head(c2s).kind = "complete"
    /\ c2s' = Tail(c2s)
    /\ \/ /\ executor /\ taskRev >= Head(c2s).base
          /\ ready' = TRUE
          /\ \E manifest \in ManifestsRead :
                storeRev' = manifest.rev /\ entries' = manifest.entries
          /\ UNCHANGED executor
       \/ /\ executor /\ taskRev < Head(c2s).base
          /\ executor' = FALSE /\ ready' = FALSE
          /\ UNCHANGED <<storeRev, entries>>
       \/ /\ ~executor \/ Faults
          /\ UNCHANGED <<executor, ready, storeRev, entries>>
    /\ UNCHANGED <<disk, watcher, machine, s2c, taskRev>>

\* A fatal fault or the end of the connection: failover, here to nobody.
ServeFault ==
    /\ c2s # <<>> /\ Head(c2s).kind \in {"fault", "closed"}
    /\ c2s' = Tail(c2s)
    /\ executor' = FALSE /\ ready' = FALSE
    /\ UNCHANGED <<disk, watcher, machine, s2c, taskRev, storeRev, entries>>

\* (slip) only a task that is ready is swept.
SweepWhenReady ==
    /\ executor /\ ready
    /\ state \in {"passive", "crashed"} \/ Faults
    /\ executor' = FALSE /\ ready' = FALSE
    /\ UNCHANGED <<disk, watcher, machine, c2s, s2c, taskRev, storeRev, entries>>

\* sweepHeartbeats: a passive client no longer sends any, another one's may be late.
Sweep ==
    /\ executor
    /\ state \in {"passive", "crashed"} \/ Faults
    /\ executor' = FALSE /\ ready' = FALSE
    /\ UNCHANGED <<disk, watcher, machine, c2s, s2c, taskRev, storeRev, entries>>

\* Another task of the device, or its GC, writes the manifest.
OtherWriter ==
    /\ storeRev - taskRev < MaxOther
    /\ \E manifest \in ManifestsRead :
          storeRev' = manifest.rev + 1 /\ entries' = manifest.entries
    /\ UNCHANGED <<disk, watcher, machine, c2s, s2c, executor, ready, taskRev>>

-----------------------------------------------------------------------------
Client ==
    \/ WatcherIndexes \/ WatcherArms \/ FlushTimer \/ Flush
    \/ Walk \/ SendMeta \/ UploadCrashes \/ UploadFails \/ Uploaded \/ PushBuffered \/ SendComplete \/ StartWatching
    \/ \E p \in Paths : Hash(p) \/ HashFails(p)
    \/ \E c \in sync.plan : SendUpload(c)
    \/ Drain \/ ReceiveAck

Server == ServeDelta \/ ServeComplete \/ ServeFault

Next ==
    \/ \E p \in Paths : Edit(p) \/ Remove(p)
    \/ Client \/ Server
    \/ WatcherFails \/ Sweep \/ OtherWriter
    \/ \E id \in awaited : AckTimeout(id)

Spec == Init /\ [][Next]_vars

\* Both event loops run, the sockets deliver, the sweep timer fires.
FairSpec == Spec /\ WF_vars(Client) /\ WF_vars(Server) /\ WF_vars(Sweep)

-----------------------------------------------------------------------------
(* Properties                                                              *)

Codes == {"ok", "NOT_ACTIVE", "STALE_REVISION", "SHA256_MISMATCH", "STORE_WRITE_FAILED"}
Request ==
    [kind: {"delta"}, id: Nat, base: Nat, changes: SUBSET Change]
        \cup [kind: {"complete"}, base: Nat] \cup [kind: {"fault", "closed"}]

\* Every variable keeps its type.
TypeOK ==
    /\ local \in [Paths -> Version] /\ newest \in Version /\ removes \in Nat
    /\ watch \in {"off", "indexed", "on"}
    /\ index \subseteq Paths /\ heard \subseteq Paths /\ missed \subseteq Paths /\ dirty \subseteq Paths
    /\ chain \in Seq(SUBSET Paths)
    /\ state \in {"syncing", "watching", "passive", "crashed"}
    /\ rev \in Nat /\ batches \in Nat /\ timeouts \in Nat
    /\ buffered \subseteq Change /\ pending \subseteq Change
    /\ sync \in Sync
    /\ awaited \subseteq 1..batches
    /\ \A i \in DOMAIN c2s : c2s[i] \in Request
    /\ s2c \in Seq([kind: {"ack"}, id: 1..batches, code: Codes, rev: Nat])
    /\ executor \in BOOLEAN /\ ready \in BOOLEAN
    /\ taskRev \in Nat /\ storeRev \in Nat
    /\ entries \in [Paths -> Entry]

\* The server answers reads from the manifest, for a client that believes it
\* pushes every change and has not been told otherwise.
Served ==
    /\ ready /\ executor /\ state = "watching"
    /\ \A i \in DOMAIN s2c : s2c[i].code = "ok"

Stale(p) == entries[p] # NoEntry /\ entries[p].content # local[p]

\* Where the change that mends a stale entry may still be.
Named(changes, p) == \E c \in changes : c.path = p
Stranded(p) == Named(buffered, p)
Underway(p) ==
    \/ p \in dirty
    \/ \E i \in DOMAIN chain : p \in chain[i]
    \/ Named(pending, p)
    \/ \E i \in DOMAIN c2s : c2s[i].kind = "delta" /\ Named(c2s[i].changes, p)

\* The changes that are lost: those filed in the buffer of the initial sync
\* behind its last look at it, and those the watcher missed.
Lost(p) == Stranded(p) \/ p \in missed

\* An entry that is served and out of date is on its way between the watcher,
\* the live batches and the server, unless its change is one of the two kinds
\* that are lost: no other one is on the way from the walk of the disk to the
\* manifest.
StaleIsUnderway == Served => \A p \in Paths : Stale(p) => Underway(p) \/ Lost(p)

\* A client that writes the manifest alone and gets its acks in time is never
\* refused: the revisions pushInitialDeltaBatches predicts for the batches it
\* does not wait for are the ones the server gives them.
NeverRefused ==
    (MaxOther = 0 /\ timeouts = 0) => \A i \in DOMAIN s2c : s2c[i].code = "ok"

\* With nothing under way, client and server agree on the revision the next
\* batch builds on.
RevisionsAgree ==
    Served /\ timeouts = 0 /\ awaited = {} => rev = taskRev

\* An initial sync ends, whatever fails on the way.
SyncSettles == state = "syncing" ~> state # "syncing"

\* A client that gave up does not stay the executor: somebody tells the
\* server, or the sweep finds out.
GivingUpIsNoticed == state \in {"passive", "crashed"} ~> ~executor

=============================================================================
