# Cerelay in TLA+

Cerelay runs Claude Code on a server and executes its tool calls, and serves its
file reads, on the developer's machine. This directory models the parts of it in
which something can go wrong between two steps: who may write the server's cache
of the client's files, what a handler still believes after an `await`, what is on
disk when an operation fails half-way, what happens to an edit made while the
initial sync is still under way, what a FUSE daemon remembers of a disk it cannot
see, and what is left of a session when its end comes at the wrong moment.

Paths below are relative to the repository's root (`server/`, `client/`, `docs/`).

## 1. Inventory

A client opens one WebSocket to the server. Over it travel the terminal of a
session, tool calls and their results, requests of the FUSE file system that the
server mounts for Claude Code (the client answers them from its disk), and the
cache task: one of a device's connections, the active executor, uploads what its
watched directories hold so that the server can answer most FUSE reads itself.

| Component | State it keeps | Operations | Talks to |
|---|---|---|---|
| Cache task manager (`server/src/cache-task-manager.ts`) | one record per (device, cwd): phase, active client, assignment id, revision, candidates, heartbeat, read bypasses, recent mutation ids; a promise chain per key | hello, disconnect, heartbeat, fault, delta, sync complete, mutation hint, sweep | registry, store, sockets |
| Client registry (`client-registry.ts`) | connections, cache keys, bound sessions | register, attach hello, unregister, bind, send | every server handler |
| Cache store (`file-agent/store.ts`) | manifest and blobs of a device on disk, a promise chain per device | apply delta, remove, mark truncated, look up, sweep blobs | manager, file agent, FUSE reads |
| File agent (`file-agent/*.ts`) | expiry times, in-flight fetches, the collection's timer | prefetch, bump, delta applied, collect | store, sessions, config preloader |
| Client cache task (`client/src/cache-task-state-machine.ts`) | state, assignment, revision, buffered and pending changes, acks awaited | assignment, initial sync, live batches, heartbeat, passive | manager, watcher |
| Client scan and sync (`cache-sync.ts`, `scan-cache.ts`, `cache-watcher.ts`) | hash cache, suppressed paths, debounce timer, index of the tree | walk, hash, upload, watch, flush | state machine, disk |
| File proxy (`file-proxy-manager.ts`, `client/src/file-proxy.ts`, `fuse-host-script.ts`) | pending requests, start-up snapshot, missing paths, open handles | request, response, time-out, write, rename, cached read | FUSE daemon, store, ledger |
| Access ledger (`access-ledger.ts`, `access-event-buffer.ts`) | files, directories and missing paths a device has touched | record, rename, merge, flush, age | file proxy, sync plan |
| Sessions (`server.ts`, `pty-session.ts`, `claude-session-runtime.ts`) | terminal entries, relays, proxies, runtime directories by session | create, input, close, exit, disconnect | everything |
| Tool calls (`relay.ts`, `claude-tool-bridge.ts`, `client/src/executor.ts`) | calls awaiting a result, each with a timer | create, resolve, reject, clean up | sessions, client tools |
| Shadow MCP (`mcp-ipc-host.ts`, `mcp-routed/*.ts`) | one socket per session, its handshake, calls in flight | connect, hello, call, close | relay |
| Sync plan (`sync-plan.ts`) | nothing | compute the client's first walk from the ledger | access ledger, client scan |
| Client process (`client/src/client.ts`, `index.ts`) | socket, session, kept messages, raw mode of the terminal | connect, greet, create, attach, send results, close, signals | server, cache task |
| Config preloader (`config-preloader.ts`) | nothing of its own | prefetch settings before a session starts | file agent |
| Everything else | - | settings redaction, tokens, statistics, logging, protocol types, client tools, command line, web console, scripts | - |

Behaviours that are hard to test, and what must hold in spite of them:

- **Cache task manager.** Handlers capture state, then wait in a promise chain,
  then wait for the disk; sockets shut in between; messages go out after the lock
  is released. Only the active executor under its current assignment writes; a
  failover forgets nobody; no client wrongly believes to be the executor; "ready"
  belongs to the assignment that synchronised.
- **Store.** A read-modify-write of a file over several awaits, failures and
  process death at each. Operations are atomic and in order; an entry's blob is
  there.
- **File agent.** A collection that plans first and acts later, among reads and
  deltas. What was written is tracked, expired goes, renewed stays, orphans go.
- **Client sync.** A walk, hashing, pipelined uploads with predicted revisions,
  a watcher and a buffer, all while the user edits. No edit gets lost; both ends
  agree on the revision; a sync ends; a failure is noticed.
- **Sessions, tool calls, shadow MCP.** Resources acquired over many
  awaits and released by a close that may come at any of them; answers later than
  their timer. A session that ended leaves nothing; a call is answered, and runs once.
- **File proxy and daemon.** Two threads of a daemon change and look, two timers may
  give up what goes on, and a control pipe and the answers reach the daemon in an
  order of their own. Every request is answered; no file that is there is denied; what
  is remembered is true.
- **Reads from the server's copy.** Written on the client, read on the server: a
  session reads what it wrote although the copy follows later, and the copy does follow.
- **Access ledger.** Sessions of one device note what they see and do and write one
  file, without a lock around reading it and writing it. It never calls an existing
  path missing; its indices say what its entries say; no flush waits for ever.
- **Client process.** One wait after the other, each with listeners of its own, beside an
  assignment that comes and goes, signals and a connection that may end. The output is
  whole; the terminal is given back; a revoked client is silent; the process ends.

`PROJECT.json` lists every hazard at its line, with the property that covers it
or the reason why none does yet.

## 2. Modules

| Module | What it is |
|---|---|
| `CacheTaskManager` | the server side of one cache task |
| `CacheTaskManager_proofs` | its inductive invariant and theorems |
| `CacheTaskSync` | one executor's sync and live batches against the delta handler |
| `CacheTaskSync_proofs` | its inductive invariants and theorems |
| `CacheManifest` | a device's manifest as data, and the effect of each store operation |
| `AtomicManifest` | what the store promises: operations one at a time, each at one instant or not at all |
| `ClientCacheStore` | the store step by step; refines `AtomicManifest` |
| `FileAgent` | the store composed with the file agent, its readers, and deltas |
| `FileAgent_proofs` | the store's inductive invariant and its refinement; the composition keeps what the store promises, and tracks what is written |
| `CacheReadThrough` | reads and writes of a session through the proxy, the client's watcher and queue, hints, bypasses and the manager's filter |
| `SortedPaths` | paths, and the sorted arrays of them that are searched by bisection |
| `ClientFiles` | the client's disk: what a change does to it, and the shallowest missing ancestor |
| `FuseCache` | the FUSE daemon's memory: `NegativeCache` and `Cache` |
| `FileProxy` | a session's proxied files: daemon threads, manager, client, control pipe, and the start |
| `FileProxy_proofs` | its inductive invariant and theorems, and two on the negative cache |
| `AccessLedger` | a device's ledger with its indices, every operation on it, and the plan of the first walk |
| `LedgerFlush` | sessions of a device that note, flush and age the ledger |
| `LedgerFlush_proofs` | its inductive invariant and theorems |
| `Sessions` | creation, use and end of a PTY session and of all it takes |
| `Sessions_proofs` | its inductive invariant and theorems; then those of `CacheReadThrough`, what a session reads |
| `ToolCallContract` | what a caller may expect of a tool call: it runs at most once, a result is that of the run |
| `ToolCalls` | the path of a tool call through hook or MCP server, relay and client; refines `ToolCallContract` |
| `ToolCalls_proofs` | its inductive invariant and theorems, and the refinement |
| `ClientProcess` | the client from the open socket to the end of its process, with the cache task's assignments beside it |
| `ClientProcess_proofs` | its inductive invariants and theorems |
| `MC*` | symmetry sets and input sets of the instances TLC checks |

Definitions whose comment starts with `(slip)` are not part of any specification:
each is the definition that follows it with one plausible mistake, against which
the properties are tested.

**Mishaps.** Four modules keep a history variable `mishap`. The code is meant to keep a
property there that it does not keep in a handful of situations, each of which is
named, noted by the action that meets it, and described in section 6. The property is
stated for the behaviours without them, the others stay in the model: for each name,
leaving the premise out for it alone makes TLC find a violation of one of the properties, so no name excuses what does not really happen.
For "moved missing" of `LedgerFlush` that takes six requests, more than the run `ledger` makes: the
violation appears with two sessions, four paths and `MaxSteps = 6`, and with the premise that instance passes.
In `CacheReadThrough` and `ClientProcess`, where the two properties suffer from different
mishaps, each excepts only its own.

### CacheTaskManager

One (device, cwd) key. `task` is the record of `CacheTaskManager.tasks`; `mapped`
and `gen` say whether it is in the map and which incarnation it is, because a
handler keeps the record it captured before it waited. `queue` is the chain of
`withTaskLock`; `pc` names the await its head is in (`loadManifest` of an election,
failover or resync; `applyDelta` of the store; `updateScopeTruncated` of a completed
sync). `Receive*`, `CloseEvent` and
`SweepTimer` are what each handler does before the lock, `Enter*` the critical
section up to its first real wait, `Assigned`, `DeltaWritten`, `DeltaFailed`, `SyncCompleted`
and `SyncNotCompleted` the rest. `sending` holds calls of `sendMessages`, which send one message after
the other outside the lock; `told` is the last assignment written to each socket,
`owner` the history of assignments.

Node runs all microtasks before the next event: with the lock free, the next
handler starts its critical section before anything else happens
(`EventLoopIdle`). Time is two flags, `beat` and `cooldown`, that may expire at
any moment. Another task of the device may write the manifest (`OtherWriter`). Whoever
reads it, this task or another, may fail to, and then finds an empty one of revision 0
(`RevisionsRead`), which a write makes permanent: `setBack` remembers that this has happened
since the task took its revision over.

Left out: read bypasses and the filter of repeated mutation ids, which are
`CacheReadThrough` (a delta may be
admitted and write nothing, which covers the filter's effect on the revision),
the plan and manifest carried by an assignment, and the wording of logs.

### CacheTaskSync

One assignment from its arrival at the client to its end. A version stands for a
file's content and its (size, mtime). The walk, each hash, each upload, the buffered
batch and `sync_complete` are separate steps, since the user, the watcher and the
server act between them; `sync.at` is the await that `runInitialSync` is in. The
sockets are two FIFO queues. The server is `applyDelta` and
`completeInitialSync` for this one client; that these run atomically, one after
the other, and only for the current assignment is what `CacheTaskManager` shows.

`chokidar.watch` returns before its own scan of the tree has ended, and with `ignoreInitial` a
file that the scan has yet to reach is taken as it is then. So from `WatcherArms` on, a
change is `Noticed`, and all that follow it for that file (`heard`), or it is `Unnoticed`; the
changes that nobody will speak of any more, and those that a flush could not read, are in `missed`.

`Passive` and `PassiveWithFault` are `transitionToPassive`; "crashed" is a Node
process that ended on a rejection without a handler.

Left out: suppressed mutations (`CacheReadThrough`), the assignments before and after
(`ClientProcess`), the sync plan's filters (all paths of the model are
wanted), the file format of the hash cache (`Hits` says for which files it may
answer with the hash of an older version).

### CacheManifest, AtomicManifest, ClientCacheStore

A blob's name is the hash of its bytes, so one `Content` is bytes, hash and file
name. `After` is the effect of each operation on a manifest; `Stored` adds that
the file is only written when something changed.

`ClientCacheStore` is `withManifestLock` and its users. `queue` is the chain of the
device; the head is the holder once `step` is "holding". `Load` is `loadManifest`,
where any failure to read counts as an empty manifest (`store.ts:98-112`);
`PutChange` is one change of a delta: blob first, then the entry in the copy;
`SweepBlob` one unlink of `gcOrphanBlobs`; `Commit` is the write of a temporary file
and its rename, or the end of an operation that found nothing to change. `Fail` is
an exception anywhere, `Restart` the death of the process: memory goes, files stay.
The rename is taken as atomic; a loss of power is not modelled.

`AtomicManifest` is the contract the manager relies on when it puts
`store.applyDelta` into its critical section: operations in the order of the
requests, each at one instant or refused, nothing lost by a restart. The one
licence it grants, `Unreadable`, is the code's: where the manifest cannot be read
an operation starts from an empty one. The consequences are the store's: the
changes of the next delta become the whole manifest, and the next sweep deletes
every blob. That is why `BlobsPresent` and `WrittenIsTracked` are stated for runs
in which no read failed (`faults = 0`).

### FileAgent

`ClientCacheStore` with everyone who uses it on one device: deltas and truncation marks
from the manager, the collection, prefetches of a starting session, FUSE reads.
An expiry time is "none", "live" or "expired" and may expire at any moment. A
collection (`GcTimer`) computes what has expired once, then evicts one path after
another (`GcEvict` asks, `Evicted` is the answer), skips paths with a fetch in
flight, and sweeps. Readers look an entry up without the lock and act on it later.

A continuation that waited for a promise runs in the turn that settled it, before
any other event: `Commit` and what its caller does with the result are one step
(`DeltaApplied`, `Evicted`, ...), and a collection that was just woken asks before
any new request arrives (`~gc.due` in `Arrives`). A truncation mark is accepted like a
delta. Entries older than the agent, or than a restart, are not in its table by
design (`ttl-table.ts:12-15`), hence `since`, the paths written in its time.

### Sessions

In the deployment with mount namespaces. `step` is the await that
`handleCreatePtySession` and what it calls are in: the runtime's directory, the
snapshot, the FUSE daemon (up to `FUSE_MAX_RETRIES`), the namespace's anchor, its
probe, the PTY helper, the MCP host, the greeting. `held` is everything the session
has taken and not given back. `entry`, `bound` and `routed` are the three tables
that name it (`ptySessions`, the registry's `sessionIds`, `fileProxies`). `closing` is
the await of `ClaudePtySession.close`, `halting` the awaits of calls of
`FileProxyManager.shutdown`, which is not idempotent and may be under way twice.
`Destroy` is `destroyPtySession`: it starts both and waits for neither; `CloseSession`,
`ExitSent` and `DisconnectHandled` call it. `Disconnect` shuts the socket,
`DisconnectHandled` is what the close handler does after its own await.

Daemon, anchor, probe and host may fail (`faults`), and the daemon may die at any
time. Left out: input, output and resizing, the shutdown of the whole server, the
preloader.

### ToolCalls, ToolCallContract

The calls of one session. A hook's call (`Hooked`) is an HTTP request; it finds its
session (`HookAsks`) before its body is read (`HookRead`), and a built-in tool that
the MCP server replaces (`Shadowed`) is not run. The other calls come over the
session's Unix socket (`link`; "cut" once the host has destroyed its end). From there
both take `executeToolViaClient`: `at` is the await it is in. `relay` is
`ToolRelay.pending`, `settled` what has become of the promise that `createPending`
returned, which a result or the timer may settle while the send is still being
awaited. `reply` is what the server has written for the caller and `answer` what the
caller took, which for a call by MCP may be the end of its own timer or of its
socket. `wire` follows the message to the client and back.

`Close` and `Disconnect` are those of `Sessions` as seen from a call: the synchronous
part of `close`, up to its first await. Timers may fire at any moment at which a call
is pending.

Left out: which tools are routed, path rewriting, rendering, the handshake of the
MCP server (a session with a host starts connected), and the time limit that Claude
Code itself puts on a hook.

### CacheReadThrough

One task that is ready, under one assignment, and one session whose daemon reads and
changes files below `~/.claude`. `disk` is the client's, `store` the manifest with its
blobs; a content is known by the moment it was `made`. A change goes `BeginChange`
(`registerMutationHintForPath`, which takes the task's lock and keeps the bypass: one
step, since nothing else of the model holds that lock across an await), `Hint` (the hint
reaches the client's watcher, when the executor is the session's own connection in
front of the change, else at any time), `Execute`. A read asks the bypass first
(`BeginRead`), then the manifest (`LookUp`), and goes to the client otherwise (`Pass`).

Behind it the copy follows: an edit makes a path `dirty`; a flush takes what is there
(`FlushStart`), tags a path with its suppression if there is one (`Tag`), reads it
(`Read`), hands its changes to `pendingLiveChanges`, from which `Push` makes the next
batch; `ApplyDelta` drops changes whose mutation id is in `recent`, ends bypasses and
writes the manifest. Suppressions end by their timer (`Unsuppress`), bypasses by theirs
(`BypassExpires`); `Edit` is the user or a tool on the client, `OtherTask` a task of the
device for another directory that stores something older.

Left out: phases other than ready, revision checks (`CacheTaskSync`), directories as
targets, several sessions for one (device, cwd), a watcher whose own scan has not ended
(`CacheTaskSync`), a `stat` and a `readFile` that see two
versions, skipped files and missing blobs, what kernel and daemon keep (`FileProxy`),
and the length that a read of settings.json asks for.

### SortedPaths, ClientFiles

A path is a sequence of names; `Rank` is the order of the strings they are joined to,
which is not that of a tree walk: `d-b` stands between `d` and `d/x`. A sorted array
without duplicates is the set of its elements, and the three ways in which the code
searches one are `Pred` (`bisect_right` and a step back), `Run` (from the lower bound to
the first element that is not below the path) and `Under` (from the lower bound of the
path with its slash). `ClientFiles` is what `client/src/file-proxy.ts` does to the disk: a
tree, so that what is there lies in directories (`IsTree`), and changes that succeed or fail by
it as the operating system has it (a directory is not renamed into itself).

### FuseCache, FileProxy

`FuseCache` translates the Python classes: `Denies`, `Deny` and `Allow` are `contains`, `put`
and `invalidate_prefix` of the negative cache, `perm` is the layer that the start-up
snapshot fills and nothing expires, `fresh` the one with ten seconds to live.

`FileProxy` begins with the start of a session: the wait for the cache (`waits`, until
the `phase` settles), the snapshot from the manifest or from the client (`Gather`,
`TakeSnapshot`, root by root), the negatives and the ledger's directories (`WriteSnapshot`),
the mount with its retries. Nothing of the manifest or of the ledger is compared with the disk: a
manifest that holds a file as it no longer is, and a ledger that is behind, are the mishaps
"lagging" and "ledger". Then a
thread of the daemon begins an operation (`Begin`): it is answered from memory or becomes
a request. A request is at the pipe, at the server, at the client, on its climb
(the second look for the shallowest missing ancestor), on its way back, or over;
`Receive`, `Send`, `SendFails`, `Resolve`, `Expire`, `Execute`, `Climb` and `Lose` move it. `said` is
what the manager wrote to the daemon, `pending` is `pendingRequests`. `Return` and `GiveUp`
end the thread's wait by the answer or by its thirty seconds; `Control` is the control
thread reading one line. Files are looked at by kind and by who wrote them last.

Left out: shadow files, reads answered from the server's copy (`CacheReadThrough`), the
fallback for `.claude.json`, the ten seconds for which the kernel keeps attributes, broken
links, the end of a fresh entry's time (it may only make the daemon ask), the depth
limits of the snapshot, a crash of the daemon (`Sessions`), what another thread may ask between the two
paths that the return of a rename makes the daemon forget, and `utimens`, `chmod` and `chown`, which
do nothing.

### AccessLedger, LedgerFlush

An entry is "file", "dir" (seen), "listed" (`readdirObserved`) or "missing"; of its time
only whether it is before the cutoff matters (`old`). The three indices are kept by
every operation as the code keeps them, by hand. `SyncPlan` and `Walked` are
`computeSyncPlan` and the paths that the client's walk visits by it.

In `LedgerFlush` a session looks or begins a change (noted before it is sent), gets its
answer (a look is noted then), and flushes: `FlushCall` starts, or waits behind the flush
of its session that `inFlight` names; `Load` reads the file (or takes an unreadable one for an
empty ledger) and drains the buffer, `ApplyOne` and `Write` follow. Sessions end with a last flush
(`Shutdown`, `EndSession`); a restart loses what is in memory, and aging runs before the server
listens again. A flush that ends wakes all that wait for it, and all of them go on.

Left out: the file's format and version, seed paths (a constant), the ledger's copy
in the negatives at start (`FileProxy`).

### ClientProcess

`main` is the await that the main program is in, from the open socket over greeting,
sync and creation to the attached session (`passing`), with a terminal or with `--prompt`.
Messages arrive in chunks, are handled one after another, and go to `pending` as long as
no consumer is attached; what an event resolved goes on before the next event (`Micro`),
while the messages of the same chunk come first. `machine` is the cache task's state, `handler` the
call of `handleActiveAssignment` that is under way, with whether a later message has
made it `stale`, `watcher` the object and its chokidar handle. `closer` holds the calls of
`onDisconnected`: by the main program, by a signal, by the close event. The server is
what the client sees of it: it greets, creates, prints, ends or fails the session, and gives
the connection at most one active assignment and "inactive" at any time
(`CacheTaskManager`). A process ends as Node does when nothing is left to wake it (`Idle`).

Left out: tool calls and file requests in the same loop (`ToolCalls`, `FileProxy`), the
content of the sync (`CacheTaskSync`), spinner, resizing, input, an error that the server sends
about a message in front of the session's, the time limit of an ack, whose timer may keep an
ending process for a minute more, and a fault report that finds the socket closed.

## 3. Runs

Every passing run explores its instance completely.

| Run | Instance | Question and answer |
|---|---|---|
| `ctm_fencing` | 3 connections, 2 handlers in the lock's chain, 2 assignments, the second in place of the first, 1 delta (`TwoAssignments`) | Whatever connects, fails and leaves around the awaits of the lock: writes stay fenced (`WriteFenced`), the task counts a revision that is not on disk only while a write from a failed read is the cause (`RevisionOnDisk`), "ready" is never inherited (`ReadyIsNotInherited`), no failover forgets a standby (`StandbyPromoted`), no candidate keeps believing in an old assignment (`NoFalseExecutor`) |
| `ctm_live` | 2 connections, 4 waiting, one of them a request | A dead executor is replaced in the end, by the sweep if its disconnect came too early (`DeadExecutorReplaced`) |
| `cts_alone` | 3 files, 3 edits, 2 uploads in flight, 1 late ack | A client nobody interferes with: what is served and out of date is on its way, or is one of the two kinds of edits that are lost (`StaleIsUnderway`), no predicted revision is refused (`NeverRefused`) |
| `cts_rough` | 3 files, an edit, a removal, a write by another, one late ack, an outdated hash, unreadable files and manifests, failures of watcher and store, late heartbeats | Every way to fail, at every step: the sync ends (`SyncSettles`), the server notices (`GivingUpIsNoticed`), both ends agree on the revision as far as acks came in time (`RevisionsAgree`) |
| `fa` | 2 paths, 2 contents, 2 deltas, 1 reader; one failed read, failed operation or restart | `BlobsPresent`, `WrittenIsTracked`, and the store implements `AtomicManifest` (`AtomicSpec`); expired paths go or are renewed (`ExpiredGoes`), blobs without a use are swept (`OrphansGo`) |
| `read_through` | 2 files, 3 operations, one thing that goes wrong | With every order of hint, change, event, flush and delta: a session reads what it has written (`ReadsOwnWrites`), and when nothing is under way the server's copy is what the client has (`StoreFollows`). Deadlock is checked |
| `file_proxy` | 7 paths, 4 disks, 2 threads, 3 requests, one thing that goes wrong | Every request is answered (`EachIsAnswered`), no file that is there is denied (`NothingDenied`), the daemon's memory is true (`MemoryIsTrue`), a change that succeeded is seen by its thread (`ChangeIsSeen`). Deadlock is checked |
| `ledger` | 5 paths, 3 disks, 2 sessions, 3 flushes, 3 steps, one thing that goes wrong | The indices stay right (`LedgersIndexed`), no existing path is called missing (`NothingHidden`), the first walk finds what the ledger knows (`PlanReaches`), no flush waits in vain (`WaitersAreWoken`) |
| `ses_life` | 1 session, 3 tries, 4 failures | Whoever ends a session at whatever await: close keeps its order (`HostClosedFirst`), everything but the directory is given back (`Released`), a session whose process ended leaves the table (`ExitedLeaves`) |
| `ses_orphan` | 1 session | finding |
| `tool_calls` | a hook of a replaced tool, another hook, a call by MCP | Against close, exit, disconnect and both timers: nothing is registered behind the clean-up (`ClosedLeavesNone`), a result in time is handed on even if it overtakes its call's send (`TimelyResultKept`), every call is answered (`CallsAnswered`), and the path implements `ToolCallContract` (`ContractSpec`) |
| `client_process` | 2 chunks of output, 2 assignment messages; with and without `--prompt` and cache task | The output is shown whole and in order (`OutputIsWhole`), the terminal is given back (`TerminalIsBack`), a client told to stand by is silent (`RevokedIsSilent`), every wait ends with the connection and then the process (`ProcessEnds`). Deadlock is checked |

**Bounds.** Each is a constant named in its module. *CacheTaskManager*: three connections
are the least that leave one standby's message waiting behind another's when a handler
tells the candidates in turn, and two operations in the chain let a second one wait for
every await of the first (`MaxQueue`, of which `MaxRequests` may be the executor's own). The constraint `TwoAssignments` follows one assignment and the one that
replaces it, and a written manifest for the length of the first; beyond that only the
next state is looked at. The theorems of section 4 know no such bound, nor one on
connections. `ctm_live`
has two connections, enough for one to replace the other, and its four operations in
the chain let a disconnect wait behind a hello that waits
behind the end of the record that the disconnect was meant for;
assignments made by events that can recur are capped (`MaxAsg`), the ones that end an
assignment are not. Connections without the capability are not in these instances:
that they are never elected is the theorem `LegacyExcluded`. *CacheTaskSync*: three
files, in `cts_alone`, are the least with one file acked, one in flight and one to come; three edits
put one before the walk, one between walk and hash and one after. In `cts_rough` three
are what an upload loop that fails needs to wait once more and end the process
(`UploadCrashes`); it starts with all three new to the server, or with one of them absent
and the other two as they may be (`RoughInit`). One write by another, at any moment, is enough to
set back what the client has written. *FileAgent*: two
paths with two contents, chosen so that a delta makes a content shared and the next
leaves it without a use; one operation waiting behind the holder makes every pair of
operations meet. `MaxTrouble` lets one thing go wrong, whichever: a failed read, a failed
operation or a restart. Nothing about more of them depends on the number: the safety
results of the store and the agent are proved for any (section 4). *Sessions*: sessions
share nothing but the handler of a closed connection, which treats them one by one;
three tries let the daemon fail, fail again and start or be given up, and four
failures leave one for a later process. *ToolCalls*: one call of each kind; calls meet
in `Close` and `LinkCloses` only. The safety results of both are proved for any number.
*CacheReadThrough*: two files are what a rename needs, three operations a write, a second
one and a read; `RECENT_MUTATION_ID_CAP` is one instead of 64, so that ids are forgotten.
Every mishap is met with one thing going wrong (`MaxTrouble`); with two, only those
behaviours without a mishap are of interest, and they pass too. The constraint
`Unharmed` stops at states of which neither property speaks. *FileProxy*: three operations
(`MaxCalls`) are a change, one that overtakes it, and one that looks afterwards; each thing that
goes wrong (`MaxFaults`) takes the place of one, a manifest or a ledger that is behind among them. The
paths have a sibling that sorts between a directory and its content; the ledger is one of three
(`Ledgers`), of which each disk makes at least one true and one false. *LedgerFlush*: two flushes of one session and one of another are what it takes
for two to wait for the same and for one to write over the other; three steps are a
change, a look and a second change. *ClientProcess*: two chunks of output, so that one may be kept
while the next is shown; two assignment messages, since a revocation that overtakes
an assignment needs both; with three of them and the same output it passes too.

**Fairness.** Only of the system, and weak but for one timer: handlers run on to their next
await, the disk and the sockets answer, time passes, timers fire, an in-flight fetch
settles. Node's event loop starves no callback, and file accesses of these sizes end. The
heartbeat sweep is taken to be strongly fair, because a client that sends and sends
keeps interrupting its guard, not its timer. No user, client or
reader has to do anything; for `SyncSettles` and `GivingUpIsNoticed` the client's own
event loop runs, unless it crashed. In `Sessions` the awaits of a creation, of a close
and of a shutdown end: each waits for a timer, a process that has been killed or a
send; the process of a session has to end only once it was told to. In `ToolCalls`
sends end, by being taken or by the connection's end, and the two timers fire;
neither the client nor a tool has to do anything. In `ClientProcess` only what the event
loop has begun goes on: a chunk that arrived is handled, an await that was resolved
continues, the close event comes, and the half second of `waitForWebSocketClose` ends;
server, user, signals and failures owe nothing. The runs of `CacheReadThrough`, `FileProxy` and `LedgerFlush` check
safety only and state no fairness: what ends there is a matter of timers, and
`EachIsAnswered` and `WaitersAreWoken` say that there is always one to fire or a flush to wake
the waiting one.

Deadlock is checked in `fa`, `read_through`, `file_proxy` and `client_process`, whose modules
name the states in which nothing is left to do. It is off where the system may rest in any of many states
for good (every connection gone for ever; every change pushed).

## 4. Proofs

All theorems hold for every value of the constants under the named assumptions
(`ConstantsAssumption`, `EntryKinds`, `StoreBounds`, `AgentBounds`, `SessionConstants`,
`CallKinds`, `PathsAreNames`, `RankIsOrder`, `FlushBounds`, `ProxyBounds`, `NoneIsNoAnswer`,
`ReadThroughBounds`), which
say only that bounds are numbers, that the special values differ from the ordinary ones,
that there is a path, that a session has an owner, which kinds of calls include which, that
paths are non-empty sequences of names and that `Rank` orders them, that an operation on one
file names it once, and that the manager keeps at least one id.

**CacheTaskManager_proofs.** The safety invariants are not inductive: that a delta is
fenced when its write returns depends on what the lock's holder may be while it
waits. `IInv` adds `LockHolder` (whoever is at an await holds the lock, is of the kind
`pc` says, and works on the record in the map; an election in progress has a capable
candidate as its winner and nobody active), `UnmappedIsEmpty` and `QueuedOps`. Events only
append to the chain, so they keep the holder (`EnqueueKeepsHolder`); critical sections
are taken one by one, with the shared parts of an election and a failover as lemmas
(`ElectionKeeps`, `FailoverKeeps`). `Invariance` gives `TypeCorrect`, `FencedWrites`,
`ActiveConsistent`, `RevisionReached`, `LegacyExcluded`, and `ReadyStartsOver` as an action property.
`RevisionReached` has a premise, that no write from a failed read set the manifest back since the
task took its revision over, because without it the code has no such property (section 6).

`StandbyPromoted`, `NoFalseExecutor` and `NoEmptyRecord` speak of moments with an empty
chain, so they rest on what the waiting handlers are still going to do. `Standbys`, on top
of `IInv`, says it: candidates said hello on a connection that was open (`CandidatesHelloed`);
nobody is active only while nobody can be, or while the one elected waits for the manifest
(`VacantOnlyInElection`); a candidate that still believes in an assignment without being active
is the one that a hello has just elected (`BelieverIsElected`); a record in the map has a
candidate (`RecordServes`). From it follow `NoStandbyForgotten`, `NobodyMisled` and `RecordsServe`.

**CacheTaskSync_proofs.** Client and server meet in two queues, so each invariant says what a message
on its way will do when it is taken. `Typed`, `Phases` (which await of the sync may have what in
flight), `Ordered` (batches and answers have their ids in order, answers before requests) and
`Answers` (while acks come in time somebody awaits each of them) are the ground of the others.

- `RevisionsAgree`: `Reached` says, while every answer on its way is "ok" and none came late, that the
  last answer under way has the manager's revision; without one the client knows it (`Known`), or
  has predicted more, since a manifest that could not be read has set the manager back: then the manager, asked to
  complete the sync, finds that it lacks the revision and gives the assignment out anew. `StepKinds`
  sorts the steps by what they do to these numbers, which spares the proof the cases of the client's states.
  Where nothing fails `Revisions` says more, that revisions only grow and a completed sync never claims one that
  the manager lacks (`Claimed`); the next two rest on it.
- `NeverRefused`: `Predicted` adds that each request under way has the base that the manager will
  be at by then (`Bases`): its own revision and one for each delta in front of it.
  It holds where the code can promise it: no other writer, no outdated hash and no
  failing store (a failed write makes the manager refuse what was predicted on top of it), which
  is the setting of the run `cts_alone`.
- `StaleIsUnderway`: `LastWord` follows a content from the disk to the manifest. At every place
  (the watcher's paths and its chain, the buffer, the plan of the sync, the wire,
  the entry) it is either what the disk has, or the path is noted at an earlier place too. The places are
  ordered (`Hot`, `AfterBuffer`, `AfterPlan`, `AfterWire`, `After`), and each step moves a path along that order.
  What the watcher missed counts as noted at the first place (`missed`): the property excepts it, with what stays
  in the buffer (`Lost`), because the code has no place for it (section 6). A manifest that another writer read as empty
  loses entries and puts nothing out of date (`WordElsewhere`).
  Two assumptions are left. `Removed`: a file that disappears after the walk was in the watcher's
  index. `Heeded`: an ack that is ignored because its batch was given up says "ok". The code sees to
  neither (section 6), and the theorems after `SpecStaleIsUnderway` say where they are met anyway. `Removed`
  holds where nothing is removed. `Heeded` holds while acks come in time, by `Answers`
  (`SpecStaleIsUnderwayInTime`), and, if nothing fails, behind one late ack
  (`SpecStaleIsUnderwayOnceLate`): `Live` says that outside the upload loop the one batch under way
  builds on the task's revision with true hashes, so the batch that is given up will be accepted; `Late`, that
  it stays in front of whatever is sent afterwards, so that a refusal is one somebody waits for.
  `SpecEditsAreUnderway` puts both together for the setting of `cts_alone`.

**FileAgent_proofs.** The store first. `BlobsPresent` needs to know what the copy in memory is at
every file access. `StoreInv`: without a holder nothing is in memory; the copy of
a delta is what was read with the changes made so far (`DeltaInProgress`); other
operations leave the copy as read, and the blobs a sweep is to delete are in no
entry of the file (`OtherInProgress`). From it follow `BlobsArePresent` and the
refinement `StoreIsAtomic`: only `Commit` changes the file, and by then the copy with all
its changes made is exactly `After` of the delta (`DeltaIsOneStep`), so that the many
file accesses of a delta are one step of `AtomicManifest` and stutters before it.

Then the composition. `AgentUsesStore` shows that the composition's steps are steps of
the store or leave it alone (`Spec => StoreSpec`), and so `AgentKeepsBlobs` and `AgentIsAtomic`
are the store's theorems. `AgentTracksWhatIsWritten` is proved with `AgentInv`: an
eviction takes a path off the table in the very step that takes it off the manifest.

**Sessions_proofs.** The properties speak of sessions in use or closed; what makes
them true is what a creation may find at each await. `SessionInv` says that until its
entry is made nobody closes a session or shuts its proxy down (`Unseen`, `Unhalted`),
that each step has what the earlier ones took (`HasTaken`), and that before the process
is there only the loss of the client closes a session (`ClosedByLeaving`): this is why
a host that `start()` sets behind `close` harms no session that comes into use
(`HostsCloseFirst`).

Its second part is about `CacheReadThrough`. A content is known by the moment it was made, so
both properties compare numbers that live in different places: on the disk, in a flush, in the
queue, in a delta, in the manifest, in an operation, while ids travel beside them. The
invariants stand on one another.

- `ReadTypeCorrect`: `ReadIInv` is the types with what every later step leans on. Nothing anywhere is newer
  than the disk (`NoneAhead`); the changes of one file follow one another (`OpsOK`); no stage holds two changes of a file, and
  none of a file the flush has yet to read (`ChangesOK`); a hint on its way is of a later change than
  the suppression it replaces (`HintsOK`). That `recent` holds no id twice comes from the filter in
  front of it (`RememberedIs`).
- `Tagged`, while none of the four mishaps happened that both properties except (`Harmless`): a tag, in
  whatever stage, is the id of a change of that file that is over; a path that is dirty or in
  the flush has been changed by an operation.
- `SessionReadsItsWrites`: until something else than a split happens (`Unbroken`), the stages behind
  one another hold ever newer contents (`Versions`); a file without a bypass is in the manifest as it
  is on the disk, a change that carries the bypass's id is the newest one, and a change
  not yet made still has its bypass (`Bypassed`). So a read that has looked the bypass up and not yet
  the manifest cannot be overtaken downwards: the manifest only grows (`StoreGrows`, `Reading`).
- `CopyFollows`: here versions are not enough, since `filterDuplicateMutationChanges` drops changes by
  their id alone, and both files of a rename have the same one. `Word(k, f)` is what
  will be known of a file once the stages up to `k` are stored. `Covered` says that wherever an id has come,
  all of its change and everything before it has come as well, or the file was changed again: a change that is
  dropped as a repetition thus brings nothing new. `GoneBefore` closes the one gap, a removal that is
  told again. `LastWord` says that the last stage's word is what the disk has, or that the path is still
  to be read. A flush keeps this because of the order in which ids arrive (`Hinted`): hints come in the order of the
  changes, a file read has the id of the last one, and the other file of that change is in the same
  flush or the step is the mishap "split".

Each stage's step is a lemma (`ReadKeeps` for the end of a flush, `PushKeeps`, `ApplyKeeps`), a change at the
client is `ChangeOutdates`, and what moves nothing is `QuietKeeps`. The theorems hold for any files,
operations under way, interruptions and any `RECENT_MUTATION_ID_CAP` from one up: forgetting an id too early
costs a repeated write, never an outdated copy.

**ToolCalls_proofs.** A caller's answer is decided steps before it is given, by the
promise of the pending call. `CallInv` follows a call: nothing has happened to it before
it is executed (`Untouched`), the relay holds exactly what is not settled
(`PendingIsOpen`, `SendingIsPending`), a call whose result can still come is pending
unless a timer fired, the session closed or the client left (`AwaitedIsPending`), a
result comes from the run (`ResultIsReal`), an error from a cause (`ErrorIsReal`).
`ExitIsClosed` is needed because `ExitSent` takes the entry without settling anything:
the session was closed when its process ended. From these follow the four safety
properties and, step by step, `CallsKeepTheContract`: asking, running and answering are
steps of the contract, everything between is a stutter.

**LedgerFlush_proofs.** `LedgerOK` (well-formed and `Indexed`) is kept by each operation of
the ledger, one lemma each (`FileOK`, `DirOK`, `MissingOK`, `RemovedTreeOK`, `RenamedTreeOK`, ...), hence
by any event (`AppliedOK`), by loading, storing and aging. `IInv` carries it through every
flush: `IndicesRight`. `PlanFindsKnown` follows from what was loaded being indexed: a file of the ledger
is named by the plan, or lies in a directory that the plan walks. `NoFlushIsForgotten` needs that
`inFlight` names a flush of its session that is loading or writing (`ClaimsRun`) and that a flush
waits for one of its own session (`WaitsForOwn`): those that are woken together all run.

`NothingIsHidden` rests on a second invariant, `Honest`, which holds until the first mishap. A ledger
that calls a path missing is not wrong by itself: an event may be under way that corrects it. So for each path
that is there, or that a request under way will make (`Coming`), it says two things. No answer under way
and no session's events call it missing, unless what clears it comes later (`Unsaid`). And if
the flush under way will leave it missing, or without a flush the file has it missing, then some session
still has an event that clears it (`Owed`, `Settled`). Two flushes at once, or one whose load is outdated, cannot keep
the second; they end in the mishap "stale" or "lost", so they are set apart (`Doomed`).
`AppliedSays` is the lemma about the ledger it needs: after one event, a path is missing only if the event
claims it, or it was missing and the event does not create it, or a rename took it along. `AppliedLeaves` says the same of
the events still to be applied, and `ChangeMakes` that a change leaves a tree and makes nothing but what it
is noted to create. The last case is how a violation came to light that the run is too small
for: `HInv` did not survive `ApplyOne`, TLC confirmed it on a larger instance, and the model
names it "moved missing" (section 6). The proof starts with facts on paths and trees, as
that of `FileProxy` does.

**FileProxy_proofs.** `IInv` is the conjunction of the types of disk, start, memory and counters
with `CallsOK`: where a request is, what is on its way back and whether it is pending fit together.
Each action keeps it (`StepOK`); `EveryRequestIsAnswered` is a part of it. `SuccessIsSeen`
is an action property about the bisected negative cache: `DeniedIsCovered` says that `contains` denies
a path only if an element covers it, and what `invalidate_prefix` leaves covers the path no more,
although it may leave elements below it. `PutIsDenied` is the other half: what was put is denied.

`NothingIsDenied` and `MemoryAgrees` rest on a second invariant, `Truthful`, which holds until the first
mishap (`Quiet`). Both properties speak of the memory once the control pipe is read, a fold over
the lines: `SettledSays` turns it into "held, or told by a line, and not wiped by a later one". `Truthful` then
says of each piece by itself, the negative cache, a layer, a line on the pipe, an answer
anywhere on its way, that what it claims is so, or is excused: a change that the client has made (`Made`) and
that is not over touches it, and its return will wipe it (`ChangeForgets`). Three facts carry it.
A change that makes no directory it was not asked for and moves no content alters its own ends alone
(`ChangeIsLocal`, from how paths cover one another) and leaves a tree (`ChangeKeepsTree`), so what it does
not excuse stays true (`Holds`, `HoldsKeeps`); that covers every step but one. At the return of a change an
excuse ends: what it excused in memory is wiped, and what is under way is true, since
otherwise the return would have been the mishap "overtaken" (`ChangeIsTaken`). And before
the daemon serves nothing has been asked and the snapshot is true (`NotYet`): what the manifest held is as it was read
(`ManifestIsTrue`; the covered paths must hold their parents, `ProxyBounds`) and so is what the ledger said
(`WrittenIsTrue`), or it was the mishap "lagging" or "ledger", which nothing in the code prevents. A change
is also waited for until it is over (`ChangeOK`), or else it would be the mishap "given up". The other
four mishaps are steps that break `Truthful` by themselves.

The proof begins with what a path and a tree are: the order of paths (`CoversIs`, `CoversOrder`,
`RerootIs`), the shallowest missing ancestor, which exists and is a path, and what a change
does to a tree.

**ClientProcess_proofs.** The program waits in `main`, while the messages of the socket and the
assignments of the cache task are handled beside it. There is one invariant for each property.

- `OutputIsWhole`: `Whole` says that the screen, then what is kept for a terminal that is not attached yet
  (`pending`), then the wire is the session's output. A cut connection loses the wire, and yet a program
  that leaves with the exit has shown everything: an exit that is kept stands behind all output (`Exits`,
  `ExitIsLast`), so if the exit survived the cut nothing was lost. `Unborn` gives the beginning: no
  session, no output. `Printed`, the output among some messages, is a fold; `PrintedAppend`, `PrintedConcat` and
  `PrintedHead` say that it goes along a sequence, from `SequenceInduction`.
- `TerminalIsBack`: `Borrowed` adds that in one-shot mode nothing is ever taken, that a program which is
  about to take the terminal (`created`) still has its connection, so that a close event is yet to give it
  back, and that the program's own call of `onDisconnected` belongs to a program that is closing.
- `RevokedIsSilent`: `Revoked` adds the handler of an assignment that awaits the old watcher's end: if the
  client has been told since that it is not the executor, that is the mishap "overtaken".

**Proved and not run.** The type invariants of `CacheTaskManager`, `FileAgent`, `Sessions`, `ToolCalls`, `LedgerFlush` and `FileProxy`,
`ActiveHoldsNewest`, `NoEmptyRecord`, `RoutedWhileServing`, `LiveIsServed`, `WaitsForRelay` and
`ErrorHasCause` hold for every value of the constants; TLC is left with the properties that
need it more.

**Only model-checked.** The liveness properties: fairness and ENABLED are beyond the
prover. Every other property of the passing runs is a theorem.

## 5. Not modelled

Several rows of `components` in `PROJECT.json` are code without interaction
(tokens, statistics, logs, types, settings redaction, client tools, command line,
web console). Parts of modelled components that are left out are named in section 2.
`writeBlobBuffer`, `upsertEntry` and `FileAgent.read/stat/readdir` have no caller outside the
tests. Of the rest, these are the parts with behaviour of their own:

- The handshake of the MCP server with its two time limits (`mcp-routed/ipc-client.ts`).
- The shutdown of the whole server (`server.ts`), and several (device, cwd) keys at once.
- Shadow files, the fallback for `.claude.json` and open handles of the FUSE daemon.

## 6. Findings

One run ends in a counterexample, against a sentence of the repository quoted
in `PROJECT.json`:

- `ses_orphan`: a client that leaves while its session is being created is not bound to
  it yet: nobody destroys the session, whose process stays.

Properties that one might expect and that the code does not have either, found while
modelling and left without a run of their own. The mishaps that the models name are in quotes.

*Cache task.*

- *The active executor is connected.* `handleDisconnect` looks its record up before it
  waits (`cache-task-manager.ts:158`). If the record is dropped meanwhile and made anew by
  a hello, the closed connection stays the executor of the new record until a heartbeat
  sweep: `DeadExecutorReplaced` is what holds.
- *A promoted client knows of it.* `sendMessages` may still wait for a stalled socket
  when a sweep promotes a client it has yet to tell "standby"; the late message
  overwrites the promotion (`cache-task-manager.ts:742`). `NoFalseExecutor` is the half
  that holds.
- *One task's socket does not hold up another's sweep.* `sweepHeartbeats` awaits the sends of
  each task in turn (`cache-task-manager.ts:490`).
- *A change in the buffer is sent.* One that is flushed while the initial sync awaits its
  last ack goes to a buffer that was emptied already (`cache-task-state-machine.ts:489`), against
  the window of a second in `docs/architecture/modules/file-agent-cache.md:74`.
- *A change is seen.* `CacheWatcher.start` returns what `chokidar.watch` returns and does not wait for
  its "ready" (`cache-watcher.ts:96`, `:390`): a file that changes after the initial sync's walk and before
  chokidar has reached it raises no event, and the manifest keeps the old content until the file changes again.
  Likewise a file that a flush cannot read is left out of it (`cache-watcher.ts:260`).
- *The task's revision is on disk.* `loadManifest` takes any failure to read for an empty manifest
  of revision 0 (`file-agent/store.ts:98`), and the next write makes it one: after a write by another task of the
  device this task counts a revision that the manifest has not reached, until its next delta or assignment.
- *A completed sync makes the task ready.* If `updateScopeTruncated` throws (`cache-task-manager.ts:308`) the
  handler ends with an error message and the phase stays "syncing". The executor lives and sends heartbeats,
  so no sweep replaces it, and `waitForCacheReadyOrDegraded` (`file-proxy-manager.ts:409`) goes on polling: the
  sessions of that (device, cwd) do not start until the executor leaves.
- *A removed file leaves the manifest.* One that is made after `rebuildLocalIndex` and found by the walk of
  the initial sync is uploaded; when it goes before the watcher has flushed it, `expandDeletes`
  does not find it in the index (`cache-watcher.ts:275`) and nobody sends the removal until the next walk.
- *A batch given up is sent again.* A live batch whose ack takes longer than `ackTimeoutMs` is logged and
  forgotten (`cache-task-state-machine.ts:531` looks for refusals only), and its ack is ignored when it
  comes. If that was a refusal, the edits of the batch are lost until the file changes again: one late ack of a
  batch the store failed to write will do, or two in a row, as the second batch builds on a
  revision the first has used up. One alone does no harm (`SpecStaleIsUnderwayOnceLate`).
- *A refusal is survived.* A batch refused with more files left than the flow control
  lets out leaves a rejected promise without a handler, which ends the process
  (`cache-sync.ts:324`; the comment at `:398` has every future awaited). An ack
  rejected while its send is awaited (`:479`), a heartbeat on a closing socket
  (`cache-task-state-machine.ts:641`) and a fault report on a closed one (`:500`) end it the same way.
- *A revoked client is idle.* An "inactive" that is handled while `handleActiveAssignment`
  awaits the old watcher's end is overtaken by the assignment it revokes
  (`cache-task-state-machine.ts:281`, "overtaken"): the client says "assigned-syncing" and sends
  heartbeats for ever. Likewise "assigned-watching" is set after `sync_complete`
  without a look at the generation (`:481`), which harms nobody.
- *A stopped watcher is closed.* `CacheWatcher.stop` finds no handle while `start` is still
  indexing (`cache-watcher.ts:96`, "hasty stop"); the handle that start stores
  then keeps the client's process alive.

*Store and file agent.*

- *A renewed entry stays.* A collection evicts an entry that is renewed while its
  removal waits for the manifest lock (`gc.ts:90`).

*Reads from the server's copy.*

- *A change gets its own mutation id.* The watcher tags whatever happens to a suppressed
  path with the id of the last hint ("late tag", "early tag"): the manager drops
  a change as a repetition (`cache-task-manager.ts:718`) or ends a bypass too early, and the store keeps
  what was deleted. A hint that came after its change was read leaves it untagged, and any
  change without an id ends the bypass.
- *A rename is stored at once.* Its two paths may be in two batches ("split").
- *A bypass lasts until its change is stored.* It ends by its time ("expired").
- *The copy is of one task's making.* Another directory's task on the same device stores
  what it saw earlier ("other task"); the user edits without an id ("user").
- *settings.json is read whole.* It is read by the size that the manifest has, which may be that
  of a shorter version (`file-proxy-manager.ts:1929`, whose comment at `:1911` says that the
  whole text is fetched): what was appended is cut.

*FUSE memory.*

- *Known missing paths are missing.* `SEED_WHITELIST.knownMissing` is denied from the start without a
  look at the snapshot (`file-proxy-manager.ts:1079`, "seed"): a `~/.claude/skills` that exists is
  hidden for the whole session, though the comment at `:1071` speaks of a cold start.
- *The snapshot is what the disk holds.* It is built from the persisted manifest, which lags behind the client by
  whatever is still on its way (`file-proxy-manager.ts:929`, "lagging"), and what the ledger calls missing or a
  directory is added without a look at either (`:1048`, `:1096`, "ledger"). What one session has just created, and
  not flushed to the ledger, is denied to the next one for good; a directory that is gone keeps its attributes.
- *What the user creates is found.* Negatives and the snapshot's layer never expire ("user").
- *A created path is not denied.* A `getattr` that found nothing may be answered after the
  create that made it, and puts the path back ("overtaken").
- *A failed change has not happened.* After thirty seconds the daemon reports an error for a
  request that goes on, and may come after a later one ("given up"); what it changed stays
  remembered as it was.
- *A directory's rename or a recursive mkdir is known to the memory.* Entries below a renamed
  directory and the list of the directory above the first one made stay ("moved tree", "deep").
- `NegativeCache.invalidate_prefix` and `put` stop at the first element that is not below the path, such as
  `d-b` between `d` and `d/x`: elements below stay.
- `handleFuseLine` has no look at `destroyed`, and an exception in `lookupEntry` leaves a
  request without an answer until the daemon's thirty seconds.

*Ledger.*

- *A ledger's "missing" is missing.* Not when a path is looked for while it is created
  ("overlap"), when a directory moves with its content ("moved tree"), when a noted rename fails
  ("not done": changes are noted before they are sent), when a flush writes over what another session
  wrote since its load ("stale": the load is outside the mutex), when a drained buffer is lost
  by a failed write or a restart ("lost": the comment at `access-event-buffer.ts:40` says
  that events go on to accumulate for the next try; the design's "correctness is not affected"
  forgets the events that create), and when the user creates a file ("user"). Nor when `renameSubtree`
  takes along what was found missing below the path while it was a directory ("moved missing",
  `access-ledger.ts:150`): session s finds `from/x` missing, t replaces the empty directory `from` by a file, s renames it to
  `to`, t replaces that by a directory, makes `to/x` and flushes; the flush of s, which is applied
  after it, moves the entry of `from/x` to `to/x`.
- `removeDirSubtree` and `renameSubtree` stop at the first sibling that sorts between a directory and its
  content (`access-ledger.ts:132`), unlike the design's "all entries with the prefix path/"; `renameSubtree` keeps the
  missing paths below its target, and indices that name what is gone.
- The plan passes over what lies two levels or more below a directory that was seen and not listed.

*Sessions and client.*

- *A failed creation gives everything back.* After a failed probe nobody calls
  `runtime.cleanup`, and the anchor stays (`server.ts:1212`); when `start()` of the proxy
  gives up, its registration, its timer and the directory stay
  (`file-proxy-manager.ts:693`).
- *The directory goes.* `close` removes it while the unmount inside it is still under
  way, which fails as long as the mount is there (`server.ts:1489`); hence the
  exception in `Released`.
- *The host of every session is closed.* One whose client leaves while the host starts
  keeps its socket (`pty-session.ts:457`); `HostClosedFirst` is for sessions that are
  created.
- *A connection that closes during the greeting is unregistered.* Its close listener is added
  after an await (`server.ts:940`).
- *An MCP call leaves nothing behind.* One that finds the socket destroyed leaves its timer, whose
  rejection nobody handles (`mcp-routed/ipc-client.ts:203`).
- *The terminal is given back at once.* After an exit that came before the client attached, it stays
  raw until the close event, whose listener is added late (`client.ts:674`).

## 7. Plan

In this order:

1. `PromiseMutex`: the promise chain of `withTaskLock` and `withManifestLock` against an
   abstract FIFO lock, which the modules above assume, with the refinement proved.
2. `McpIpc`: the handshake of the MCP server with its two time limits, and the calls
   that are made during it; `ToolCalls` starts where it ends.
3. The shutdown of the server, over the sessions of several clients.

A new module gets one run, with its safety and its liveness properties together where
the instance allows it.
