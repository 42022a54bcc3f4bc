----------------------------- MODULE FileProxy -----------------------------
(* A session's proxied files: the FUSE daemon's threads (fuse-host-script.ts) *)
(* send the operations they cannot answer to FileProxyManager                 *)
(* (file-proxy-manager.ts), which passes them on to the client                *)
(* (client/src/file-proxy.ts) and the answers back.  Beside the answers the   *)
(* manager tells the daemon over a control pipe what to forget and what is    *)
(* not there.  Before all that it collects the snapshot the daemon starts     *)
(* with.                                                                      *)
(*                                                                            *)
(* A thread waits thirty seconds and fails; the manager waits thirty seconds  *)
(* and answers an error; the request itself goes on.                          *)
EXTENDS FuseCache, ClientFiles, FiniteSets, SequencesExt

CONSTANTS Thread,
          Wanted,           \* the operations a thread may ask for
          Tree,             \* what a client's disk may hold at the start
          Home,             \* the paths that the server's cache covers
          Kept,             \* the files the server's cache may hold
          Ledgers,          \* what the ledger may say, or can be read of it
          KnownMissing,     \* SEED_WHITELIST's knownMissing
          Edited,           \* what the user, or a tool on the client, may change
          MaxCalls,         \* bound: requests to the manager, and what goes wrong
          MaxFaults         \* bound: what goes wrong: failures, late answers, edits

Look == [op: {"getattr", "readdir", "read"}, path: Path, to: Path]

ASSUME ProxyBounds == /\ Wanted \in [Thread -> SUBSET (Look \cup Mutation)]
                      /\ Tree \subseteq [Path -> Kind] /\ \A t \in Tree : IsTree(t)
                      /\ Home \subseteq Path /\ Kept \subseteq Home
                      /\ \A p \in Home : Parents(p) \subseteq Home
                      /\ Ledgers \subseteq [missing: SUBSET Path, dirs: SUBSET Path]
                      /\ KnownMissing \subseteq Path
                      /\ Edited \subseteq Path
                      /\ None \notin Path /\ None \notin 1..MaxCalls
                      /\ MaxCalls \in Nat /\ MaxFaults \in Nat

VARIABLES tree, version,    \* the client's disk: kinds, and who wrote a file last
          phase,            \* the cache task of the client, as describeTaskState says
          stage,            \* the session's start
          attempts,         \* of starting the daemon
          snapshot,         \* cache-snapshot.json
          cache,            \* the daemon's Cache
          calls,            \* the requests, in the order of the daemon's stdout
          worker,           \* the request a thread waits for
          pending,          \* pendingRequests
          control,          \* the control pipe
          mishap,           \* history: what has happened that no code makes good
          faults

disk == <<tree, version>>
start == <<phase, stage, attempts, snapshot>>
vars == <<disk, start, cache, calls, worker, pending, control, mishap, faults>>

Call == 1..MaxCalls

Value(w) == IF w = "list" THEN SUBSET Path ELSE [kind: Kind, version: Nat]

Answer == [code: {"ok", "ENOENT", "failed"}, value: {None} \cup UNION {Value(w) : w \in What},
           above: {None} \cup Path]

ASSUME NoneIsNoAnswer == None \notin Answer

Failure == [code |-> "failed", value |-> None, above |-> None]

Mishap == {"overtaken",     \* an answer is still under way that a change has outdated
           "given up",      \* a change goes on that nobody waits for
           "moved tree",    \* a directory is renamed together with what it holds
           "deep",          \* a change makes the directories it needs
           "seed",          \* a known missing path is there
           "lagging",       \* the server's cache holds a file as it no longer is
          "ledger",        \* the ledger is behind what the disk now holds
          "user"}          \* a change that does not come through the proxy

Empty == [neg |-> {}, perm |-> Nothing, fresh |-> Nothing]

Note(cond, name) == IF cond THEN {name} ELSE {}

Trouble == faults < MaxFaults /\ Len(calls) + faults < MaxCalls

-----------------------------------------------------------------------------
(* The client's disk.                                                         *)

Exists(p) == tree[p] # "none"

Stat(p) == [kind |-> tree[p], version |-> version[p]]

Children(t, p) == {q \in Path : Len(q) > 1 /\ Parent(q) = p /\ t[q] # "none"}

(* What the disk says of a path now, or None.                                 *)
Truth(w, p) ==
    CASE w = "stat" -> IF Exists(p) THEN Stat(p) ELSE None
      [] w = "read" -> IF tree[p] = "file" THEN Stat(p) ELSE None
      [] w = "list" -> IF tree[p] = "dir" THEN Children(tree, p) ELSE None

Of(op) == CASE op = "getattr" -> "stat" [] op = "readdir" -> "list" [] op = "read" -> "read"

IsLook(r) == r.op \in {"getattr", "readdir", "read"}

(* handleInternal for an operation that reads.  A missing path is looked at a *)
(* second time, for its shallowest missing ancestor.                          *)
Found(r) ==
    IF Truth(Of(r.op), r.path) # None
    THEN [code |-> "ok", value |-> Truth(Of(r.op), r.path), above |-> None]
    ELSE IF ~Exists(r.path) /\ \A q \in Parents(r.path) : tree[q] # "file"
    THEN [code |-> "ENOENT", value |-> None, above |-> None]
    ELSE Failure

Versions(m, i) ==
    CASE m.op = "change" -> [version EXCEPT ![m.path] = i]
      [] m.op = "rename" -> Moved(version, m, 0)
      [] OTHER           -> [version EXCEPT ![m.path] = 0]

-----------------------------------------------------------------------------
(* The start: collectAndWriteSnapshot, then the daemon.                       *)

Init ==
    /\ tree \in Tree
    /\ version = [p \in Path |-> 0]
    /\ phase \in {"syncing", "ready", "idle"}
    /\ stage = "waits"
    /\ attempts = 0
    /\ snapshot = Empty
    /\ cache = Empty
    /\ calls = <<>>
    /\ worker = [t \in Thread |-> None]
    /\ pending = {}
    /\ control = <<>>
    /\ mishap = {}
    /\ faults = 0

(* The cache task leaves its first phase, for good or ill.                    *)
PhaseSettles ==
    /\ phase = "syncing"
    /\ phase' \in {"ready", "idle"}
    /\ UNCHANGED <<disk, stage, attempts, snapshot, cache, calls, worker, pending,
                   control, mishap, faults>>

(* Of no file on the disk: no write of this session's makes it.               *)
Older == MaxCalls + MaxFaults + 1

(* buildSnapshotFromManifest: what the persisted manifest holds, some of it   *)
(* of files that have changed or gone since.  Its directories are those its   *)
(* files lie in, and a directory's list is what the manifest has below it.    *)
FromManifest(held, old) ==
    LET dirs == UNION {Parents(p) : p \in held}
        made == [p \in Path |-> IF p \in held \cup dirs THEN "dir" ELSE "none"]
        Entry(p) == [kind |-> "file", version |-> IF p \in old THEN Older ELSE version[p]]
    IN  [w \in What |-> [p \in Path |->
            CASE w \in {"stat", "read"} /\ p \in held -> Entry(p)
              [] w = "stat" /\ p \in dirs \ held -> [kind |-> "dir", version |-> 0]
              [] w = "list" /\ p \in dirs -> Children(made, p)
              [] OTHER -> None]]

(* waitForCacheReadyOrDegraded polls while the task is syncing; then the      *)
(* roots under ~/.claude are taken from the server's cache, if it is ready,   *)
(* and the disk is not asked.                                                 *)
Gather ==
    /\ stage = "waits" /\ phase # "syncing"
    /\ IF phase = "ready"
       THEN \E held \in SUBSET Kept : \E old \in SUBSET held :
              /\ stage' = "asks project"
              /\ \A p \in held \ old : tree[p] = "file"
              /\ old = {} \/ Trouble
              /\ snapshot' = [Empty EXCEPT !.perm = FromManifest(held, old)]
              /\ mishap' = mishap \cup Note(old # {}, "lagging")
              /\ faults' = IF old = {} THEN faults ELSE faults + 1
       ELSE stage' = "asks all" /\ UNCHANGED <<snapshot, mishap, faults>>
    /\ UNCHANGED <<disk, phase, attempts, cache, calls, worker, pending, control>>

(* doSnapshot of the roots that are asked for, but for the files' content.    *)
Walk(paths) == [w \in What |-> [p \in Path |->
    IF p \in paths /\ w # "read" THEN Truth(w, p) ELSE snapshot.perm[w][p]]]

Asked == IF stage = "asks all" THEN {Home, Path \ Home} ELSE {Path \ Home}

(* The client answers each of the snapshot requests, or it times out.         *)
TakeSnapshot(answered) ==
    /\ stage \in {"asks project", "asks all"}
    /\ answered \subseteq Asked
    /\ answered = Asked \/ Trouble
    /\ stage' = "denies"
    /\ snapshot' = [snapshot EXCEPT !.perm = Walk(UNION answered)]
    /\ faults' = IF answered = Asked THEN faults ELSE faults + 1
    /\ UNCHANGED <<disk, phase, attempts, cache, calls, worker, pending, control, mishap>>

(* The daemon puts the missing paths in whatever order they are listed.       *)
Listed(missing) == {N \in SUBSET missing : \A p \in missing : \E q \in N : Covers(q, p)}

WithDirs(f, dirs) == [w \in What |-> [p \in Path |->
    IF w = "stat" /\ p \in dirs /\ f[w][p] = None
    THEN [kind |-> "dir", version |-> 0] ELSE f[w][p]]]

(* What the ledger says, or could be read of it, is added unchecked to the    *)
(* whitelist's missing paths and to the snapshot's directories.               *)
Behind(l) == (\E p \in l.missing : Exists(p)) \/ (\E p \in l.dirs : tree[p] # "dir")

(* The file is written, or it is not.                                         *)
WriteSnapshot(l, written) ==
    /\ stage = "denies"
    /\ (written /\ ~Behind(l)) \/ Trouble
    /\ stage' = "mounts"
    /\ IF written
       THEN \E N \in Listed(l.missing \cup KnownMissing) :
               snapshot' = [neg |-> N, perm |-> WithDirs(snapshot.perm, l.dirs),
                            fresh |-> Nothing]
       ELSE snapshot' = Empty
    /\ mishap' = mishap
           \cup Note(\E p \in KnownMissing : written /\ Exists(p), "seed")
           \cup Note(written /\ Behind(l), "ledger")
    /\ faults' = IF written /\ ~Behind(l) THEN faults ELSE faults + 1
    /\ UNCHANGED <<disk, phase, attempts, cache, calls, worker, pending, control>>

FUSE_MAX_RETRIES == 3

(* start tries three times; the daemon reads the snapshot before it mounts.   *)
Mount(ok) ==
    /\ stage = "mounts"
    /\ ok \/ Trouble
    /\ attempts' = attempts + 1
    /\ stage' = IF ok THEN "serves"
                ELSE IF attempts + 1 < FUSE_MAX_RETRIES THEN "mounts" ELSE "failed"
    /\ cache' = IF ok THEN snapshot ELSE cache
    /\ snapshot' = IF stage' = "mounts" THEN snapshot ELSE Empty
    /\ faults' = IF ok THEN faults ELSE faults + 1
    /\ UNCHANGED <<disk, phase, calls, worker, pending, control, mishap>>

-----------------------------------------------------------------------------
(* The daemon's threads.                                                      *)

Waiting(i) == \E t \in Thread : worker[t] = i

(* An operation that the negative cache or the snapshot answers does nothing; *)
(* what an answer left there may have expired.  A change is asked for below   *)
(* directories that have been found to be there.                              *)
Begin(t, r) ==
    /\ stage = "serves" /\ worker[t] = None /\ Len(calls) + faults < MaxCalls
    /\ IF IsLook(r) THEN /\ ~Denies(cache.neg, r.path)
                         /\ cache.perm[Of(r.op)][r.path] = None
       ELSE \A q \in Parents(r.path) \cup Parents(r.to) : tree[q] = "dir"
    /\ calls' = Append(calls, [req |-> r, at |-> "pipe", reply |-> None, said |-> None])
    /\ worker' = [worker EXCEPT ![t] = Len(calls) + 1]
    /\ UNCHANGED <<disk, start, cache, pending, control, mishap, faults>>

(* (slip) The target of a rename is not forgotten.                            *)
LearnedFrom(c, r, a) ==
    IF IsLook(r)
    THEN CASE a.code = "ok"     -> Remember(c, Of(r.op), r.path, a.value)
           [] a.code = "ENOENT" -> WithNegative(c, r.path)
           [] OTHER             -> c
    ELSE IF a.code = "ok" THEN Invalidated(c, r.path) ELSE c

(* What the daemon takes from an answer: a change that failed is no reason to *)
(* forget anything.                                                           *)
Learned(c, r, a) ==
    IF IsLook(r)
    THEN CASE a.code = "ok"     -> Remember(c, Of(r.op), r.path, a.value)
           [] a.code = "ENOENT" -> WithNegative(c, r.path)
           [] OTHER             -> c
    ELSE IF a.code # "ok" THEN c
    ELSE IF r.op = "rename" THEN Invalidated(Invalidated(c, r.path), r.to)
    ELSE Invalidated(c, r.path)

(* What is on its way to the daemon and no longer true.                       *)
Outdated(i) ==
    LET a == calls[i].reply
        now == Found(calls[i].req)
    IN  /\ IsLook(calls[i].req) /\ a # None
        /\ calls[i].at # "over" \/ Waiting(i)
        /\ \/ a.code # now.code \/ a.value # now.value
           \/ a.above # None /\ Exists(a.above)

OldDenial(k) == /\ control[k].do = "put_negative"
                /\ \E p \in Path : Covers(control[k].path, p) /\ Exists(p)
                /\ ~\E l \in (k + 1)..Len(control) :
                       /\ control[l].do # "put_negative"
                       /\ Covers(control[k].path, control[l].path)

Return(t) ==
    LET i == worker[t]
    IN  /\ i # None /\ calls[i].said # None
        /\ worker' = [worker EXCEPT ![t] = None]
        /\ cache' = Learned(cache, calls[i].req, calls[i].said)
        /\ mishap' = mishap \cup
               Note(/\ ~IsLook(calls[i].req)
                    /\ \/ \E j \in 1..Len(calls) : Outdated(j)
                       \/ \E k \in 1..Len(control) : OldDenial(k), "overtaken")
        /\ UNCHANGED <<disk, start, calls, pending, control, faults>>

(* Thirty seconds; or nobody will answer any more.                            *)
GiveUp(t) ==
    LET i == worker[t]
    IN  /\ i # None /\ calls[i].said = None
        /\ \/ calls[i].at = "over" /\ faults' = faults
           \/ Trouble /\ faults' = faults + 1
        /\ worker' = [worker EXCEPT ![t] = None]
        /\ mishap' = mishap \cup Note(~IsLook(calls[i].req), "given up")
        /\ UNCHANGED <<disk, start, cache, calls, pending, control>>

(* handle_control: the next line of the control pipe.                         *)
Applied(c, m) ==
    CASE m.do = "put_negative" -> WithNegative(c, m.path)
      [] m.do = "invalidate_negative_prefix" -> WithoutNegative(c, m.path)
      [] m.do = "invalidate_cache" -> Invalidated(c, m.path)

Control ==
    /\ control # <<>>
    /\ cache' = Applied(cache, Head(control))
    /\ control' = Tail(control)
    /\ UNCHANGED <<disk, start, calls, worker, pending, mishap, faults>>

-----------------------------------------------------------------------------
(* FileProxyManager.                                                          *)

Set(i, at, reply, said) ==
    [calls EXCEPT ![i] = [req |-> calls[i].req, at |-> at, reply |-> reply,
                          said |-> IF calls[i].said = None THEN said ELSE calls[i].said]]

ControlLine == [do: {"put_negative", "invalidate_negative_prefix", "invalidate_cache"},
                path: Path]

Message(do, p) == [do |-> do, path |-> p]

(* recordMutationEvent: what the daemon is told before a change is passed on. *)
Told(r) ==
    CASE IsLook(r) -> <<>>
      [] r.op \in {"unlink", "rmdir"} -> <<Message("invalidate_cache", r.path)>>
      [] OTHER -> LET p == IF r.op = "rename" THEN r.to ELSE r.path
                  IN  <<Message("invalidate_negative_prefix", p),
                        Message("invalidate_cache", p)>>

(* handleFuseLine, up to its first await; the lines come in order.            *)
Receive(i) ==
    /\ calls[i].at = "pipe" /\ \A j \in 1..(i - 1) : calls[j].at # "pipe"
    /\ calls' = Set(i, "server", None, None)
    /\ control' = control \o Told(calls[i].req)
    /\ UNCHANGED <<disk, start, cache, worker, pending, mishap, faults>>

(* The rest: the hint to the client takes a while, or is not needed; then the *)
(* request is registered and sent, which may fail at once or later.           *)
Send(i) ==
    /\ calls[i].at = "server"
    /\ calls' = Set(i, "client", None, None)
    /\ pending' = pending \cup {i}
    /\ UNCHANGED <<disk, start, cache, worker, control, mishap, faults>>

SendFails(i) ==
    /\ calls[i].at = "server" /\ Trouble
    /\ calls' = Set(i, "over", None, Failure)
    /\ faults' = faults + 1
    /\ UNCHANGED <<disk, start, cache, worker, pending, control, mishap>>

(* deriveAccessEventFromResponse and recordMutationEvent share the pipe.      *)
Denial(i) == IF IsLook(calls[i].req) /\ calls[i].reply.code = "ENOENT"
             THEN <<Message("put_negative", calls[i].reply.above)>> ELSE <<>>

(* resolveResponse; an answer that is late is dropped.                        *)
Resolve(i) ==
    /\ calls[i].at = "back"
    /\ pending' = pending \ {i}
    /\ calls' = Set(i, "over", calls[i].reply, IF i \in pending THEN calls[i].reply ELSE None)
    /\ control' = IF i \in pending THEN control \o Denial(i) ELSE control
    /\ UNCHANGED <<disk, start, cache, worker, mishap, faults>>

(* (slip) The timer only forgets the request.                                 *)
ExpireUnsaid(i) ==
    /\ i \in pending
    /\ \/ calls[i].at = "over" /\ faults' = faults
       \/ Trouble /\ faults' = faults + 1
    /\ pending' = pending \ {i}
    /\ mishap' = mishap \cup Note(~IsLook(calls[i].req), "given up")
    /\ UNCHANGED <<disk, start, cache, calls, worker, control>>

(* createDeferred's timer: thirty seconds, or there is nobody to answer.      *)
Expire(i) ==
    /\ i \in pending
    /\ \/ calls[i].at = "over" /\ faults' = faults
       \/ Trouble /\ faults' = faults + 1
    /\ pending' = pending \ {i}
    /\ calls' = Set(i, calls[i].at, calls[i].reply, Failure)
    /\ mishap' = mishap \cup Note(~IsLook(calls[i].req), "given up")
    /\ UNCHANGED <<disk, start, cache, worker, control>>

-----------------------------------------------------------------------------
(* The client.                                                                *)

Execute(i) ==
    LET r == calls[i].req
    IN  /\ calls[i].at = "client"
        /\ IF IsLook(r)
           THEN /\ calls' = Set(i, IF Found(r).code = "ENOENT" THEN "climbs" ELSE "back",
                                Found(r), None)
                /\ UNCHANGED <<disk, mishap>>
           ELSE /\ calls' = Set(i, "back", IF Possible(tree, r)
                                           THEN [Failure EXCEPT !.code = "ok"] ELSE Failure, None)
                /\ tree' = IF Possible(tree, r) THEN Changed(tree, r) ELSE tree
                /\ version' = IF Possible(tree, r) THEN Versions(r, i) ELSE version
                /\ mishap' = mishap
                       \cup Note(r.op = "rename" /\ ~Bare(tree, r.path), "moved tree")
                       \cup Note(/\ r.op \in {"change", "mkdir"}
                                 /\ \E q \in Parents(r.path) : ~Exists(q), "deep")
        /\ UNCHANGED <<start, cache, worker, pending, control, faults>>

(* findShallowestMissingAncestor *)
Climb(i) ==
    /\ calls[i].at = "climbs"
    /\ calls' = Set(i, "back", [calls[i].reply EXCEPT !.above =
                                   Shallowest(tree, calls[i].req.path)], None)
    /\ UNCHANGED <<disk, start, cache, worker, pending, control, mishap, faults>>

(* The connection drops: the request or its answer is lost.                   *)
Lose(i) ==
    /\ calls[i].at \in {"client", "climbs", "back"} /\ Trouble
    /\ calls' = Set(i, "over", calls[i].reply, None)
    /\ faults' = faults + 1
    /\ UNCHANGED <<disk, start, cache, worker, pending, control, mishap>>

(* The user, or a tool that runs on the client, changes a file or removes it. *)
Edit(p) ==
    /\ Trouble /\ tree[p] # "dir" /\ \A q \in Parents(p) : tree[q] = "dir"
    /\ tree' \in {With(tree, {p}, k) : k \in {"file", "none"}}
    /\ version' = [version EXCEPT ![p] = IF tree'[p] = "file" THEN MaxCalls + 1 + faults
                                         ELSE 0]
    /\ mishap' = mishap \cup {"user"}
    /\ faults' = faults + 1
    /\ UNCHANGED <<start, cache, calls, worker, pending, control>>

(* Nothing is left to do: the only state in which the system may stop.        *)
AtRest ==
    /\ stage \in {"serves", "failed"}
    /\ \A t \in Thread : worker[t] = None
    /\ pending = {} /\ control = <<>>
    /\ \A i \in 1..Len(calls) : calls[i].at = "over"
    /\ UNCHANGED vars

Starting == \/ PhaseSettles \/ Gather
            \/ \E answered \in SUBSET Asked : TakeSnapshot(answered)
            \/ \E l \in Ledgers, written \in BOOLEAN : WriteSnapshot(l, written)
            \/ \E ok \in BOOLEAN : Mount(ok)

Next ==
    \/ Starting
    \/ \E t \in Thread :
          \/ \E r \in Wanted[t] : Begin(t, r)
          \/ Return(t) \/ GiveUp(t)
    \/ Control
    \/ \E i \in 1..Len(calls) :
          \/ Receive(i) \/ Send(i) \/ SendFails(i) \/ Resolve(i) \/ Expire(i)
          \/ Execute(i) \/ Climb(i) \/ Lose(i)
    \/ \E p \in Edited : Edit(p)
    \/ AtRest

Spec == Init /\ [][Next]_vars

-----------------------------------------------------------------------------
IsLayer(f) == /\ f = [w \in What |-> f[w]]
              /\ \A w \in What : f[w] \in [Path -> {None} \cup Value(w)]

IsCache(c) == /\ c = [neg |-> c.neg, perm |-> c.perm, fresh |-> c.fresh]
              /\ c.neg \subseteq Path /\ IsLayer(c.perm) /\ IsLayer(c.fresh)

IsReply(r, a) ==
    a # None => /\ a = [code |-> a.code, value |-> a.value, above |-> a.above]
                /\ a.code \in {"ok", "ENOENT", "failed"}
                /\ a.value = None \/ (IsLook(r) /\ a.value \in Value(Of(r.op)))
                /\ a.above = None \/ a.above \in Path

IsCall(k) == /\ k = [req |-> k.req, at |-> k.at, reply |-> k.reply, said |-> k.said]
             /\ k.req \in Look \cup Mutation
             /\ k.at \in {"pipe", "server", "client", "climbs", "back", "over"}
             /\ IsReply(k.req, k.reply) /\ IsReply(k.req, k.said)

TypeOK ==
    /\ tree \in [Path -> Kind] /\ version \in [Path -> Nat]
    /\ phase \in {"syncing", "ready", "idle"}
    /\ stage \in {"waits", "asks project", "asks all", "denies", "mounts", "serves", "failed"}
    /\ attempts \in 0..FUSE_MAX_RETRIES
    /\ IsCache(snapshot) /\ IsCache(cache)
    /\ calls \in Seq(ToSet(calls)) /\ \A i \in 1..Len(calls) : IsCall(calls[i])
    /\ Len(calls) <= MaxCalls
    /\ worker \in [Thread -> (1..Len(calls)) \cup {None}]
    /\ pending \subseteq 1..Len(calls)
    /\ control \in Seq(ControlLine)
    /\ mishap \subseteq Mishap
    /\ faults \in 0..MaxFaults

(* Whatever goes wrong with a request, the manager answers the daemon: one    *)
(* that is neither still to be passed on nor in pendingRequests has had its   *)
(* answer, whether it came from the client, from a send that failed or from   *)
(* the timer.  So no thread waits for one that nobody will answer.            *)
EachIsAnswered ==
    \A i \in 1..Len(calls) :
        calls[i].said = None => calls[i].at \in {"pipe", "server"} \/ i \in pending

(* The daemon's memory once it has read its control pipe to the end.          *)
Settled == FoldLeft(Applied, cache, control)

(* A change of the path, or of something in it, is not over yet.              *)
Making(p) == \E i \in 1..Len(calls) :
                /\ ~IsLook(calls[i].req)
                /\ calls[i].at # "over" \/ Waiting(i)
                /\ Covers(p, calls[i].req.path) \/ Covers(p, calls[i].req.to)

(* Two threads look and change, answers and control messages overtake each    *)
(* other, and some come late: when the change of a path is over, the negative *)
(* cache does not hide it if it is there, but for the mishaps, most of which  *)
(* alone hide a file for the rest of the session.                             *)
NothingDenied ==
    LET N == Settled.neg
    IN  mishap = {} => \A p \in Path : Exists(p) /\ Denies(N, p) => Making(p)

(* When a change has succeeded and its thread goes on, the daemon asks again  *)
(* for what it changed, whatever else went wrong before: neither the negative *)
(* cache, though it is searched by bisection, nor a layer answers for it.     *)
ChangeIsSeen ==
    [][\A t \in Thread :
          LET i == worker[t]
          IN  /\ i # None /\ worker'[t] = None
              /\ calls[i].said # None /\ calls[i].said.code = "ok" /\ ~IsLook(calls[i].req)
              => \A p \in {calls[i].req.path, IF calls[i].req.op = "rename"
                                              THEN calls[i].req.to ELSE calls[i].req.path} :
                     /\ ~Denies(cache'.neg, p)
                     /\ \A w \in What : Recall(cache', w, p) = None]_vars

(* A directory's list that was made from the server's cache lacks what that   *)
(* cache does not hold.                                                       *)
Agrees(v, layer, w, p) ==
    \/ v = None
    \/ v = Truth(w, p)
    \/ /\ layer = "perm" /\ w = "list" /\ p \in Home
       /\ tree[p] = "dir" /\ v \subseteq Truth(w, p)

(* What the daemon remembers of a path, from the snapshot or from an answer,  *)
(* is what the disk holds, version and all, unless a change of it is not over *)
(* yet: a thread that has written reads what was written, though the snapshot *)
(* never expires.  The mishaps are excepted, and with them what the ledger or *)
(* the manifest had wrong when the snapshot was made: nothing here corrects   *)
(* it before the daemon itself changes the path.                              *)
MemoryIsTrue ==
    LET c == Settled
    IN  mishap = {} => \A layer \in {"perm", "fresh"}, w \in What, p \in Path :
                          Agrees(c[layer][w][p], layer, w, p) \/ Making(p)

=============================================================================
