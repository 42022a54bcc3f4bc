-------------------------- MODULE CacheReadThrough --------------------------
(* Files under ~/.claude are read from the server's copy of them              *)
(* (FileProxyManager.tryServeReadFromCache) and written on the client; the    *)
(* copy follows through the client's watcher (cache-watcher.ts), its queue of *)
(* changes (cache-task-state-machine.ts) and CacheTaskManager.applyDelta.     *)
(* Until it has followed, a bypass sends the reads of a written file to the   *)
(* client: a change through the proxy has an id, which the manager keeps with *)
(* the bypass and hints to the executor, whose watcher tags the change with   *)
(* it; the bypass ends when a change with its id is stored, or with its time. *)
(*                                                                            *)
(* One task, ready, with one assignment; one session.                         *)
EXTENDS Integers, FiniteSets, SequencesExt

CONSTANTS File,
          Start,                    \* the files that may be there at the start
          Wanted,                   \* the operations asked for
          RECENT_MUTATION_ID_CAP,
          None,
          MaxOps,                   \* bound: operations
          MaxTrouble                \* bound: what goes wrong

ASSUME ReadThroughBounds == /\ Start \subseteq SUBSET File
                            /\ Wanted \subseteq
                                [kind: {"read", "write", "unlink", "rename"}, from: File, to: File]
                            /\ \A r \in Wanted : r.kind # "rename" => r.from = r.to
                            /\ RECENT_MUTATION_ID_CAP \in Nat \ {0}
                            /\ None \notin File \cup Nat
                            /\ MaxOps \in Nat /\ MaxTrouble \in Nat

VARIABLES disk, clock,      \* the client's files, and how often one has changed
          dirty,            \* dirtyPathSet, and events on their way to it
          suppressed,       \* suppressions: the id of the last hint for a file
          localIndex,
          flush,            \* the flush that is running
          live,             \* pendingLiveChanges
          batch,            \* the delta that waits for its ack
          hints,            \* mutation hints on their way
          bypass,           \* pendingReadBypass
          recent,           \* recentMutationOrder
          store,            \* the manifest of the device
          ops,              \* the operations of the session's daemon
          own,              \* the executor is the session's own connection
          mishap,           \* history: what has happened that no code makes good
          trouble

watcher == <<dirty, suppressed, localIndex, flush>>
queue == <<live, batch>>
manager == <<bypass, recent, store>>
readVars == <<disk, clock, watcher, queue, hints, manager, ops, own, mishap, trouble>>

Op == 1..MaxOps             \* an operation's place in ops is its mutationId
NoId == 0

Content == [made: Nat, there: BOOLEAN]
Change == [on: File, what: Content, tag: Op \cup {NoId}]

Idle == [all |-> {}, todo |-> {}, at |-> None, tag |-> NoId, found |-> {}]

Mishap == {"user",          \* a change that does not come through the proxy
           "late tag",      \* a change is read and its hint is not known, or no longer
           "early tag",     \* a change gets the tag of one that is yet to come
           "split",         \* the two files of one change are not read together
           "expired",       \* a bypass ends by its time
           "other task"}    \* another task stores what is older

Note(cond, name) == IF cond THEN {name} ELSE {}

Trouble == trouble < MaxTrouble

Targets(i) == {ops[i].req.from, ops[i].req.to}

IsRead(r) == r.kind = "read"

(* Two contents of a file that nobody can tell apart.                         *)
Alike(a, b) == a.there = b.there /\ (a.there => a.made = b.made)

-----------------------------------------------------------------------------

ReadInit ==
    /\ \E files \in Start : disk = [f \in File |-> [made |-> 0, there |-> f \in files]]
    /\ clock = 0
    /\ dirty = {}
    /\ suppressed = [f \in File |-> NoId]
    /\ localIndex = {f \in File : disk[f].there}
    /\ flush = Idle
    /\ live = {} /\ batch = {} /\ hints = {}
    /\ bypass = [f \in File |-> NoId]
    /\ recent = <<>>
    /\ store = disk
    /\ ops = <<>>
    /\ own \in BOOLEAN
    /\ mishap = {}
    /\ trouble = 0

-----------------------------------------------------------------------------
(* The session's operations.                                                  *)

Done(i, f) == ops[i].at = "over" /\ f \in Targets(i)

(* The newest version of a file that the session has written or read.         *)
Newest(f) == LET done == {i \in 1..Len(ops) : Done(i, f)}
             IN  Max({0} \cup {ops[i].made : i \in done})

Called(r, at) == Append(ops, [req |-> r, at |-> at, made |-> 0, since |-> Newest(r.from)])

(* A read comes as far as shouldBypassCacheRead, the first thing it meets.    *)
BeginRead(r) ==
    /\ IsRead(r) /\ Len(ops) < MaxOps
    /\ ops' = Called(r, IF bypass[r.from] = NoId THEN "looks" ELSE "misses")
    /\ UNCHANGED <<disk, clock, watcher, queue, hints, manager, own, mishap, trouble>>

(* A change: registerMutationHintForPath, one step for the task lock, sends   *)
(* the hint, and the request follows.  The kernel lets the changes of one     *)
(* file follow one another.                                                   *)
BeginChange(r) ==
    LET id == Len(ops) + 1
    IN  /\ ~IsRead(r) /\ Len(ops) < MaxOps
        /\ \A i \in 1..Len(ops) : \/ ops[i].at = "over" \/ IsRead(ops[i].req)
                                  \/ Targets(i) \cap {r.from, r.to} = {}
        /\ ops' = Called(r, "asks")
        /\ bypass' = [f \in File |-> IF f \in {r.from, r.to} THEN id ELSE bypass[f]]
        /\ hints' = hints \cup {id}
        /\ UNCHANGED <<disk, clock, watcher, queue, recent, store, own, mishap,
                       trouble>>

Step(i, at) == [ops EXCEPT ![i].at = at]

(* The hint, or the request after it, cannot be sent: an error is answered    *)
(* and the bypass stays.                                                      *)
Refuse(i, hinted) ==
    /\ Trouble
    /\ ops[i].at = "asks" /\ ~IsRead(ops[i].req) /\ i \in hints
    /\ ops' = Step(i, "over")
    /\ hints' = IF hinted THEN hints ELSE hints \ {i}
    /\ trouble' = trouble + 1
    /\ UNCHANGED <<disk, clock, watcher, queue, manager, own, mishap>>

(* lookupEntry and readBlobSync.                                              *)
LookUp(i) ==
    LET entry == store[ops[i].req.from]
    IN  /\ ops[i].at = "looks"
        /\ ops' = [ops EXCEPT ![i].at = IF entry.there THEN "over" ELSE "misses",
                              ![i].made = IF entry.there THEN entry.made ELSE 0]
        /\ UNCHANGED <<disk, clock, watcher, queue, hints, manager, own,
                       mishap, trouble>>

(* The client is asked.  (Of settings.json it is asked for as many bytes as   *)
(* the manifest says, which the model does not count.)                        *)
Pass(i) ==
    /\ ops[i].at = "misses"
    /\ ops' = Step(i, "asks")
    /\ UNCHANGED <<disk, clock, watcher, queue, hints, manager, own, mishap, trouble>>

-----------------------------------------------------------------------------
(* The client.                                                                *)

(* handleMutationHint and suppressPaths.                                      *)
Hint(i) ==
    /\ i \in hints /\ \A j \in hints : i <= j
    /\ hints' = hints \ {i}
    /\ suppressed' = [f \in File |-> IF f \in Targets(i) THEN i ELSE suppressed[f]]
    /\ UNCHANGED <<disk, clock, dirty, localIndex, flush, queue, manager, ops,
                   own, mishap, trouble>>

Possible(r) == r.kind \in {"unlink", "rename"} => disk[r.from].there

Changed(r, f) == [made |-> clock + 1, there |-> r.kind = "write" \/ (r.kind = "rename" /\ f = r.to)]

(* file-proxy.ts carries out a request; the answer only has to reach the      *)
(* daemon.  On one connection a hint comes before the request it is for.      *)
Execute(i) ==
    LET r == ops[i].req
    IN  /\ ops[i].at = "asks"
        /\ own => i \notin hints
        /\ IF IsRead(r)
           THEN /\ ops' = [ops EXCEPT ![i].at = "over", ![i].made = disk[r.from].made]
                /\ UNCHANGED <<disk, clock, dirty>>
           ELSE IF Possible(r)
           THEN /\ ops' = [ops EXCEPT ![i].at = "over", ![i].made = clock + 1]
                /\ disk' = [f \in File |-> IF f \in Targets(i) THEN Changed(r, f) ELSE disk[f]]
                /\ clock' = clock + 1
                /\ dirty' = dirty \cup Targets(i)
           ELSE ops' = Step(i, "over") /\ UNCHANGED <<disk, clock, dirty>>
        /\ UNCHANGED <<suppressed, localIndex, flush, queue, hints, manager, own,
                       mishap, trouble>>

(* The user, or a tool that runs on the client, writes a file or removes it.  *)
Edit(f, there) ==
    /\ Trouble
    /\ there \/ disk[f].there
    /\ disk' = [disk EXCEPT ![f] = [made |-> clock + 1, there |-> there]]
    /\ clock' = clock + 1
    /\ dirty' = dirty \cup {f}
    /\ mishap' = mishap \cup {"user"}
    /\ trouble' = trouble + 1
    /\ UNCHANGED <<suppressed, localIndex, flush, queue, hints, manager, ops, own>>

-----------------------------------------------------------------------------
(* The watcher and the queue of changes.                                      *)

(* enqueueFlush, of the events that have come by then; the event of a path    *)
(* may come twice.                                                            *)
FlushStart(paths, again) ==
    /\ flush = Idle
    /\ paths # {} /\ paths \subseteq dirty /\ again \subseteq paths
    /\ again # {} => Trouble
    /\ flush' = [Idle EXCEPT !.all = paths, !.todo = paths]
    /\ dirty' = (dirty \ paths) \cup again
    /\ trouble' = IF again = {} THEN trouble ELSE trouble + 1
    /\ UNCHANGED <<disk, clock, suppressed, localIndex, queue, hints, manager, ops,
                   own, mishap>>

(* A change of the file has been made whose id is later than this one.        *)
Outdated(f, id) == \E i \in (id + 1)..Len(ops) :
                       f \in Targets(i) /\ ~IsRead(ops[i].req) /\ ops[i].made > 0

(* The other file of the change is not read in this flush, or was read        *)
(* with another tag.                                                          *)
Apart(f, id) == \E g \in Targets(id) \ {f} :
    g \notin flush.todo /\ \A c \in flush.found : c.on = g => c.tag # id

(* lookupSuppression: before the file is read.                                *)
Tag(f) ==
    LET id == suppressed[f]
    IN  /\ f \in flush.todo /\ flush.at = None
        /\ flush' = [flush EXCEPT !.at = f, !.tag = id]
        /\ mishap' = mishap
               \cup Note(Outdated(f, id), "late tag")
               \cup Note(id # NoId /\ ops[id].at = "asks", "early tag")
               \cup Note(id # NoId /\ Apart(f, id), "split")
        /\ UNCHANGED <<disk, clock, dirty, suppressed, localIndex, queue, hints, manager,
                       ops, own, trouble>>

(* (slip) A path that is waiting already keeps its change.                    *)
MergedFirst(old, new) == old \cup {c \in new : \A d \in old : d.on # c.on}

(* handleWatcherChanges: of the changes of one path the last counts.          *)
Merged(old, new) == new \cup {c \in old : \A d \in new : d.on # c.on}

(* buildChangesForPath: a file that is gone is a change only if it was known. *)
(* After the last path the changes are handed over.                           *)
Read ==
    LET f == flush.at
        change == [on |-> f, what |-> disk[f], tag |-> flush.tag]
        found == flush.found \cup
                     IF disk[f].there \/ f \in localIndex THEN {change} ELSE {}
        todo == flush.todo \ {f}
    IN  /\ f # None
        /\ localIndex' = IF disk[f].there THEN localIndex \cup {f} ELSE localIndex \ {f}
        /\ flush' = IF todo = {} THEN Idle
                    ELSE [all |-> flush.all, todo |-> todo, at |-> None, tag |-> NoId,
                          found |-> found]
        /\ live' = IF todo = {} THEN Merged(live, found) ELSE live
        /\ mishap' = mishap \cup Note(~disk[f].there /\ Outdated(f, flush.tag), "late tag")
        /\ UNCHANGED <<disk, clock, dirty, suppressed, batch, hints, manager, ops, own,
                       trouble>>

(* scheduleLiveDrain: one delta at a time.                                    *)
Push ==
    /\ batch = {} /\ live # {}
    /\ batch' = live /\ live' = {}
    /\ UNCHANGED <<disk, clock, watcher, hints, manager, ops, own, mishap, trouble>>

(* Ten seconds after the hint.                                                *)
Unsuppress(f) ==
    /\ Trouble /\ suppressed[f] # NoId
    /\ suppressed' = [suppressed EXCEPT ![f] = NoId]
    /\ trouble' = trouble + 1
    /\ UNCHANGED <<disk, clock, dirty, localIndex, flush, queue, hints, manager,
                   ops, own, mishap>>

-----------------------------------------------------------------------------
(* CacheTaskManager.                                                          *)

(* filterDuplicateMutationChanges                                             *)
Fresh(changes) == {c \in changes : c.tag \notin Range(recent)}

(* (slip) The ids are never evicted.                                          *)
RememberedAll(seen, ids) == seen \o ids

(* rememberMutationIds                                                        *)
Remembered(seen, ids) == LET all == seen \o ids
                         IN  SubSeq(all, Max({1, Len(all) - RECENT_MUTATION_ID_CAP + 1}), Len(all))

(* (slip) Any change of the path will do.                                     *)
ClearedByAny(b, changes) == [f \in File |->
    IF \E c \in changes : c.on = f THEN NoId ELSE b[f]]

(* clearReadBypass                                                            *)
Cleared(b, changes) == [f \in File |->
    IF \E c \in changes : c.on = f /\ c.tag \in {NoId, b[f]} THEN NoId ELSE b[f]]

Stored(entries, changes) == [f \in File |->
    IF \E c \in changes : c.on = f THEN (CHOOSE c \in changes : c.on = f).what ELSE entries[f]]

(* applyDelta, in the task lock, and its ack.  What it does beside the write  *)
(* of the manifest is seen by the reads later at most, and they go to the     *)
(* client until then.                                                         *)
ApplyDelta ==
    LET new == Fresh(batch)
        ids == {c.tag : c \in new} \ {NoId}
    IN  /\ batch # {}
        /\ \E order \in SetToSeqs(ids) : recent' = Remembered(recent, order)
        /\ store' = Stored(store, new)
        /\ bypass' = Cleared(bypass, new)
        /\ batch' = {}
        /\ UNCHANGED <<disk, clock, watcher, live, hints, ops, own, mishap, trouble>>

(* Ten seconds after the change was asked for, made or not.                   *)
BypassExpires(f) ==
    /\ Trouble /\ bypass[f] # NoId
    /\ bypass' = [bypass EXCEPT ![f] = NoId]
    /\ mishap' = mishap \cup
           Note(ops[bypass[f]].at # "over" \/ store[f].made < disk[f].made, "expired")
    /\ trouble' = trouble + 1
    /\ UNCHANGED <<disk, clock, watcher, queue, hints, recent, store, ops, own>>

(* The same device has a task for another directory, whose executor watches   *)
(* the same files and whose deltas go into the same manifest; this one has    *)
(* been overtaken by a change that its watcher has yet to read.               *)
OtherTask(f) ==
    /\ Trouble
    /\ \E older \in {0} \cup {ops[i].made : i \in {j \in 1..Len(ops) : f \in Targets(j)}} :
           /\ older < disk[f].made
           /\ store' = [store EXCEPT ![f] = [made |-> older, there |-> TRUE]]
    /\ mishap' = mishap \cup {"other task"}
    /\ trouble' = trouble + 1
    /\ UNCHANGED <<disk, clock, watcher, queue, hints, bypass, recent, ops, own>>

-----------------------------------------------------------------------------

Quiet == /\ dirty = {} /\ flush = Idle /\ live = {} /\ batch = {} /\ hints = {}
         /\ \A i \in 1..Len(ops) : ops[i].at = "over"

AtRest == Quiet /\ Len(ops) = MaxOps /\ UNCHANGED readVars

ReadNext ==
    \/ \E r \in Wanted : BeginRead(r) \/ BeginChange(r)
    \/ \E i \in 1..Len(ops) :
           \/ LookUp(i)
           \/ Pass(i)
           \/ Hint(i)
           \/ Execute(i)
           \/ \E hinted \in BOOLEAN : Refuse(i, hinted)
    \/ \E paths \in SUBSET dirty, again \in SUBSET dirty : FlushStart(paths, again)
    \/ \E f \in File :
           \/ Tag(f)
           \/ Unsuppress(f)
           \/ BypassExpires(f)
           \/ OtherTask(f)
           \/ \E there \in BOOLEAN : Edit(f, there)
    \/ Read
    \/ Push
    \/ ApplyDelta
    \/ AtRest

ReadSpec == ReadInit /\ [][ReadNext]_readVars

-----------------------------------------------------------------------------

(* Every variable has a value of its kind; the manager keeps no more ids than *)
(* its cap and none twice.                                                    *)
ReadTypeOK ==
    /\ disk \in [File -> Content] /\ store \in [File -> Content]
    /\ clock \in Nat
    /\ dirty \subseteq File /\ localIndex \subseteq File
    /\ suppressed \in [File -> 0..Len(ops)] /\ bypass \in [File -> 0..Len(ops)]
    /\ flush \in [all: SUBSET File, todo: SUBSET File, at: File \cup {None},
                  tag: 0..Len(ops), found: SUBSET Change]
    /\ flush.todo \subseteq flush.all /\ flush.at \in flush.todo \cup {None}
    /\ live \subseteq Change /\ batch \subseteq Change
    /\ \A c, d \in live : c.on = d.on => c = d
    /\ hints \subseteq 1..Len(ops)
    /\ recent \in Seq(Op) /\ Len(recent) <= RECENT_MUTATION_ID_CAP
    /\ \A k, l \in 1..Len(recent) : recent[k] = recent[l] => k = l
    /\ ops \in Seq([req: Wanted, at: {"looks", "misses", "asks", "over"},
                     made: 0..clock, since: 0..clock])
    /\ Len(ops) <= MaxOps
    /\ own \in BOOLEAN /\ mishap \subseteq Mishap
    /\ trouble \in 0..MaxTrouble

(* A session reads what it has written: a read that begins after a change has *)
(* been answered, or after another read, gives that version or a later one,   *)
(* whether the server's copy answers it (tryServeReadFromCache) or the        *)
(* client.  What the copy misses because a change is split is still bypassed. *)
ReadsOwnWrites ==
    mishap \subseteq {"split"} => \A i \in 1..Len(ops) :
        IsRead(ops[i].req) /\ ops[i].at = "over" => ops[i].made >= ops[i].since

(* When nothing is under way the server's copy is what the client has: no     *)
(* change was dropped as a repetition (filterDuplicateMutationChanges), lost  *)
(* in the queue or overtaken in it.  A bypass that ends early changes nothing *)
(* in that.                                                                   *)
StoreFollows ==
    mishap \subseteq {"expired"} /\ Quiet => \A f \in File : Alike(store[f], disk[f])

=============================================================================
