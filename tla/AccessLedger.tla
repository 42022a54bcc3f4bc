---------------------------- MODULE AccessLedger ----------------------------
(* The access ledger of a device (server/src/access-ledger.ts): for each path *)
(* a session has touched, what it was found to be, with three indices that    *)
(* every change keeps up by hand, and the plan of a client's first walk that  *)
(* is computed from it (server/src/sync-plan.ts).                             *)
(*                                                                            *)
(* An entry is "file", "dir" (seen, never listed), "listed" (a directory with *)
(* readdirObserved) or "missing".  Of lastAccessedAt only one thing matters:  *)
(* is it before the cutoff of the aging?  Those entries are the set old.      *)
EXTENDS SortedPaths, FiniteSets

CONSTANT Seed               \* the plan of a device whose ledger is empty

Entry == {"none", "file", "dir", "listed", "missing"}

Dirs == {"dir", "listed"}

Ledger == [entries: [Path -> Entry], all: SUBSET Path, missing: SUBSET Path,
           listed: SUBSET Path, old: SUBSET Path]

EmptyLedger == [entries |-> [p \in Path |-> "none"], all |-> {}, missing |-> {},
                listed |-> {}, old |-> {}]

(* The indices hold what the entries say.  Renaming and absorbing let         *)
(* missingSorted and dirsReaddirObserved hold more; allPathsSorted is exact.  *)
Indexed(L) ==
    /\ L.all = {p \in Path : L.entries[p] # "none"}
    /\ {p \in Path : L.entries[p] = "missing"} \subseteq L.missing
    /\ {p \in Path : L.entries[p] = "listed"} \subseteq L.listed

-----------------------------------------------------------------------------
(* AccessLedgerRuntime.                                                       *)

Put(L, p, e, missing, listed) ==
    [entries |-> [L.entries EXCEPT ![p] = e],
     all     |-> L.all \cup {p},
     missing |-> missing,
     listed  |-> listed,
     old     |-> L.old \ {p}]

(* upsertFilePresent *)
FilePresent(L, p) ==
    Put(L, p, "file",
        IF L.entries[p] = "missing" THEN L.missing \ {p} ELSE L.missing,
        IF L.entries[p] \in Dirs THEN L.listed \ {p} ELSE L.listed)

(* upsertDirPresent: a directory that was listed once stays so.               *)
DirPresent(L, p, seen) ==
    LET e == IF seen \/ L.entries[p] = "listed" THEN "listed" ELSE "dir"
    IN  Put(L, p, e,
            IF L.entries[p] = "missing" THEN L.missing \ {p} ELSE L.missing,
            IF e = "listed" THEN L.listed \cup {p} ELSE L.listed)

(* (slip) allPathsSorted is forgotten.                                        *)
WithoutHalf(L, gone, listed) ==
    [entries |-> [p \in Path |-> IF p \in gone THEN "none" ELSE L.entries[p]],
     all     |-> L.all,
     missing |-> L.missing \ gone,
     listed  |-> listed,
     old     |-> L.old \ gone]

(* entries.delete and the removal from the indices it takes along.            *)
Without(L, gone, listed) ==
    [entries |-> [p \in Path |-> IF p \in gone THEN "none" ELSE L.entries[p]],
     all     |-> L.all \ gone,
     missing |-> L.missing \ gone,
     listed  |-> listed,
     old     |-> L.old \ gone]

(* removeFilePresent *)
Removed(L, p) == Without(L, {p}, L.listed \ {p})

(* upsertMissing: nothing new below a missing directory, and the missing      *)
(* paths below this one are absorbed.                                         *)
Missing(L, p) ==
    IF \E q \in Above(p) \cap Path : L.entries[q] = "missing"
    THEN [L EXCEPT !.old = IF L.entries[p] = "missing" THEN L.old \ {p} ELSE L.old]
    ELSE LET W == Without(L, Under(L.missing, p), L.listed)
         IN  Put(W, p, "missing", W.missing \cup {p},
                 IF L.entries[p] \in Dirs THEN L.listed \ {p} ELSE L.listed)

(* (slip) Only the path itself is cleared.                                    *)
NotMissingItself(L, p) ==
    Without(L, {q \in {p} : L.entries[q] = "missing"}, L.listed)

(* invalidateMissingPrefixes: the path and what it lies in are not missing.   *)
NotMissing(L, p) ==
    Without(L, {q \in Path : Covers(q, p) /\ L.entries[q] = "missing"}, L.listed)

(* removeDirSubtree *)
RemovedTree(L, p) == Without(L, Run(L.all, p), L.listed \ Run(L.all, p))

(* renameSubtree: the entries in the way are overwritten, not their indices.  *)
RenamedTree(L, from, to) ==
    LET moved == Run(L.all, from)
        rest == Without(L, moved, L.listed \ moved)
        New(q) == {p \in moved : Reroot(p, from, to) = q}
        came == {q \in Path : New(q) # {}}
        Was(q) == CHOOSE p \in New(q) : TRUE
        of(e) == {q \in came : L.entries[Was(q)] = e}
    IN  [entries |-> [q \in Path |-> IF q \in came THEN L.entries[Was(q)]
                                     ELSE rest.entries[q]],
         all     |-> rest.all \cup came,
         missing |-> rest.missing \cup of("missing"),
         listed  |-> rest.listed \cup of("listed"),
         old     |-> (rest.old \ came) \cup {q \in came : Was(q) \in L.old}]

(* touchIfPresent *)
Touched(L, p) == [L EXCEPT !.old = @ \ {p}]

(* runAging: only missing paths grow old.                                     *)
Aged(L) ==
    Without(L, {p \in L.missing : L.entries[p] = "missing" /\ p \in L.old}, L.listed)

-----------------------------------------------------------------------------
(* The events of a session and what each does (access-event-buffer.ts).       *)

Event == [op: {"file", "dir", "listed", "missing", "change", "mkdir", "unlink",
               "rmdir", "rename", "hit"}, path: Path, to: Path]

Applied(L, e) ==
    CASE e.op = "file"            -> FilePresent(L, e.path)
      [] e.op \in Dirs            -> DirPresent(L, e.path, e.op = "listed")
      [] e.op = "missing"         -> Missing(L, e.path)
      [] e.op = "change"          -> Touched(NotMissing(L, e.path), e.path)
      [] e.op = "mkdir"           -> DirPresent(NotMissing(L, e.path), e.path, FALSE)
      [] e.op = "unlink"          -> Removed(L, e.path)
      [] e.op = "rmdir"           -> RemovedTree(L, e.path)
      [] e.op = "rename"          -> NotMissing(RenamedTree(L, e.path, e.to), e.to)
      [] e.op = "hit"             -> Touched(L, e.path)

-----------------------------------------------------------------------------
(* What is written to the disk are the entries alone; loading builds the      *)
(* indices anew and drops a missing path below another.                       *)

Stored == [entries: [Path -> Entry], old: SUBSET Path]

toJSON(L) == [entries |-> L.entries, old |-> L.old]

Loaded(d) ==
    LET gone == {p \in Path :
                    /\ d.entries[p] = "missing"
                    /\ \E q \in Above(p) \cap Path : d.entries[q] = "missing"}
        e == [p \in Path |-> IF p \in gone THEN "none" ELSE d.entries[p]]
    IN  [entries |-> e,
         all     |-> {p \in Path : e[p] # "none"},
         missing |-> {p \in Path : e[p] = "missing"},
         listed  |-> {p \in Path : e[p] = "listed"},
         old     |-> d.old \ gone]

-----------------------------------------------------------------------------
(* computeSyncPlan, for the paths of the home scope.  The paths are visited   *)
(* in order, so a directory comes before what lies in it; whatever lies in a  *)
(* directory that is already planned, deep or shallow, is passed over.        *)

Planned(L) == {p \in L.all :
                  /\ L.entries[p] \in Dirs
                  /\ ~\E q \in Above(p) \cap Path : L.entries[q] \in Dirs}

Passed(L, p) == \E q \in Planned(L) : Covers(q, p)

(* The ancestors of single files and of missing paths are walked as files.    *)
Intermediate(L) ==
    LET seeds == {p \in L.all : L.entries[p] = "missing"
                                \/ (L.entries[p] = "file" /\ ~Passed(L, p))}
    IN  {q \in Path : /\ \E p \in seeds : q \in Above(p)
                      /\ ~Passed(L, q)
                      /\ L.entries[q] # "missing"}

SyncPlan(L) ==
    IF L.all = {} THEN Seed ELSE
    [deep    |-> {p \in Planned(L) : L.entries[p] = "listed"},
     shallow |-> {p \in Planned(L) : L.entries[p] = "dir"},
     files   |-> {p \in L.all : L.entries[p] = "file" /\ ~Passed(L, p)}
                 \cup Intermediate(L),
     missing |-> {p \in L.all : L.entries[p] = "missing"}]

(* (slip) A subtree of depth 0 is not listed.                                 *)
WalkedDeepOnly(plan, tree) ==
    {p \in Path :
        /\ tree[p] = "file"
        /\ p \notin plan.missing
        /\ \/ p \in plan.files
           \/ \E d \in plan.deep : d \in Above(p)}

(* The files a client's walk of the plan finds (client/src/cache-sync.ts,     *)
(* walkDir and scanInstructionFiles).                                         *)
Walked(plan, tree) ==
    {p \in Path :
        /\ tree[p] = "file"
        /\ p \notin plan.missing
        /\ \/ p \in plan.files
           \/ \E d \in plan.deep : d \in Above(p)
           \/ \E d \in plan.shallow : d \in Above(p) /\ Len(p) = Len(d) + 1}

=============================================================================
