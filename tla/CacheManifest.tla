--------------------------- MODULE CacheManifest ---------------------------
(* The data of one device's cache on the server: the manifest, which says     *)
(* what each path of the client's home holds, and the operations that         *)
(* ClientCacheStore accepts on it, each with its effect as one function from  *)
(* manifest to manifest (server/src/file-agent/store.ts).  A blob is named by *)
(* the hash of its bytes, so a Content stands for the bytes, the hash and the *)
(* name of the file under blobs/.  The two scopes are one name space here.    *)
EXTENDS Naturals

CONSTANTS Path, Content,
          Skipped,          \* an entry that is too large: metadata and no blob
          Absent            \* no entry

ASSUME EntryKinds == /\ Skipped \notin Content
                     /\ Absent \notin Content
                     /\ Skipped # Absent

Entry == Content \cup {Skipped, Absent}

Manifest == [entries: [Path -> Entry], revision: Nat, truncated: BOOLEAN]

(* What loadManifest answers for a file that is not there, and for one it     *)
(* could not read or parse.                                                   *)
EmptyManifest == [entries   |-> [p \in Path |-> Absent],
                  revision  |-> 0,
                  truncated |-> FALSE]

(* The contents a manifest refers to: the live set of a sweep.                *)
Live(m) == {m.entries[p] : p \in Path} \cap Content

(* A delta names some paths, none in an empty batch, and each one's new entry.*)
Change == UNION {[S -> Entry] : S \in SUBSET Path}

Op == [kind: {"apply"}, change: Change]
        \cup [kind: {"truncate"}, truncated: BOOLEAN]
        \cup [kind: {"remove"}, path: Path]
        \cup [kind: {"sweep"}]

Patched(entries, change) ==
    [p \in Path |-> IF p \in DOMAIN change THEN change[p] ELSE entries[p]]

(* The effect of an operation.  A removal of nothing, and a truncation mark   *)
(* that is there already, leave the manifest as it is; a truncation mark does *)
(* not count as a revision; a sweep touches blobs only.                       *)
After(op, m) ==
    CASE op.kind = "apply"    -> [m EXCEPT !.entries = Patched(@, op.change),
                                           !.revision = @ + 1]
      [] op.kind = "truncate" -> [m EXCEPT !.truncated = op.truncated]
      [] op.kind = "remove"   -> IF m.entries[op.path] = Absent
                                   THEN m
                                   ELSE [m EXCEPT !.entries[op.path] = Absent,
                                                  !.revision = @ + 1]
      [] OTHER                -> m

(* What the file holds once an operation that read `base` has finished: the   *)
(* file is written only if the operation changed what it read.                *)
Stored(op, base, current) ==
    IF After(op, base) = base THEN current ELSE After(op, base)
=============================================================================
