---------------------------- MODULE ClientFiles ----------------------------
(* The part of a client's disk that is proxied, as client/src/file-proxy.ts   *)
(* reads and changes it for the server.  A tree says of each path whether it  *)
(* is a file, a directory or not there; "change" stands for the operations    *)
(* that write or create a file.                                               *)
EXTENDS SortedPaths

Kind == {"none", "file", "dir"}

Mutation == [op: {"change", "mkdir", "unlink", "rmdir", "rename"}, path: Path, to: Path]

Parents(p) == Above(p) \cap Path

(* What is there lies in directories.                                         *)
IsTree(t) == \A p \in Path : t[p] # "none" => \A q \in Parents(p) : t[q] = "dir"

Bare(t, p) == \A q \in Path : p \in Above(q) => t[q] = "none"

(* findShallowestMissingAncestor: up from the path as long as what it lies in *)
(* is not there.  The path itself is not looked at again.                     *)
Shallowest(t, p) == CHOOSE q \in Path : /\ Covers(q, p)
                                        /\ q = p \/ t[q] = "none"
                                        /\ \A r \in Parents(q) : t[r] # "none"

With(t, paths, kind) == [q \in Path |-> IF q \in paths THEN kind ELSE t[q]]

(* A change succeeds or fails by what is there when the client comes to it; a *)
(* directory does not go into itself.                                         *)
Possible(t, m) ==
    CASE m.op = "change" -> /\ t[m.path] # "dir"
                            /\ \A q \in Parents(m.path) : t[q] # "file"
      [] m.op = "mkdir"  -> \A q \in Path : Covers(q, m.path) => t[q] # "file"
      [] m.op = "unlink" -> t[m.path] = "file"
      [] m.op = "rmdir"  -> t[m.path] = "dir" /\ Bare(t, m.path)
      [] m.op = "rename" -> /\ t[m.path] # "none"
                            /\ \A q \in Parents(m.to) : t[q] = "dir"
                            /\ IF t[m.path] = "file" THEN t[m.to] # "dir"
                               ELSE /\ t[m.to] # "file" /\ Bare(t, m.to)
                                    /\ m.path \notin Above(m.to)

(* Where the content of a path comes from when a directory moves.             *)
Sources(m, q) == {p \in Path : Covers(m.path, p) /\ Reroot(p, m.path, m.to) = q}

Moved(f, m, none) == [q \in Path |->
    IF Sources(m, q) # {} THEN f[CHOOSE p \in Sources(m, q) : TRUE]
    ELSE IF Covers(m.path, q) THEN none ELSE f[q]]

Changed(t, m) ==
    CASE m.op = "change" -> [With(t, Parents(m.path), "dir") EXCEPT ![m.path] = "file"]
      [] m.op = "mkdir"  -> With(t, {q \in Path : Covers(q, m.path)}, "dir")
      [] m.op \in {"unlink", "rmdir"} -> With(t, {m.path}, "none")
      [] m.op = "rename" -> Moved(t, m, "none")

(* The paths a change may bring into being.                                   *)
Creates(m) == {q \in Path : \/ m.op \in {"change", "mkdir"} /\ Covers(q, m.path)
                            \/ m.op = "rename" /\ q = m.to}

=============================================================================
