---------------------------- MODULE MCLedgerFlush ----------------------------
EXTENDS LedgerFlush, TLC

d == <<"d">>
db == <<"d-b">>
dx == <<"d", "x">>
e == <<"e">>
ex == <<"e", "x">>

MCName == {"d", "d-b", "e", "x"}

MCPath == {d, db, dx, e, ex}

(* "d" < "d-b" < "d/x" < "e" < "e/x"                                          *)
MCRank == d :> 1 @@ db :> 2 @@ dx :> 3 @@ e :> 4 @@ ex :> 5

MCSeed == [deep |-> {}, shallow |-> {}, files |-> {}, missing |-> {}]

MCOwner == [f \in Flusher |-> IF f = "g1" THEN "t" ELSE "s"]

Has(dirs, files) == [p \in MCPath |-> IF p \in dirs THEN "dir"
                                      ELSE IF p \in files THEN "file" ELSE "none"]

MCTree == {Has({d}, {dx}), Has({e}, {ex}), Has({d, e}, {ex})}

(* One session looks and moves, the other changes.                            *)
MCAsked == "s" :> {<<"getattr", dx>>, <<"getattr", d>>, <<"readdir", d>>, <<"hit", dx>>}
           @@ "t" :> {}

MCEdited == {dx}

Ask(op, p, q) == [op |-> op, path |-> p, to |-> q]

MCWanted == "s" :> {Ask("change", dx, dx), Ask("rename", ex, dx), Ask("rename", e, d)}
            @@ "t" :> {Ask("change", dx, dx), Ask("mkdir", d, d), Ask("unlink", dx, dx),
                       Ask("rmdir", d, d)}

=============================================================================
