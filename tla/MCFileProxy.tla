---------------------------- MODULE MCFileProxy ----------------------------
EXTENDS FileProxy, TLC

home == <<"c">>
dir == <<"c", "d">>
beside == <<"c", "d-b">>
below == <<"c", "d-b", "x">>
inside == <<"c", "d", "x">>
project == <<"p">>
note == <<"p", "y">>

MCName == {"c", "d", "d-b", "p", "x", "y"}

MCPath == {home, dir, beside, below, inside, project, note}

(* "c" < "c/d" < "c/d-b" < "c/d-b/x" < "c/d/x" < "p" < "p/y"                  *)
MCRank == home :> 1 @@ dir :> 2 @@ beside :> 3 @@ below :> 4 @@ inside :> 5
          @@ project :> 6 @@ note :> 7

Has(dirs, files) == [q \in MCPath |-> IF q \in dirs THEN "dir"
                                      ELSE IF q \in files THEN "file" ELSE "none"]

MCTree == {Has({home, dir, project}, {inside, note}),
           Has({home, dir, project}, {}),
           Has({home, project}, {}),
           Has({home, dir, beside, project}, {below})}

MCHome == {home, dir, beside, below, inside}

MCKept == {inside, below}

MCLedgers == {[missing |-> {}, dirs |-> {dir, project}],
              [missing |-> {dir, inside}, dirs |-> {}],
              [missing |-> {inside}, dirs |-> {dir}]}

MCKnownMissing == {beside}

MCEdited == {inside}

Ask(op, q, to) == [op |-> op, path |-> q, to |-> to]

MCWanted == "t1" :> {Ask("change", beside, beside), Ask("change", inside, inside),
                     Ask("mkdir", dir, dir), Ask("unlink", inside, inside),
                     Ask("rename", inside, beside), Ask("rename", dir, beside)}
            @@ "t2" :> {Ask("getattr", inside, inside), Ask("readdir", home, home),
                        Ask("getattr", beside, beside), Ask("rmdir", dir, dir)}

=============================================================================
