---------------------------- MODULE LedgerFlush ----------------------------
(* How the sessions of a device learn and write its access ledger: what a     *)
(* session sees and does goes into its SessionAccessBuffer, and every five    *)
(* seconds and at its end FileProxyManager.flushAccessBufferIfNeeded loads    *)
(* the ledger, applies the buffer and writes the ledger back                  *)
(* (server/src/access-event-buffer.ts, file-proxy-manager.ts,                 *)
(* access-ledger.ts).  A start of the server ages what was written            *)
(* (server.ts).                                                               *)
(*                                                                            *)
(* A change is noted before it is sent to the client, what a request found is *)
(* noted when its answer arrives.  The client's files are the variable tree.  *)
EXTENDS AccessLedger, ClientFiles

CONSTANTS Session,
          Flusher,          \* calls of flushAccessBufferIfNeeded
          Owner,            \* the session a flusher belongs to
          Tree,             \* the trees a client may start with
          Asked,            \* what a session may look for: <<op, path>>
          Wanted,           \* the changes a session may ask for
          Edited,           \* the paths the user creates and removes by hand
          None,
          MaxSteps,         \* bound: requests of the sessions, and mishaps
          MaxFaults         \* bound: what goes wrong (mishap lists it) and time

ASSUME FlushBounds == /\ Tree \subseteq {t \in [Path -> Kind] : IsTree(t)}
                      /\ Owner \in [Flusher -> Session]
                      /\ Asked \in [Session -> SUBSET ({"getattr", "readdir", "hit"} \X Path)]
                      /\ Wanted \in [Session -> SUBSET Mutation]
                      /\ Edited \subseteq Path
                      /\ None \notin Event /\ None \notin Flusher
                      /\ MaxSteps \in Nat /\ MaxFaults \in Nat

VARIABLES tree,             \* what the client's disk holds
          saved,            \* ledger.json
          buffer,           \* the events of a session
          flight,           \* an answer on its way to a session
          doing,            \* a change sent to the client
          flusher,          \* what each flush is doing
          inFlight,         \* flushInFlight of a session
          closing,          \* the flush a session's shutdown waits for
          over,             \* sessions that have ended
          mishap,           \* history: what has happened that no code makes good
          steps, faults

flushVars == <<flusher, inFlight>>
sessionVars == <<buffer, flight, doing, closing, over>>
vars == <<tree, saved, flushVars, sessionVars, mishap, steps, faults>>

Idle == [pc |-> "idle", on |-> None, todo |-> <<>>, ledger |-> EmptyLedger,
         outdated |-> FALSE]

Mishap == {"overlap",       \* a path is looked for while it is being created, or is
                           \* created while another session has yet to flush its "missing"
           "moved tree",    \* a directory is renamed together with what it holds
         "moved missing", \* a rename takes along what is called missing below it
           "not done",      \* a noted rename fails at the client
           "stale",         \* a ledger is written over a newer one
           "lost",          \* noted events are dropped
           "user"}          \* the user creates a file on the client

TypeOK ==
    /\ tree \in [Path -> Kind]
    /\ saved \in Stored
    /\ buffer \in [Session -> Seq(Event)]
    /\ flight \in [Session -> Event \cup {None}]
    /\ doing \in [Session -> Mutation \cup {None}]
    /\ flusher \in [Flusher -> [pc: {"idle", "waits", "loads", "applies"},
                                on: Flusher \cup {None},
                                todo: Seq(Event), ledger: Ledger,
                                outdated: BOOLEAN]]
    /\ inFlight \in [Session -> Flusher \cup {None}]
    /\ closing \in [Session -> Flusher \cup {None}]
    /\ over \subseteq Session
    /\ mishap \subseteq Mishap
    /\ steps \in 0..MaxSteps /\ faults \in 0..MaxFaults

Init ==
    /\ tree \in Tree
    /\ saved = toJSON(EmptyLedger)
    /\ buffer = [s \in Session |-> <<>>]
    /\ flight = [s \in Session |-> None]
    /\ doing = [s \in Session |-> None]
    /\ flusher = [f \in Flusher |-> Idle]
    /\ inFlight = [s \in Session |-> None]
    /\ closing = [s \in Session |-> None]
    /\ over = {}
    /\ mishap = {}
    /\ steps = 0 /\ faults = 0

-----------------------------------------------------------------------------
(* The client's disk.                                                         *)

Exists(p) == tree[p] # "none"

Denied(es) == {e.path : e \in {d \in es : d.op = "missing"}}

InSeq(es) == {es[i] : i \in DOMAIN es}

Trouble == faults < MaxFaults /\ steps + faults < MaxSteps

Note(cond, name) == IF cond THEN {name} ELSE {}

(* renameSubtree moves whatever the ledger has below the path, also what was  *)
(* found missing there when the path was a directory.                         *)
TakesMissing(L, e) ==
    e.op = "rename" /\ \E p \in Run(L.all, e.path) : p # e.path /\ L.entries[p] = "missing"

-----------------------------------------------------------------------------
(* The requests of a session.                                                 *)

(* What deriveAccessEventFromResponse makes of the answer to a getattr or a   *)
(* readdir of the path, which the client has computed by now: nothing of an   *)
(* error that is not ENOENT.                                                  *)
Found(op, p) ==
    IF ~Exists(p)
    THEN IF \E q \in Parents(p) : tree[q] = "file" THEN None
         ELSE [op |-> "missing", path |-> Shallowest(tree, p), to |-> p]
    ELSE IF op = "getattr" THEN [op |-> tree[p], path |-> p, to |-> p]
    ELSE IF tree[p] = "dir" THEN [op |-> "listed", path |-> p, to |-> p]
    ELSE None

Look(s, op, p) ==
    /\ op # "hit"
    /\ s \notin over /\ flight[s] = None /\ steps + faults < MaxSteps
    /\ Found(op, p) # None
    /\ flight' = [flight EXCEPT ![s] = Found(op, p)]
    /\ mishap' = mishap \cup Note(Denied({Found(op, p)}) \cap
                     UNION {Creates(doing[o]) : o \in {x \in Session : doing[x] # None}} # {},
                     "overlap")
    /\ steps' = steps + 1
    /\ UNCHANGED <<tree, saved, flushVars, buffer, doing, closing, over, faults>>

(* resolveResponse *)
Answer(s) ==
    /\ s \notin over /\ flight[s] # None
    /\ buffer' = [buffer EXCEPT ![s] = Append(@, flight[s])]
    /\ flight' = [flight EXCEPT ![s] = None]
    /\ UNCHANGED <<tree, saved, flushVars, doing, closing, over, mishap, steps, faults>>

(* recordCacheHitAccess: a path was answered out of the server's cache.       *)
Hit(s, op, p) ==
    /\ op = "hit"
    /\ s \notin over /\ steps + faults < MaxSteps
    /\ buffer' = [buffer EXCEPT ![s] = Append(@, [op |-> "hit", path |-> p, to |-> p])]
    /\ steps' = steps + 1
    /\ UNCHANGED <<tree, saved, flushVars, flight, doing, closing, over, mishap, faults>>

(* recordMutationEvent, before the request goes to the client.                *)
Begin(s, m) ==
    /\ s \notin over /\ doing[s] = None /\ steps + faults < MaxSteps
    /\ buffer' = [buffer EXCEPT ![s] = Append(@, m)]
    /\ doing' = [doing EXCEPT ![s] = m]
    /\ mishap' = mishap \cup Note(Creates(m) \cap
                     (Denied({flight[o] : o \in {x \in Session : flight[x] # None}})
                      \cup UNION {Denied(InSeq(buffer[o])) : o \in Session \ {s}}) # {},
                     "overlap")
    /\ steps' = steps + 1
    /\ UNCHANGED <<tree, saved, flushVars, flight, closing, over, faults>>

Execute(s) ==
    /\ doing[s] # None
    /\ LET m == doing[s]
       IN  /\ tree' = IF Possible(tree, m) THEN Changed(tree, m) ELSE tree
           /\ mishap' = mishap
                  \cup Note(m.op = "rename" /\ Possible(tree, m) /\ tree[m.path] = "dir",
                            "moved tree")
                  \cup Note(m.op = "rename" /\ ~Possible(tree, m), "not done")
    /\ doing' = [doing EXCEPT ![s] = None]
    /\ UNCHANGED <<saved, flushVars, buffer, flight, closing, over, steps, faults>>

(* The request cannot be sent, or is given up on before the client has it.    *)
Cancel(s) ==
    /\ doing[s] # None /\ Trouble
    /\ doing' = [doing EXCEPT ![s] = None]
    /\ mishap' = mishap \cup Note(doing[s].op = "rename", "not done")
    /\ faults' = faults + 1
    /\ UNCHANGED <<tree, saved, flushVars, buffer, flight, closing, over, steps>>

(* The user creates or removes a file by hand.                                *)
UserCreates(p) ==
    /\ Trouble /\ ~Exists(p) /\ \A q \in Parents(p) : tree[q] = "dir"
    /\ tree' = With(tree, {p}, "file")
    /\ mishap' = mishap \cup {"user"}
    /\ faults' = faults + 1
    /\ UNCHANGED <<saved, flushVars, sessionVars, steps>>

UserRemoves(p) ==
    /\ Trouble /\ tree[p] = "file"
    /\ tree' = With(tree, {p}, "none")
    /\ faults' = faults + 1
    /\ UNCHANGED <<saved, flushVars, sessionVars, mishap, steps>>

-----------------------------------------------------------------------------
(* flushAccessBufferIfNeeded *)

Entered(f) == [flusher EXCEPT ![f] =
                  IF inFlight[Owner[f]] # None
                  THEN [Idle EXCEPT !.pc = "waits", !.on = inFlight[Owner[f]]]
                  ELSE [Idle EXCEPT !.pc = "loads"]]

Claimed(f) == IF inFlight[Owner[f]] = None THEN [inFlight EXCEPT ![Owner[f]] = f]
              ELSE inFlight

Needed(f) == buffer[Owner[f]] # <<>>

(* The timer's tick.                                                          *)
FlushCall(f) ==
    /\ flusher[f].pc = "idle" /\ closing[Owner[f]] = None /\ Owner[f] \notin over
    /\ Needed(f)
    /\ flusher' = Entered(f) /\ inFlight' = Claimed(f)
    /\ UNCHANGED <<tree, saved, sessionVars, mishap, steps, faults>>

(* shutdown stops the timer and flushes; the requests go on meanwhile.        *)
Shutdown(f) ==
    LET s == Owner[f]
    IN  /\ flusher[f].pc = "idle" /\ closing[s] = None /\ s \notin over
        /\ Trouble
        /\ closing' = [closing EXCEPT ![s] = f]
        /\ flusher' = IF Needed(f) THEN Entered(f) ELSE flusher
        /\ inFlight' = IF Needed(f) THEN Claimed(f) ELSE inFlight
        /\ faults' = faults + 1
        /\ UNCHANGED <<tree, saved, buffer, flight, doing, over, mishap, steps>>

(* The ledger is read, or counts as empty; then the buffer is drained.        *)
Load(f, readable) ==
    LET s == Owner[f]
        d == IF readable THEN saved ELSE toJSON(EmptyLedger)
    IN  /\ flusher[f].pc = "loads"
        /\ readable \/ Trouble
        /\ flusher' = [flusher EXCEPT ![f] =
                          [pc |-> "applies", on |-> None, todo |-> buffer[s],
                           ledger |-> Loaded(d), outdated |-> ~readable]]
        /\ buffer' = [buffer EXCEPT ![s] = <<>>]
        /\ faults' = IF readable THEN faults ELSE faults + 1
        /\ UNCHANGED <<tree, saved, inFlight, flight, doing, closing, over, mishap, steps>>

(* SessionAccessBuffer.flush, an event at a time; nobody sees it half done.   *)
ApplyOne(f) ==
    /\ flusher[f].pc = "applies" /\ flusher[f].todo # <<>>
    /\ LET r == flusher[f]
       IN  /\ flusher' = [flusher EXCEPT ![f] =
                             [r EXCEPT !.ledger = Applied(r.ledger, Head(r.todo)),
                                       !.todo = Tail(r.todo)]]
           /\ mishap' = mishap \cup Note(TakesMissing(r.ledger, Head(r.todo)), "moved missing")
    /\ UNCHANGED <<tree, saved, sessionVars, inFlight, steps, faults>>

(* (slip) Nobody wakes those that wait.                                       *)
FinishAlone(f, written) ==
    /\ flusher' = [g \in Flusher |->
                       IF g = f THEN Idle
                       ELSE IF written /\ flusher[g].pc = "applies"
                       THEN [flusher[g] EXCEPT !.outdated = TRUE]
                       ELSE flusher[g]]
    /\ inFlight' = [inFlight EXCEPT ![Owner[f]] = IF @ = f THEN None ELSE @]

(* The flush is over: the session's field is cleared if it still names this   *)
(* one, and all that waited for it go on at once; the last of them claims it. *)
(* What others have loaded is outdated if this one has written.               *)
Finish(f, written) ==
    LET s == Owner[f]
        waiting == {g \in Flusher : flusher[g].pc = "waits" /\ flusher[g].on = f}
    IN  /\ flusher' = [g \in Flusher |-> IF g = f THEN Idle
                                         ELSE IF g \in waiting THEN [Idle EXCEPT !.pc = "loads"]
                                         ELSE IF written /\ flusher[g].pc = "applies"
                                         THEN [flusher[g] EXCEPT !.outdated = TRUE]
                                         ELSE flusher[g]]
        /\ IF waiting # {}
           THEN \E last \in waiting : inFlight' = [inFlight EXCEPT ![s] = last]
           ELSE inFlight' = [inFlight EXCEPT ![s] = IF @ = f THEN None ELSE @]

(* persist *)
Write(f) ==
    /\ flusher[f].pc = "applies" /\ flusher[f].todo = <<>>
    /\ saved' = toJSON(flusher[f].ledger)
    /\ mishap' = mishap \cup Note(flusher[f].outdated, "stale")
    /\ Finish(f, TRUE)
    /\ UNCHANGED <<tree, sessionVars, steps, faults>>

WriteFails(f) ==
    /\ flusher[f].pc = "applies" /\ flusher[f].todo = <<>> /\ Trouble
    /\ mishap' = mishap \cup {"lost"}
    /\ faults' = faults + 1
    /\ Finish(f, FALSE)
    /\ UNCHANGED <<tree, saved, sessionVars, steps>>

(* The rest of shutdown: no answer is taken any more, and what was noted      *)
(* after the last flush is gone.                                              *)
EndSession(s) ==
    /\ closing[s] # None /\ flusher[closing[s]].pc = "idle"
    /\ over' = over \cup {s}
    /\ closing' = [closing EXCEPT ![s] = None]
    /\ mishap' = mishap \cup Note(buffer[s] # <<>>, "lost")
    /\ buffer' = [buffer EXCEPT ![s] = <<>>]
    /\ flight' = [flight EXCEPT ![s] = None]
    /\ UNCHANGED <<tree, saved, flushVars, doing, steps, faults>>

-----------------------------------------------------------------------------
(* Time and restarts.                                                         *)

(* What has not been looked at for CERELAY_LEDGER_AGING_DAYS is old.          *)
TimePasses ==
    /\ Trouble
    /\ \A f \in Flusher : flusher[f].pc = "idle"
    /\ saved' = [saved EXCEPT !.old = {p \in Path : saved.entries[p] # "none"}]
    /\ faults' = faults + 1
    /\ UNCHANGED <<tree, flushVars, sessionVars, mishap, steps>>

(* runLedgerAging: the ledger is written only if something was dropped.       *)
Purged(d) == IF Aged(Loaded(d)).missing = Loaded(d).missing THEN d
             ELSE toJSON(Aged(Loaded(d)))

(* The server dies and starts again, with new sessions; a change the client   *)
(* has been sent goes on there.                                               *)
Restart ==
    /\ Trouble
    /\ saved' = Purged(saved)
    /\ mishap' = mishap \cup
           Note(\/ \E s \in Session : buffer[s] # <<>>
                \/ \E f \in Flusher : flusher[f].pc = "applies", "lost")
    /\ buffer' = [s \in Session |-> <<>>]
    /\ flight' = [s \in Session |-> None]
    /\ closing' = [s \in Session |-> None]
    /\ over' = {}
    /\ flusher' = [f \in Flusher |-> Idle]
    /\ inFlight' = [s \in Session |-> None]
    /\ faults' = faults + 1
    /\ UNCHANGED <<tree, doing, steps>>

Next ==
    \/ \E s \in Session :
          \/ \E a \in Asked[s] : Look(s, a[1], a[2]) \/ Hit(s, a[1], a[2])
          \/ \E m \in Wanted[s] : Begin(s, m)
          \/ Answer(s) \/ Execute(s) \/ Cancel(s) \/ EndSession(s)
    \/ \E p \in Edited : UserCreates(p) \/ UserRemoves(p)
    \/ \E f \in Flusher :
          \/ FlushCall(f) \/ Shutdown(f) \/ Load(f, TRUE) \/ Load(f, FALSE)
          \/ ApplyOne(f) \/ Write(f) \/ WriteFails(f)
    \/ TimePasses
    \/ Restart

Spec == Init /\ [][Next]_vars

-----------------------------------------------------------------------------
(* The indices of a ledger that is being worked on, kept by hand by every     *)
(* change, hold what its entries say: allPathsSorted exactly, missingSorted   *)
(* and dirsReaddirObserved at least.                                          *)
LedgersIndexed == \A f \in Flusher : Indexed(flusher[f].ledger)

AtRest == /\ \A s \in Session : buffer[s] = <<>> /\ flight[s] = None /\ doing[s] = None
          /\ \A f \in Flusher : flusher[f].pc = "idle"

(* Once all is written, a path that the ledger calls missing is missing on    *)
(* the client's disk, whatever the sessions have looked for, created, renamed *)
(* and removed: a path that is not is hidden from the next session and passed *)
(* over by the client's walk.  The mishaps are those no code makes good.      *)
NothingHidden ==
    AtRest /\ mishap = {} => \A p \in Path : saved.entries[p] = "missing" => ~Exists(p)

(* The first walk of a client finds every file that the ledger knows and that *)
(* is still there, but for those two levels and more below a directory that   *)
(* was seen and never listed.                                                 *)
PlanReaches ==
    LET L == Loaded(saved)
    IN  \A p \in Path :
            /\ L.entries[p] = "file" /\ tree[p] = "file"
            /\ ~\E d \in Planned(L) : /\ L.entries[d] = "dir"
                                      /\ d \in Above(p) /\ Len(p) > Len(d) + 1
            => p \in Walked(SyncPlan(L), tree)

(* A flush that waits does so for one that is loading or writing, so it goes  *)
(* on when that one ends: however many ticks and shutdowns pile up behind a   *)
(* slow disk, none is forgotten and no two wait for each other.               *)
Running == {"loads", "applies"}

WaitersAreWoken ==
    \A f \in Flusher : flusher[f].pc = "waits" =>
        /\ flusher[f].on \in Flusher
        /\ flusher[flusher[f].on].pc \in Running

=============================================================================
