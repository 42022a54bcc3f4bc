------------------------------ MODULE Sessions ------------------------------
(* The life of PTY sessions on the server, in the deployment mode with mount   *)
(* namespaces: handleCreatePtySession and destroyPtySession (server.ts), the   *)
(* start and shutdown of the session's FUSE daemon (file-proxy-manager.ts),    *)
(* its namespace (claude-session-runtime.ts) and its process, helper directory *)
(* and MCP host (pty-session.ts, mcp-ipc-host.ts).                             *)
(*                                                                            *)
(* A creation is a chain of awaits that takes what a session needs step by     *)
(* step.  Three other chains give it back: close (ClaudePtySession), shutdown  *)
(* (FileProxyManager) and the creation's own error path.  destroyPtySession    *)
(* starts the first two together and waits for neither; a client that leaves, *)
(* a process that ends and a close_session message may each call it, at any    *)
(* await of a creation.  One action is what runs between two awaits.           *)
EXTENDS Naturals, FiniteSets

CONSTANTS Client,
          Session,
          Owner,            \* the client that asks for a session
          MaxTries,         \* FUSE_MAX_RETRIES
          MaxFaults         \* bound: failures of processes and mounts

ASSUME SessionConstants == /\ Owner \in [Session -> Client]
                           /\ MaxTries \in Nat \ {0}
                           /\ MaxFaults \in Nat

VARIABLES conn,             \* a client's connection, and its close handler
          step,             \* what a creation is waiting for
          tries,            \* how often its daemon has failed to start
          entry,            \* ptySessions
          bound,            \* sessionIds of the clients in the registry
          routed,           \* fileProxies: where FUSE answers are delivered
          held,             \* what a session has taken and not given back
          closing,          \* what ClaudePtySession.close is waiting for
          halting,          \* what calls of FileProxyManager.shutdown wait for
          exit,             \* sendExit: is a pty_exit being sent?
          faults

vars == <<conn, step, tries, entry, bound, routed, held, closing, halting,
          exit, faults>>

(* "dir": the runtime directory; "timer": the ledger's flush timer; "daemon",  *)
(* "mount": the FUSE process and its mount point inside the directory;         *)
(* "anchor": the process that holds the mount namespace; "helper": the PTY     *)
(* helper's directory; "host": the MCP host's socket; "child": the process.    *)
Resource == {"dir", "timer", "daemon", "mount", "anchor", "helper", "host", "child"}

CreationStep == {"idle", "prepare", "snapshot", "spawn", "daemon", "preheat",
                 "namespace", "verify", "undo", "helper", "script", "host",
                 "greet", "done", "failed"}

TypeOK ==
    /\ conn \in [Client -> {"up", "shut", "gone"}]
    /\ step \in [Session -> CreationStep]
    /\ tries \in [Session -> 0..MaxTries]
    /\ entry \subseteq Session
    /\ bound \subseteq Session
    /\ routed \subseteq Session
    /\ held \in [Session -> SUBSET Resource]
    /\ closing \in [Session -> {"no", "host", "helper", "runtime", "closed"}]
    /\ halting \in [Session -> SUBSET {"flush", "exit", "unmount"}]
    /\ exit \in [Session -> BOOLEAN]
    /\ faults \in 0..MaxFaults

Init ==
    /\ conn = [c \in Client |-> "up"]
    /\ step = [s \in Session |-> "idle"]
    /\ tries = [s \in Session |-> 0]
    /\ entry = {}
    /\ bound = {}
    /\ routed = {}
    /\ held = [s \in Session |-> {}]
    /\ closing = [s \in Session |-> "no"]
    /\ halting = [s \in Session |-> {}]
    /\ exit = [s \in Session |-> FALSE]
    /\ faults = 0

Go(s, from, to) == step[s] = from /\ step' = [step EXCEPT ![s] = to]

Take(s, R) == held' = [held EXCEPT ![s] = @ \cup R]

Drop(s, R) == held' = [held EXCEPT ![s] = @ \ R]

Fault == faults < MaxFaults /\ faults' = faults + 1

closeVars == <<closing, halting, exit>>

tables == <<conn, entry, bound>>

(***************************************************************************)
(* Creation, up to the session's process                                   *)
(***************************************************************************)
Create(s) ==
    /\ conn[Owner[s]] = "up"
    /\ Go(s, "idle", "prepare")
    /\ UNCHANGED <<tables, routed, tries, held, closeVars, faults>>

(* The hook's files are there; the file proxy is registered before start(),   *)
(* which sends requests to the client.                                        *)
Prepare(s) ==
    /\ Go(s, "prepare", "snapshot")
    /\ Take(s, {"dir"})
    /\ routed' = routed \cup {s}
    /\ UNCHANGED <<tables, tries, closeVars, faults>>

(* Every failure to collect the snapshot, a lost client included, is only     *)
(* logged.                                                                    *)
Snapshot(s) ==
    /\ Go(s, "snapshot", "spawn")
    /\ UNCHANGED <<tables, routed, tries, held, closeVars, faults>>

SpawnDaemon(s) ==
    /\ Go(s, "spawn", "daemon")
    /\ Take(s, {"daemon", "timer"})
    /\ UNCHANGED <<tables, routed, tries, closeVars, faults>>

DaemonReady(s) ==
    /\ Go(s, "daemon", "preheat")
    /\ Take(s, {"mount"})
    /\ UNCHANGED <<tables, routed, tries, closeVars, faults>>

(* The daemon exits early or is not ready in time: it is killed, and started  *)
(* again.  Nothing catches what start() throws after the last try.            *)
DaemonFails(s) ==
    /\ Fault
    /\ Go(s, "daemon", IF tries[s] + 1 = MaxTries THEN "failed" ELSE "spawn")
    /\ tries' = [tries EXCEPT ![s] = @ + 1]
    /\ Drop(s, {"daemon", "mount"})
    /\ UNCHANGED <<tables, routed, closeVars>>

(* A preheat that fails or takes too long is only logged; the anchor process  *)
(* is spawned.                                                                *)
Preheat(s) ==
    /\ Go(s, "preheat", "namespace")
    /\ Take(s, {"anchor"})
    /\ UNCHANGED <<tables, routed, tries, closeVars, faults>>

AnchorReady(s) ==
    /\ Go(s, "namespace", "verify")
    /\ UNCHANGED <<tables, routed, tries, held, closeVars, faults>>

(* What FileProxyManager.shutdown does before its first await.                *)
BeginShutdown(s) == halting' = [halting EXCEPT ![s] = @ \cup {"flush"}]

(* The bootstrap script fails or is late: the anchor is killed, the directory *)
(* cannot be removed while the mount is in it, and the error path begins.     *)
AnchorFails(s) ==
    /\ Fault
    /\ Go(s, "namespace", "undo")
    /\ routed' = routed \ {s}
    /\ Drop(s, {"anchor", "timer"})
    /\ BeginShutdown(s)
    /\ UNCHANGED <<tables, tries, closing, exit>>

(* The probe in the namespace does not see the hook: the same error path, on  *)
(* which nothing calls runtime.cleanup.                                       *)
VerifyFails(s) ==
    /\ Fault
    /\ Go(s, "verify", "undo")
    /\ routed' = routed \ {s}
    /\ Drop(s, {"timer"})
    /\ BeginShutdown(s)
    /\ UNCHANGED <<tables, tries, closing, exit>>

(* A recursive removal stops at a mount point (EBUSY).                        *)
Removable(s) == IF "mount" \in held[s] THEN {} ELSE {"dir"}

Undone(s) ==
    /\ halting[s] = {}
    /\ Go(s, "undo", "failed")
    /\ Drop(s, Removable(s))
    /\ UNCHANGED <<tables, routed, tries, closeVars, faults>>

(* The entry is made.  bindSession does nothing for a client that is no       *)
(* longer registered.                                                         *)
Verified(s) ==
    /\ Go(s, "verify", "helper")
    /\ entry' = entry \cup {s}
    /\ bound' = IF conn[Owner[s]] = "gone" THEN bound ELSE bound \cup {s}
    /\ UNCHANGED <<conn, routed, tries, held, closeVars, faults>>

MakeHelper(s) ==
    /\ Go(s, "helper", "script")
    /\ Take(s, {"helper"})
    /\ UNCHANGED <<tables, routed, tries, closeVars, faults>>

(* The script is written into the directory, unless close has removed it.     *)
WriteScript(s) ==
    /\ Go(s, "script", IF "helper" \in held[s] THEN "host" ELSE "failed")
    /\ UNCHANGED <<tables, routed, tries, held, closeVars, faults>>

(* The host listens and the process is spawned: start() does not look whether *)
(* the session has been closed meanwhile.                                     *)
HostListens(s) ==
    /\ Go(s, "host", "greet")
    /\ Take(s, {"host", "child"})
    /\ UNCHANGED <<tables, routed, tries, closeVars, faults>>

(* Without a host the process is spawned all the same.                        *)
HostFails(s) ==
    /\ Fault
    /\ Go(s, "host", "greet")
    /\ Take(s, {"child"})
    /\ UNCHANGED <<tables, routed, tries, closeVars>>

(* pty_session_created; the error of a failed send goes nowhere.              *)
Greet(s) ==
    /\ Go(s, "greet", IF conn[Owner[s]] = "up" THEN "done" ELSE "failed")
    /\ UNCHANGED <<tables, routed, tries, held, closeVars, faults>>

(***************************************************************************)
(* close and shutdown                                                      *)
(***************************************************************************)
(* (slip) the helper's directory first.                                       *)
FirstReleaseHelper(s) == IF "helper" \in held[s] THEN "helper" ELSE "runtime"

(* What close does before its first await: the pending calls are rejected,    *)
(* the process is told to end, and the first thing there is to release is     *)
(* released.                                                                  *)
FirstRelease(s) == CASE "host" \in held[s] -> "host"
                     [] "host" \notin held[s] /\ "helper" \in held[s] -> "helper"
                     [] OTHER -> "runtime"

Closed(D) == [s \in Session |-> IF s \in D /\ closing[s] = "no"
                                THEN FirstRelease(s)
                                ELSE closing[s]]

(* destroyPtySession for the sessions of D, each with its file proxy.         *)
Destroy(D) ==
    /\ closing' = Closed(D)
    /\ routed' = routed \ D
    /\ halting' = [s \in Session |-> IF s \in D THEN halting[s] \cup {"flush"}
                                                ELSE halting[s]]
    /\ held' = [s \in Session |-> IF s \in D THEN held[s] \ {"timer"}
                                             ELSE held[s]]
    /\ entry' = entry \ D
    /\ bound' = bound \ D

CloseHost(s) ==
    /\ closing[s] = "host"
    /\ closing' = [closing EXCEPT ![s] = IF "helper" \in held[s] THEN "helper"
                                                                 ELSE "runtime"]
    /\ Drop(s, {"host"})
    /\ UNCHANGED <<tables, step, routed, tries, halting, exit, faults>>

CloseHelper(s) ==
    /\ closing[s] = "helper"
    /\ closing' = [closing EXCEPT ![s] = "runtime"]
    /\ Drop(s, {"helper"})
    /\ UNCHANGED <<tables, step, routed, tries, halting, exit, faults>>

(* The anchor is killed; a removal that fails is not tried again.             *)
CleanRuntime(s) ==
    /\ closing[s] = "runtime"
    /\ closing' = [closing EXCEPT ![s] = "closed"]
    /\ Drop(s, {"anchor"} \cup Removable(s))
    /\ UNCHANGED <<tables, step, routed, tries, halting, exit, faults>>

CloseStep(s) == CloseHost(s) \/ CloseHelper(s) \/ CleanRuntime(s)

(* (slip) a daemon that has died is taken for one that never started.         *)
HaltFlushedTrusting(s) ==
    /\ "flush" \in halting[s]
    /\ halting' = [halting EXCEPT ![s] =
                     (@ \ {"flush"})
                       \cup (IF "daemon" \in held[s] THEN {"exit"} ELSE {})]
    /\ UNCHANGED <<tables, step, routed, tries, held, closing, exit, faults>>

(* The accesses are flushed; the daemon is told to end, if it still runs.     *)
HaltFlushed(s) ==
    /\ "flush" \in halting[s]
    /\ halting' = [halting EXCEPT ![s] =
                     (@ \ {"flush"})
                       \cup {IF "daemon" \in held[s] THEN "exit" ELSE "unmount"}]
    /\ UNCHANGED <<tables, step, routed, tries, held, closing, exit, faults>>

(* The daemon exits, or is killed after five seconds.                         *)
HaltExited(s) ==
    /\ "exit" \in halting[s]
    /\ halting' = [halting EXCEPT ![s] = (@ \ {"exit"}) \cup {"unmount"}]
    /\ Drop(s, {"daemon"})
    /\ UNCHANGED <<tables, step, routed, tries, closing, exit, faults>>

HaltUnmounted(s) ==
    /\ "unmount" \in halting[s]
    /\ halting' = [halting EXCEPT ![s] = @ \ {"unmount"}]
    /\ Drop(s, {"mount"})
    /\ UNCHANGED <<tables, step, routed, tries, closing, exit, faults>>

HaltStep(s) == HaltFlushed(s) \/ HaltExited(s) \/ HaltUnmounted(s)

(***************************************************************************)
(* What makes a session end                                                *)
(***************************************************************************)
CloseSession(s) ==
    /\ step[s] = "done"
    /\ s \in entry
    /\ conn[Owner[s]] = "up"
    /\ Destroy({s})
    /\ UNCHANGED <<conn, step, tries, exit, faults>>

(* The process is gone and its output read: the handler starts sendExit and   *)
(* close.  Without an open connection sendExit throws, and that is all.       *)
ChildExits(s) ==
    /\ "child" \in held[s]
    /\ Drop(s, {"child"})
    /\ exit' = [exit EXCEPT ![s] = s \in entry /\ conn[Owner[s]] = "up"]
    /\ closing' = Closed({s})
    /\ UNCHANGED <<tables, step, routed, tries, halting, faults>>

(* pty_exit is out: the entry read before the send is destroyed, even if      *)
(* somebody has destroyed it meanwhile.                                       *)
ExitSent(s) ==
    /\ exit[s]
    /\ exit' = [exit EXCEPT ![s] = FALSE]
    /\ Destroy({s})
    /\ UNCHANGED <<conn, step, tries, faults>>

ExitLost(s) ==
    /\ exit[s]
    /\ conn[Owner[s]] # "up"
    /\ exit' = [exit EXCEPT ![s] = FALSE]
    /\ UNCHANGED <<tables, step, routed, tries, held, closing, halting, faults>>

(* The daemon crashes, and leaves its mount point behind.                     *)
DaemonDies(s) ==
    /\ Fault
    /\ {"daemon", "mount"} \subseteq held[s]
    /\ Drop(s, {"daemon"})
    /\ UNCHANGED <<tables, step, routed, tries, closeVars>>

Disconnect(c) ==
    /\ conn[c] = "up"
    /\ conn' = [conn EXCEPT ![c] = "shut"]
    /\ UNCHANGED <<entry, bound, step, routed, tries, held, closeVars, faults>>

(* (slip) only sessions with a process are destroyed.                         *)
DisconnectHandledRunning(c) ==
    /\ conn[c] = "shut"
    /\ conn' = [conn EXCEPT ![c] = "gone"]
    /\ Destroy({s \in entry \cap bound : Owner[s] = c /\ "child" \in held[s]})
    /\ UNCHANGED <<step, tries, exit, faults>>

(* The cache task manager is done with the client: the client leaves the      *)
(* registry and the sessions bound to it are destroyed.                       *)
DisconnectHandled(c) ==
    /\ conn[c] = "shut"
    /\ conn' = [conn EXCEPT ![c] = "gone"]
    /\ Destroy({s \in entry \cap bound : Owner[s] = c})
    /\ UNCHANGED <<step, tries, exit, faults>>

CreateStep(s) ==
    \/ Prepare(s) \/ Snapshot(s) \/ SpawnDaemon(s)
    \/ DaemonReady(s) \/ DaemonFails(s)
    \/ Preheat(s)
    \/ AnchorReady(s) \/ AnchorFails(s)
    \/ VerifyFails(s) \/ Undone(s) \/ Verified(s)
    \/ MakeHelper(s) \/ WriteScript(s)
    \/ HostListens(s) \/ HostFails(s)
    \/ Greet(s)

Next ==
    \/ \E s \in Session :
          \/ Create(s) \/ CreateStep(s)
          \/ CloseStep(s) \/ HaltStep(s)
          \/ CloseSession(s)
          \/ ChildExits(s) \/ ExitSent(s) \/ ExitLost(s)
          \/ DaemonDies(s)
    \/ \E c \in Client : Disconnect(c) \/ DisconnectHandled(c)

Spec == Init /\ [][Next]_vars

(* Timers end what waits for a process; a send ends one way or the other; a   *)
(* process that has been told to end ends.                                    *)
Work(s) == \/ CreateStep(s) \/ CloseStep(s) \/ HaltStep(s)
           \/ ExitSent(s) \/ ExitLost(s)
           \/ closing[s] # "no" /\ ChildExits(s)

(* A session's chains of awaits are finite: it is enough that, as long as     *)
(* there is work, some of it is done.                                         *)
Fairness == /\ \A s \in Session : WF_vars(Work(s))
            /\ \A c \in Client : WF_vars(DisconnectHandled(c))

FairSpec == Spec /\ Fairness

(***************************************************************************)
(* Properties                                                              *)
(***************************************************************************)
(* Answers of the client find the file proxy as long as its daemon may ask:   *)
(* it is registered before start(), which already sends requests, and taken   *)
(* out only when its shutdown begins.                                         *)
RoutedWhileServing ==
    \A s \in Session : "daemon" \in held[s] /\ halting[s] = {} => s \in routed

(* A session in the table that has not been closed has its directory, its     *)
(* namespace and its mount: no error path and no second destroyPtySession     *)
(* takes them from a session that is in use.                                  *)
LiveIsServed ==
    \A s \in entry : closing[s] = "no" => {"dir", "mount", "anchor"} \subseteq held[s]

(* close shuts the MCP host down before it removes the helper's directory and *)
(* the namespace.  That start() may set a host after close has looked for one *)
(* does no harm to a session whose creation succeeds: only a client that left *)
(* closes a session that early, and then the greeting fails.                  *)
HostClosedFirst ==
    \A s \in Session :
        step[s] = "done" /\ closing[s] \in {"helper", "runtime", "closed"}
            => "host" \notin held[s]

(* A session that was created and has left the table gives back everything    *)
(* but its directory, whoever destroyed it and however often.                 *)
Released ==
    \A s \in Session :
        (step[s] = "done" /\ s \notin entry) ~> (held[s] \subseteq {"dir"})

(* A session whose process has ended leaves the table: by sendExit, or, when  *)
(* pty_exit cannot be sent, by the handler of the closed connection.          *)
ExitedLeaves ==
    \A s \in Session :
        (step[s] = "done" /\ s \in bound /\ "child" \notin held[s]) ~> (s \notin entry)

(* Once a client has left the registry, the processes of its sessions have    *)
(* been told to end.                                                          *)
NoOrphan ==
    \A s \in Session :
        "child" \in held[s] /\ conn[Owner[s]] = "gone" => closing[s] # "no"
=============================================================================
