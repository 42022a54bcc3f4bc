--------------------------- MODULE ClientProcess ---------------------------
(* The client's process, from the open socket to its exit: what the main      *)
(* program awaits (client/src/index.ts, client/src/client.ts), the terminal   *)
(* it borrows, and the life of the cache task's assignment and of its watcher *)
(* (cache-task-state-machine.ts, cache-watcher.ts) beside it.                 *)
(*                                                                            *)
(* One event loop: the messages of one chunk are handled one after another,   *)
(* then whatever they resolved goes on, and only then comes another event.    *)
EXTENDS Integers, SequencesExt

CONSTANTS MaxOut,         \* bound: chunks of session output
          MaxRoles        \* bound: cache_task_assignment messages

ASSUME ProcessBounds == MaxOut \in Nat /\ MaxRoles \in Nat

VARIABLES oneShot,        \* --prompt was given
          cacheOn,        \* the cache task is not disabled
          main,           \* what the main program awaits
          outcome,        \* how its session ended for it
          socket,         \* readyState; "closed" once the event was emitted
          wire,           \* from the server, in order
          pending,        \* pendingMessages
          shown,          \* what was written to the terminal
          tty,            \* stdin: raw mode, and resumed
          session,        \* the server's side of the session
          roles,          \* the assignments the server has sent
          machine,        \* CacheTaskStateMachine
          handler,        \* the call of handleActiveAssignment, and its generation
          watcher,        \* CacheWatcher and its chokidar handle
          closer,         \* the calls of onDisconnected, and of close around it
          interrupting, closing, cut, process,
          mishap          \* history: what has happened that no code makes good

program == <<oneShot, cacheOn, main, outcome>>
line == <<socket, wire, cut>>
screen == <<pending, shown, tty>>
server == <<session, roles>>
task == <<machine, handler, watcher>>
ending == <<closer, interrupting, closing, process>>
vars == <<program, line, screen, server, task, ending, mishap>>

Message == [kind: {"connected", "created", "exit", "error", "active", "inactive"}, no: {0}]
           \cup [kind: {"out"}, no: 1..MaxOut]

Say(kind) == [kind |-> kind, no |-> 0]

Cache == {"active", "inactive"}
Over == {"exit", "error"}

Closer == {"main", "signal", "event"}

Mishap == {"overtaken", "hasty stop"}

TypeOK ==
    /\ oneShot \in BOOLEAN /\ cacheOn \in BOOLEAN
    /\ main \in {"opening", "greeting", "preparing", "creating", "awaiting", "created",
                 "passing", "leaving", "closing", "over"}
    /\ outcome \in {"none", "exit", "error"}
    /\ socket \in {"open", "closing", "closed"}
    /\ wire \in Seq(Message) /\ pending \in Seq(Message)
    /\ shown \in Seq(1..MaxOut)
    /\ tty \in [raw: BOOLEAN, flowing: BOOLEAN]
    /\ session \in [asked: BOOLEAN, life: {"none", "runs", "ended"}, told: BOOLEAN,
                    outs: 0..MaxOut]
    /\ roles \in Seq(Cache) /\ Len(roles) <= MaxRoles
    /\ machine \in [there: BOOLEAN, assigned: BOOLEAN, beats: BOOLEAN, told: Cache \cup {"none"},
                    state: {"disconnected", "connected-passive",
                            "assigned-syncing", "assigned-watching"}]
    /\ handler \in [at: {"none", "called", "starting", "syncing", "reporting", "failing", "done"},
                    stale: BOOLEAN]
    /\ watcher \in [held: BOOLEAN, is: {"none", "starting", "doomed", "running", "leaked",
                                        "stopping", "stopped"}]
    /\ closer \in [Closer -> [at: {"none", "machine", "socket", "done"}, waits: BOOLEAN]]
    /\ {interrupting, closing, cut} \subseteq BOOLEAN
    /\ process \in {"runs", "ended", "crashed"}
    /\ mishap \subseteq Mishap

Init ==
    /\ oneShot \in BOOLEAN /\ cacheOn \in BOOLEAN
    /\ main = "opening" /\ outcome = "none"
    /\ socket = "open" /\ wire = <<Say("connected")>> /\ cut = FALSE
    /\ pending = <<>> /\ shown = <<>> /\ tty = [raw |-> FALSE, flowing |-> FALSE]
    /\ session = [asked |-> FALSE, life |-> "none", told |-> FALSE, outs |-> 0]
    /\ roles = <<>>
    /\ machine = [there |-> FALSE, assigned |-> FALSE, beats |-> FALSE, told |-> "none",
                  state |-> "disconnected"]
    /\ handler = [at |-> "none", stale |-> FALSE]
    /\ watcher = [held |-> FALSE, is |-> "none"]
    /\ closer = [c \in Closer |-> [at |-> "none", waits |-> FALSE]]
    /\ interrupting = FALSE /\ closing = FALSE /\ process = "runs"
    /\ mishap = {}

(* A caller of onDisconnected that stopped no watcher goes on at once.        *)
GoesOn(who) == closer[who].at = "machine" /\ ~closer[who].waits

(* Microtasks: what the events before have resolved goes on first.            *)
Resolved == \/ main \in {"created", "leaving"} \/ handler.at = "called"
            \/ \E who \in Closer : GoesOn(who)

Event == process = "runs" /\ ~Resolved

Micro == process = "runs" /\ Resolved

-----------------------------------------------------------------------------
(* The server (external here: Sessions and CacheTaskManager model it)         *)

Send(m) == wire' = Append(wire, m) /\ UNCHANGED <<socket, cut>>

CanSend == Event /\ socket = "open" /\ ~cut

(* handleCreatePtySession: the session may produce output, or end, before     *)
(* its id is sent.                                                            *)
ServerStarts ==
    /\ CanSend /\ session.asked /\ session.life = "none" /\ ~session.told
    /\ session' = [session EXCEPT !.life = "runs"]
    /\ UNCHANGED <<program, line, screen, roles, task, ending, mishap>>

ServerTells ==
    /\ CanSend /\ session.life # "none" /\ ~session.told
    /\ session' = [session EXCEPT !.told = TRUE]
    /\ Send(Say("created"))
    /\ UNCHANGED <<program, screen, roles, task, ending, mishap>>

ServerPrints ==
    /\ CanSend /\ session.life = "runs" /\ session.outs < MaxOut
    /\ session' = [session EXCEPT !.outs = @ + 1]
    /\ Send([kind |-> "out", no |-> session.outs + 1])
    /\ UNCHANGED <<program, screen, roles, task, ending, mishap>>

SessionEnds ==
    /\ CanSend /\ session.life = "runs"
    /\ session' = [session EXCEPT !.life = "ended"]
    /\ Send(Say("exit"))
    /\ UNCHANGED <<program, screen, roles, task, ending, mishap>>

(* An error in place of the session, or about a message of the client's. The   *)
(* server's session may run on behind the second, but the client's wait for it *)
(* ends: here the session counts as ended. An error in front of the request    *)
(* for a session is left out.                                                  *)
ServerFails ==
    /\ CanSend /\ session.asked /\ session.life # "ended"
    /\ session' = [session EXCEPT !.life = "ended", !.told = TRUE]
    /\ Send(Say("error"))
    /\ UNCHANGED <<program, screen, roles, task, ending, mishap>>

(* A connection is made the executor at most once; "standby" may be sent      *)
(* before that, and may arrive late, and so does the revocation.              *)
ServerAssigns ==
    /\ CanSend /\ cacheOn /\ main \notin {"opening", "greeting"}
    /\ Len(roles) < MaxRoles
    /\ \E r \in Cache : /\ r = "active" => ~Contains(roles, r)
                        /\ roles' = Append(roles, r)
                        /\ Send(Say(r))
    /\ UNCHANGED <<program, screen, session, task, ending, mishap>>

(* The close frame follows what was sent; a connection that breaks loses it.  *)
SocketCloses ==
    /\ Event /\ socket = "open"
    /\ \/ /\ wire = <<>>
          /\ UNCHANGED <<wire, cut>>
       \/ /\ wire # <<>>
          /\ wire' = <<>> /\ cut' = TRUE
    /\ socket' = "closing"
    /\ UNCHANGED <<program, screen, server, task, ending, mishap>>

-----------------------------------------------------------------------------
(* The cache task's assignment                                                *)

(* stopWatcher and CacheWatcher.stop: a watcher whose start() is under way    *)
(* has no handle yet that could be closed, and start() goes on.               *)
Stopped(w) ==
    [held |-> FALSE,
     is |-> IF ~w.held THEN w.is
            ELSE IF w.is = "starting" THEN "doomed"
            ELSE IF w.is = "running" THEN "stopping" ELSE w.is]

Hasty == IF watcher.held /\ watcher.is = "starting" THEN {"hasty stop"} ELSE {}

(* (slip) the heartbeat of a revoked executor goes on *)
PassiveButBeating(m) == [m EXCEPT !.state = "connected-passive", !.assigned = FALSE]

Passive(m) == [m EXCEPT !.state = "connected-passive", !.assigned = FALSE, !.beats = FALSE]

(* transitionToPassive: everything at once, then it awaits the watcher.       *)
ToPassive ==
    /\ machine' = [Passive(machine) EXCEPT !.told = "inactive"]
    /\ handler' = [handler EXCEPT !.stale = TRUE]
    /\ watcher' = Stopped(watcher)
    /\ mishap' = mishap \cup Hasty
                 \cup IF handler.at = "called" THEN {"overtaken"} ELSE {}

(* onDisconnected up to the await.                                            *)
StartDisconnect(who) ==
    /\ machine' = [machine EXCEPT !.beats = FALSE, !.there = (who # "event")]
    /\ handler' = [handler EXCEPT !.stale = TRUE]
    /\ watcher' = Stopped(watcher)
    /\ mishap' = mishap \cup Hasty

(* onMessage: an assignment is taken to the first await.                      *)
TakeRole(r) ==
    \/ r = "inactive" /\ ToPassive
    \/ /\ r = "active"
       /\ machine' = [machine EXCEPT !.told = r]
       /\ handler' = [at |-> "called", stale |-> FALSE]
       /\ UNCHANGED <<watcher, mishap>>

(* handleActiveAssignment after stopWatcher; it does not look whether it is   *)
(* still the latest.                                                          *)
HandlerResumes ==
    /\ Micro /\ handler.at = "called"
    /\ handler' = [handler EXCEPT !.at = "starting"]
    /\ machine' = [machine EXCEPT !.state = "assigned-syncing", !.assigned = TRUE,
                                  !.beats = TRUE]
    /\ watcher' = [held |-> TRUE, is |-> "starting"]
    /\ UNCHANGED <<program, line, screen, server, ending, mishap>>

(* CacheWatcher.start returns.                                                *)
WatcherStarts ==
    /\ Event /\ handler.at = "starting"
    /\ watcher' = [watcher EXCEPT !.is = IF @ = "doomed" THEN "leaked" ELSE "running"]
    /\ handler' = [handler EXCEPT !.at = IF handler.stale THEN "done" ELSE "syncing"]
    /\ UNCHANGED <<program, line, screen, server, machine, ending, mishap>>

(* start() or runInitialSync throws; a stale handler only returns.            *)
SyncFails ==
    /\ Event /\ handler.at \in {"starting", "syncing"}
    /\ handler' = [handler EXCEPT !.at = IF handler.stale THEN "done" ELSE "failing"]
    /\ watcher' = [watcher EXCEPT !.is = IF handler.at = "starting" THEN "stopped" ELSE @]
    /\ UNCHANGED <<program, line, screen, server, machine, ending, mishap>>

(* The rest of the catch: a fault is reported, unless an ack was the cause,   *)
(* and the machine is passive.  A report that cannot be sent throws.          *)
FaultReported ==
    /\ Event /\ handler.at = "failing"
    /\ \/ /\ machine' = Passive(machine)
          /\ watcher' = Stopped(watcher)
       \/ /\ socket # "open"
          /\ UNCHANGED <<machine, watcher>>
    /\ handler' = [at |-> "done", stale |-> TRUE]
    /\ UNCHANGED <<program, line, screen, server, ending, mishap>>

(* runInitialSync up to cache_task_sync_complete (CacheTaskSync).             *)
Synced ==
    /\ Event /\ handler.at = "syncing"
    /\ handler' = [handler EXCEPT !.at = IF handler.stale THEN "done" ELSE "reporting"]
    /\ UNCHANGED <<program, line, screen, server, machine, watcher, ending, mishap>>

(* (slip) the state is given the heartbeat's name for the phase *)
WatchingByPhase(m) == [m EXCEPT !.state = "watching"]

Watching(m) == [m EXCEPT !.state = "assigned-watching"]

(* ... and after it was sent; nor is the generation looked at here.           *)
SyncReported ==
    /\ Event /\ handler.at = "reporting"
    /\ \/ /\ socket = "open"
          /\ machine' = Watching(machine)
          /\ handler' = [handler EXCEPT !.at = "done"]
       \/ /\ socket # "open"
          /\ handler' = [handler EXCEPT !.at = IF handler.stale THEN "done" ELSE "failing"]
          /\ UNCHANGED machine
    /\ UNCHANGED <<program, line, screen, server, watcher, ending, mishap>>

(* A refused delta (NOT_ACTIVE, STALE_ASSIGNMENT) or a fatal fault of the     *)
(* watcher.                                                                   *)
TaskRefused ==
    /\ Event /\ machine.there /\ machine.assigned /\ socket = "open"
    /\ handler.at \in {"syncing", "done"}
    /\ ToPassive
    /\ UNCHANGED <<program, line, screen, server, ending>>

WatcherStops ==
    /\ Event /\ watcher.is = "stopping"
    /\ watcher' = [watcher EXCEPT !.is = "stopped"]
    /\ UNCHANGED <<program, line, screen, server, machine, handler, ending, mishap>>

(* sendHeartbeat on a socket that is no longer open: nobody catches what it   *)
(* throws.                                                                    *)
HeartbeatFails ==
    /\ Event /\ machine.beats /\ machine.assigned /\ socket # "open"
    /\ machine.state \in {"assigned-syncing", "assigned-watching"}
    /\ process' = "crashed"
    /\ UNCHANGED <<program, line, screen, server, task, closer, interrupting, closing, mishap>>

-----------------------------------------------------------------------------
(* The session's messages                                                     *)

Printed(ms) == FoldLeft(LAMBDA seen, m : IF m.kind = "out" THEN Append(seen, m.no) ELSE seen,
                        <<>>, ms)

(* (slip) stdin keeps flowing in raw mode *)
LeftAsIs(t) == t

(* cleanup: stdin as it was before runPtyPassthrough.                         *)
GivenBack(t) == [raw |-> FALSE, flowing |-> FALSE]

(* finish: the await of the main program ends, the listeners are gone.        *)
Finish(how) ==
    /\ main' = "leaving" /\ outcome' = how
    /\ tty' = IF main = "passing" /\ ~oneShot THEN GivenBack(tty) ELSE tty
    /\ UNCHANGED <<oneShot, cacheOn>>

(* activeMessageConsumer of waitForPtySessionReady, of runPtyPassthrough and  *)
(* of runOneShotMode; with none the message is kept.                          *)
Consume(m) ==
    \/ /\ main = "awaiting" /\ m.kind = "created"
       /\ main' = "created"
       /\ UNCHANGED <<oneShot, cacheOn, outcome, screen>>
    \/ /\ main = "awaiting" /\ m.kind = "connected"
       /\ UNCHANGED <<program, screen>>
    \/ /\ main = "passing" /\ m.kind = "out"
       /\ shown' = Append(shown, m.no)
       /\ UNCHANGED <<program, pending, tty>>
    \/ /\ main = "passing" /\ m.kind \notin {"out"} \cup Over
       /\ UNCHANGED <<program, screen>>
    \/ /\ \/ main = "passing" /\ m.kind \in Over
          \/ main = "awaiting" /\ m.kind = "error"
       /\ Finish(m.kind)
       /\ UNCHANGED <<pending, shown>>
    \/ /\ \/ main \notin {"awaiting", "passing"}
          \/ main = "awaiting" /\ m.kind \in {"out", "exit"}
       /\ pending' = Append(pending, m)
       /\ UNCHANGED <<program, shown, tty>>

(* The message listener of connect; before it is attached nobody hears.  The  *)
(* next message of a chunk comes before what the last one resolved.           *)
Receive ==
    /\ process = "runs" /\ wire # <<>> /\ socket # "closed"
    /\ \A who \in Closer : ~GoesOn(who)
    /\ wire' = Tail(wire)
    /\ LET m == Head(wire) IN
       \/ /\ main = "opening"
          /\ UNCHANGED <<program, screen, task, mishap>>
       \/ /\ main # "opening" /\ m.kind \in Cache
          /\ \/ machine.there /\ TakeRole(m.kind)
             \/ ~machine.there /\ UNCHANGED <<task, mishap>>
          /\ UNCHANGED <<program, screen>>
       \/ /\ main # "opening" /\ m.kind \notin Cache
          /\ Consume(m)
          /\ UNCHANGED <<task, mishap>>
    /\ UNCHANGED <<socket, cut, server, ending>>

-----------------------------------------------------------------------------
(* The main program                                                           *)

(* The socket is written to only while it is OPEN; a write may yet fail until *)
(* the close event, and none succeeds after it.                               *)
WriteSucceeds == socket # "closed"
WriteFails == socket # "open"

Fail == main' = "leaving" /\ outcome' = "error"

(* connect's open handler: configuration and scan cache are read, then the    *)
(* machine is made, the listeners are attached and client_hello is written.   *)
Opened ==
    /\ Event /\ main = "opening"
    /\ machine' = [machine EXCEPT !.there = TRUE, !.state = "connected-passive"]
    /\ \/ ~cacheOn /\ main' = "preparing" /\ UNCHANGED outcome
       \/ cacheOn /\ socket = "open" /\ main' = "greeting" /\ UNCHANGED outcome
       \/ cacheOn /\ socket # "open" /\ Fail
    /\ UNCHANGED <<oneShot, cacheOn, line, screen, server, handler, watcher, ending, mishap>>

Greeted ==
    /\ Event /\ main = "greeting"
    /\ \/ WriteSucceeds /\ main' = "preparing" /\ UNCHANGED outcome
       \/ WriteFails /\ Fail
    /\ UNCHANGED <<oneShot, cacheOn, line, screen, server, task, ending, mishap>>

(* sendCreatePtySession: resetExecutor, the project's settings, the message.  *)
Prepared ==
    /\ Event /\ main = "preparing"
    /\ \/ socket = "open" /\ main' = "creating" /\ UNCHANGED outcome
       \/ socket # "open" /\ Fail
    /\ UNCHANGED <<oneShot, cacheOn, line, screen, server, task, ending, mishap>>

(* waitForPtySessionReady.  Nothing of the session can have come before the   *)
(* message was written; what is kept until then is "connected".               *)
Created ==
    /\ Event /\ main = "creating"
    /\ \/ /\ WriteSucceeds
          /\ main' = "awaiting" /\ pending' = <<>>
          /\ session' = [session EXCEPT !.asked = TRUE]
          /\ UNCHANGED outcome
       \/ /\ WriteFails
          /\ Fail
          /\ UNCHANGED <<pending, session>>
    /\ UNCHANGED <<oneShot, cacheOn, line, shown, tty, roles, task, ending, mishap>>

(* (slip) the messages that came before are left where they are *)
AttachedOnly(seen, ms) == seen

(* What the terminal shows once flushPendingMessages is over.                 *)
Flushed(seen, ms) == seen \o Printed(ms)

(* runPtyPassthrough and runOneShotMode: the messages kept until now are      *)
(* handled first.  When the session's end is among them the wait is over, and *)
(* stdin is taken all the same, with the listeners that will give it back.    *)
Attached ==
    /\ Micro /\ main = "created"
    /\ LET end == SelectInSeq(pending, LAMBDA m : m.kind \in Over) IN
       \/ /\ end = 0
          /\ main' = "passing" /\ pending' = <<>>
          /\ shown' = Flushed(shown, pending)
          /\ UNCHANGED outcome
       \/ /\ end # 0
          /\ main' = "leaving" /\ outcome' = pending[end].kind
          /\ pending' = SubSeq(pending, end + 1, Len(pending))
          /\ shown' = Flushed(shown, SubSeq(pending, 1, end))
    /\ tty' = IF oneShot THEN tty ELSE [raw |-> TRUE, flowing |-> TRUE]
    /\ UNCHANGED <<oneShot, cacheOn, line, server, task, ending, mishap>>

(* A key cannot be sent: finish.  Nobody waits any more if the session's end  *)
(* was among the messages kept.                                               *)
KeyFails ==
    /\ Event /\ tty.flowing /\ socket # "open"
    /\ tty' = GivenBack(tty)
    /\ \/ main = "passing" /\ Fail
       \/ main # "passing" /\ UNCHANGED <<main, outcome>>
    /\ UNCHANGED <<oneShot, cacheOn, line, pending, shown, server, task, ending, mishap>>

-----------------------------------------------------------------------------
(* The end                                                                    *)

(* onDisconnected's caller awaits the watcher if it is the one that stops it. *)
Waits == watcher.held /\ watcher.is = "running"

At(who, at) == closer' = [closer EXCEPT ![who] = [at |-> at, waits |-> Waits]]

(* (slip) the wait goes on without its socket *)
UnheardClose == UNCHANGED <<program, tty>>

(* The close listeners of a wait; runPtyPassthrough's is there even after the *)
(* wait if its end was among the messages kept.  An error event ends a wait   *)
(* likewise, just before the close event.                                     *)
HeardClose ==
    \/ main \in {"awaiting", "passing"} /\ Finish("error")
    \/ main \notin {"awaiting", "passing"} /\ tty' = GivenBack(tty) /\ UNCHANGED program

(* The close event: connect's listener leaves the machine to close() when     *)
(* that is under way.                                                         *)
CloseEvent ==
    /\ Event /\ socket = "closing" /\ wire = <<>>
    /\ socket' = "closed"
    /\ \/ /\ machine.there /\ ~closing
          /\ StartDisconnect("event")
          /\ At("event", "machine")
       \/ /\ ~machine.there \/ closing
          /\ UNCHANGED <<task, closer, mishap>>
    /\ HeardClose
    /\ UNCHANGED <<wire, cut, pending, shown, server, interrupting, closing, process>>

(* close() up to the await of onDisconnected.                                 *)
StartClose(who) ==
    /\ closing' = TRUE
    /\ \/ /\ machine.there
          /\ StartDisconnect(who)
          /\ At(who, "machine")
       \/ /\ ~machine.there
          /\ closer' = [closer EXCEPT ![who].at = "machine"]
          /\ UNCHANGED <<task, mishap>>

(* The rest of onDisconnected, and close() on to its wait for the socket.     *)
Disconnected(who) ==
    /\ \/ Micro /\ GoesOn(who)
       \/ Event /\ closer[who].at = "machine" /\ watcher.is # "stopping"
    /\ machine' = [machine EXCEPT !.assigned = FALSE, !.state = "disconnected",
                                  !.there = FALSE]
    /\ \/ /\ who = "event"
          /\ closer' = [closer EXCEPT ![who].at = "done"]
          /\ UNCHANGED socket
       \/ /\ who # "event"
          /\ closer' = [closer EXCEPT ![who].at = "socket"]
          /\ socket' = IF socket = "open" THEN "closing" ELSE socket
    /\ UNCHANGED <<program, wire, cut, screen, server, handler, watcher, interrupting,
                   closing, process, mishap>>

(* waitForWebSocketClose: the close event or half a second; then close() ends *)
(* and with it the main program, or the handler of the signal.                *)
Closed(who) ==
    /\ Event /\ closer[who].at = "socket"
    /\ closer' = [closer EXCEPT ![who].at = "done"]
    /\ closing' = FALSE
    /\ process' = IF who = "signal" \/ oneShot THEN "ended" ELSE process
    /\ main' = IF who = "main" THEN "over" ELSE main
    /\ UNCHANGED <<oneShot, cacheOn, outcome, line, screen, server, task, interrupting, mishap>>

(* finally, in runPtyMode and runOneShotMode.                                 *)
Leave ==
    /\ Micro /\ main = "leaving" /\ handler.at # "called"
    /\ main' = "closing"
    /\ StartClose("main")
    /\ UNCHANGED <<oneShot, cacheOn, outcome, line, screen, server, interrupting, process>>

(* SIGINT, SIGTERM, and Ctrl+C in raw mode while the initial sync runs.  The  *)
(* handler is gone once the program closes.                                   *)
Interrupt ==
    /\ Event
    /\ \/ /\ ~interrupting /\ main \notin {"closing", "over"}
          /\ interrupting' = TRUE
          /\ StartClose("signal")
          /\ UNCHANGED process
       \/ /\ interrupting \/ main \in {"closing", "over"}
          /\ process' = "ended"
          /\ UNCHANGED <<task, closer, interrupting, closing, mishap>>
    /\ UNCHANGED <<program, line, screen, server>>

(* A second and a half after the signal.                                      *)
ForcedExit ==
    /\ Event /\ interrupting
    /\ process' = "ended"
    /\ UNCHANGED <<program, line, screen, server, task, closer, interrupting, closing, mishap>>

(* Node ends when nothing is left that could wake it: chokidar's handle       *)
(* (persistent) and a resumed stdin do. Timers are unref'd here, but for the  *)
(* one of an ack, which wakes it once more and ends by itself.                *)
Idle == /\ socket = "closed" /\ ~tty.flowing
        /\ watcher.is \in {"none", "stopped"}
        /\ handler.at \in {"none", "done"}

ProcessExits ==
    /\ Event /\ main = "over" /\ Idle
    /\ process' = "ended"
    /\ UNCHANGED <<program, line, screen, server, task, closer, interrupting, closing, mishap>>

AtRest == process # "runs" /\ UNCHANGED vars

-----------------------------------------------------------------------------
ServerNext == \/ ServerStarts \/ ServerTells \/ ServerPrints \/ SessionEnds \/ ServerFails
              \/ ServerAssigns \/ SocketCloses

TaskNext == \/ HandlerResumes \/ WatcherStarts \/ Synced \/ SyncReported \/ FaultReported
            \/ WatcherStops

MainNext == Opened \/ Greeted \/ Prepared \/ Created \/ Attached \/ Leave \/ ProcessExits

CloseNext == CloseEvent \/ \E who \in Closer : Disconnected(who) \/ Closed(who)

Next == \/ ServerNext \/ TaskNext \/ MainNext \/ CloseNext \/ Receive
        \/ SyncFails \/ TaskRefused \/ HeartbeatFails \/ KeyFails \/ Interrupt \/ ForcedExit
        \/ AtRest

Spec == Init /\ [][Next]_vars

(* What the event loop has begun it goes on with; the server, the user and    *)
(* whatever fails owe nothing.                                                *)
FairSpec == /\ Spec
            /\ WF_vars(Receive) /\ WF_vars(TaskNext) /\ WF_vars(MainNext) /\ WF_vars(CloseEvent)
            /\ \A who \in Closer : WF_vars(Disconnected(who)) /\ WF_vars(Closed(who))

-----------------------------------------------------------------------------
Outs == [i \in 1..session.outs |-> i]

(* The terminal gets the session's output whole and in order: while the wait  *)
(* goes on, what was shown, kept and is on the way is all there was, and when *)
(* the session's exit ended the wait everything had been shown.               *)
OutputIsWhole ==
    /\ main \in {"awaiting", "created", "passing"} /\ ~cut
       => shown \o Printed(pending) \o Printed(wire) = Outs
    /\ outcome = "exit" => shown = Outs

(* The terminal is raw, and stdin read, only for a session that goes on or,   *)
(* when its end came before they were taken, until the socket is closed.      *)
TerminalIsBack ==
    \/ main = "passing"
    \/ socket # "closed" /\ main \in {"leaving", "closing", "over"}
    \/ tty = [raw |-> FALSE, flowing |-> FALSE]

(* Who was told last that it is not the executor sends no heartbeats and has  *)
(* no watcher left, unless the revocation overtook the assignment.            *)
RevokedIsSilent ==
    machine.told = "inactive" /\ "overtaken" \notin mishap
    => ~machine.beats /\ ~machine.assigned /\ ~watcher.held

(* When its connection is gone, or its session over, the program leaves every *)
(* wait it may be in and closes, and then the process ends, unless a watcher  *)
(* was stopped while it was starting.                                         *)
ProcessEnds ==
    (socket = "closed" \/ main = "over") /\ "hasty stop" \notin mishap
    ~> process # "runs" \/ "hasty stop" \in mishap

=============================================================================
