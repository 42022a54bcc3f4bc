------------------------------ MODULE ToolCalls ------------------------------
(* The tool calls of one PTY session on their way from Claude Code to the     *)
(* client and back: PreToolUse hooks (server.ts, pty-session.ts) and the      *)
(* shadow MCP server (mcp-ipc-host.ts, ipc-client.ts) on one side, the relay  *)
(* with its timers (relay.ts) in the middle, the client's executor (client.ts)*)
(* on the other, and close, which may come at any of the awaits.              *)
EXTENDS Naturals, FiniteSets

CONSTANTS Call,
          Hooked,           \* calls made by a hook; the others come by MCP
          Shadowed          \* hooked calls of tools that the MCP server replaces

ASSUME CallKinds == Shadowed \subseteq Hooked /\ Hooked \subseteq Call

VARIABLES host,             \* did the MCP host of the session start?
          child,            \* does the session's process run?
          conn,             \* is the client's connection open?
          closed,           \* ClaudePtySession.closed
          entry,            \* is the session in ptySessions?
          exiting,          \* is a pty_exit being sent?
          link,             \* socket between the host and the MCP server
          at,               \* where a call is on the server
          relay,            \* ToolRelay.pending
          settled,          \* how the promise of a pending call was settled
          reply,            \* what the server wrote back to the caller
          answer,           \* what the caller has taken for an answer
          wire,             \* where a call is on the client's side
          runs,             \* how often the client has run it
          late              \* calls one of whose timers has fired

session == <<host, child, conn, closed, entry, exiting, link>>

vars == <<session, at, relay, settled, reply, answer, wire, runs, late>>

SessionType ==
    /\ host \in BOOLEAN /\ child \in BOOLEAN /\ closed \in BOOLEAN
    /\ entry \in BOOLEAN /\ exiting \in BOOLEAN
    /\ conn \in {"open", "shut", "gone"}
    /\ link \in {"up", "cut", "down"}

CallType ==
    /\ at \in [Call -> {"idle", "asked", "sending", "waiting", "completing", "over"}]
    /\ relay \subseteq Call
    /\ settled \in [Call -> {"no", "result", "error"}]
    /\ reply \in [Call -> {"none", "result", "error", "refer"}]
    /\ answer \in [Call -> {"none", "result", "error", "refer"}]
    /\ wire \in [Call -> {"none", "call", "running", "result", "arrived", "lost"}]
    /\ runs \in [Call -> 0..1]
    /\ late \subseteq Call

TypeOK == SessionType /\ CallType

(* A session whose process has just started, with its MCP server connected if *)
(* there is a host.                                                           *)
Init ==
    /\ host \in BOOLEAN
    /\ child = TRUE
    /\ conn = "open"
    /\ closed = FALSE
    /\ entry = TRUE
    /\ exiting = FALSE
    /\ link = IF host THEN "up" ELSE "down"
    /\ at = [k \in Call |-> "idle"]
    /\ relay = {}
    /\ settled = [k \in Call |-> "no"]
    /\ reply = [k \in Call |-> "none"]
    /\ answer = [k \in Call |-> "none"]
    /\ wire = [k \in Call |-> "none"]
    /\ runs = [k \in Call |-> 0]
    /\ late = {}

At(k, stage) == at' = [at EXCEPT ![k] = stage]

(* executeToolViaClient is over for a call: its caller is written to.         *)
Over(k, r) == At(k, "over") /\ reply' = [reply EXCEPT ![k] = r]

Told(K, r) == [k \in Call |-> IF k \in K THEN r ELSE answer[k]]

(* Calls whose caller waits for an answer.                                    *)
Open(k) == at[k] # "idle" /\ answer[k] = "none"

Mcp == Call \ Hooked

(***************************************************************************)
(* The caller asks                                                         *)
(***************************************************************************)
(* The hook's request finds its session, or is answered with 404.             *)
HookAsks(k) ==
    /\ k \in Hooked
    /\ child
    /\ at[k] = "idle"
    /\ IF entry THEN At(k, "asked") /\ UNCHANGED reply ELSE Over(k, "error")
    /\ UNCHANGED <<session, relay, settled, answer, wire, runs, late>>

(* callTool: the frame is written to the socket.                              *)
McpAsks(k) ==
    /\ k \in Mcp
    /\ host /\ child
    /\ at[k] = "idle"
    /\ At(k, "asked")
    /\ UNCHANGED <<session, relay, settled, reply, answer, wire, runs, late>>

(***************************************************************************)
(* executeToolViaClient                                                    *)
(***************************************************************************)
(* (slip) the session the hook's request has found is taken to be open.       *)
ExecuteTrusting(k) ==
    IF conn = "open"
    THEN /\ relay' = relay \cup {k}
         /\ wire' = [wire EXCEPT ![k] = "call"]
         /\ At(k, "sending")
         /\ UNCHANGED reply
    ELSE Over(k, "error") /\ UNCHANGED <<relay, wire>>

(* The pending call is there before its message is sent, as the result may be *)
(* faster than the flush.  A send that cannot even begin takes it out again.  *)
Execute(k) ==
    IF ~closed /\ conn = "open"
    THEN /\ relay' = relay \cup {k}
         /\ wire' = [wire EXCEPT ![k] = "call"]
         /\ At(k, "sending")
         /\ UNCHANGED reply
    ELSE Over(k, "error") /\ UNCHANGED <<relay, wire>>

(* The body is read; the session may have been closed meanwhile.  A tool that *)
(* has a replacement is not run: the model is referred to it.                 *)
HookRead(k) ==
    /\ k \in Hooked
    /\ at[k] = "asked"
    /\ IF ~closed /\ host /\ k \in Shadowed
       THEN Over(k, "refer") /\ UNCHANGED <<relay, wire>>
       ELSE Execute(k)
    /\ UNCHANGED <<session, settled, answer, runs, late>>

HostReceives(k) ==
    /\ k \in Mcp
    /\ at[k] = "asked"
    /\ link = "up"
    /\ Execute(k)
    /\ UNCHANGED <<session, settled, answer, runs, late>>

(* The result is there: the client is told that the call is complete.         *)
Complete(k) == IF entry /\ conn = "open" THEN At(k, "completing") /\ UNCHANGED reply
                                         ELSE Over(k, "error")

(* A call that was settled while it was being sent does not wait.             *)
SendFlushed(k) ==
    /\ at[k] = "sending"
    /\ conn = "open"
    /\ CASE settled[k] = "no"     -> At(k, "waiting") /\ UNCHANGED reply
         [] settled[k] = "result" -> Complete(k)
         [] settled[k] = "error"  -> Over(k, "error")
    /\ UNCHANGED <<session, relay, settled, answer, wire, runs, late>>

(* The pending call goes with the send, whatever has settled it before.       *)
SendFails(k) ==
    /\ at[k] = "sending"
    /\ conn # "open"
    /\ relay' = relay \ {k}
    /\ Over(k, "error")
    /\ UNCHANGED <<session, settled, answer, wire, runs, late>>

CompleteFlushed(k) ==
    /\ at[k] = "completing"
    /\ conn = "open"
    /\ Over(k, "result")
    /\ UNCHANGED <<session, relay, settled, answer, wire, runs, late>>

(* The result is there, but the call fails with its last message.             *)
CompleteFails(k) ==
    /\ at[k] = "completing"
    /\ conn # "open"
    /\ Over(k, "error")
    /\ UNCHANGED <<session, relay, settled, answer, wire, runs, late>>

(* (slip) the timer forgets the call without rejecting it.                    *)
CallTimeoutForgetting(k) ==
    /\ k \in relay
    /\ relay' = relay \ {k}
    /\ late' = late \cup {k}
    /\ UNCHANGED <<session, at, settled, reply, answer, wire, runs>>

(* The relay's timer rejects the promise; a call that is still being sent     *)
(* learns of it after its send.                                               *)
CallTimeout(k) ==
    /\ k \in relay
    /\ relay' = relay \ {k}
    /\ late' = late \cup {k}
    /\ settled' = [settled EXCEPT ![k] = "error"]
    /\ IF at[k] = "waiting" THEN Over(k, "error") ELSE UNCHANGED <<at, reply>>
    /\ UNCHANGED <<session, answer, wire, runs>>

(***************************************************************************)
(* The client                                                              *)
(***************************************************************************)
TakesCall(k) ==
    /\ wire[k] = "call"
    /\ wire' = [wire EXCEPT ![k] = "running"]
    /\ runs' = [runs EXCEPT ![k] = @ + 1]
    /\ UNCHANGED <<session, at, relay, settled, reply, answer, late>>

(* Whether the tool succeeds or fails, its result is sent.                    *)
ToolDone(k) ==
    /\ wire[k] = "running"
    /\ wire' = [wire EXCEPT ![k] = IF conn = "open" THEN "result" ELSE "lost"]
    /\ UNCHANGED <<session, at, relay, settled, reply, answer, runs, late>>

(* (slip) a result is only looked at once the call has been sent.             *)
ResultArrivesLate(k) ==
    /\ wire[k] = "result"
    /\ conn = "open"
    /\ wire' = [wire EXCEPT ![k] = "arrived"]
    /\ IF k \in relay /\ at[k] = "waiting"
       THEN /\ relay' = relay \ {k}
            /\ settled' = [settled EXCEPT ![k] = "result"]
            /\ Complete(k)
       ELSE UNCHANGED <<at, relay, settled, reply>>
    /\ UNCHANGED <<session, answer, runs, late>>

(* A result without a session, or without a pending call, is dropped.         *)
ResultArrives(k) ==
    /\ wire[k] = "result"
    /\ conn = "open"
    /\ wire' = [wire EXCEPT ![k] = "arrived"]
    /\ IF entry /\ k \in relay
       THEN /\ relay' = relay \ {k}
            /\ settled' = [settled EXCEPT ![k] = "result"]
            /\ IF at[k] = "waiting" THEN Complete(k) ELSE UNCHANGED <<at, reply>>
       ELSE UNCHANGED <<at, relay, settled, reply>>
    /\ UNCHANGED <<session, answer, runs, late>>

(***************************************************************************)
(* The caller is answered                                                  *)
(***************************************************************************)
Delivered(k) ==
    /\ reply[k] # "none"
    /\ child
    /\ k \in Mcp => link = "up"
    /\ Open(k)
    /\ answer' = Told({k}, reply[k])
    /\ UNCHANGED <<session, at, relay, settled, reply, wire, runs, late>>

(* The MCP server has a timer of its own, started earlier than the relay's.   *)
IpcTimeout(k) ==
    /\ k \in Mcp
    /\ Open(k)
    /\ answer' = Told({k}, "error")
    /\ late' = late \cup {k}
    /\ UNCHANGED <<session, at, relay, settled, reply, wire, runs>>

(* The MCP server sees its socket closed: every call in flight is rejected.   *)
LinkCloses ==
    /\ link = "cut"
    /\ link' = "down"
    /\ answer' = Told({k \in Mcp : Open(k)}, "error")
    /\ UNCHANGED <<host, child, conn, closed, entry, exiting, at, relay, settled,
                   reply, wire, runs, late>>

(* A call that finds the link down connects anew, which fails.                *)
ConnectFails(k) ==
    /\ k \in Mcp
    /\ child
    /\ link = "down"
    /\ at[k] = "asked"
    /\ Open(k)
    /\ At(k, "over")
    /\ answer' = Told({k}, "error")
    /\ UNCHANGED <<session, relay, settled, reply, wire, runs, late>>

(***************************************************************************)
(* The end of the session                                                  *)
(***************************************************************************)
(* (slip) the calls of a closed session are resolved as if they had run.      *)
CloseResolving ==
    /\ closed' = TRUE
    /\ relay' = {}
    /\ UNCHANGED settled
    /\ at' = [k \in Call |-> IF k \in relay /\ at[k] = "waiting" THEN "over" ELSE at[k]]
    /\ reply' = [k \in Call |-> IF k \in relay /\ at[k] = "waiting" THEN "result"
                                                                   ELSE reply[k]]

(* close, up to its first await: the relay is emptied, and the host destroys  *)
(* its socket.                                                                *)
Close ==
    /\ closed' = TRUE
    /\ IF closed
       THEN UNCHANGED <<relay, settled, at, reply>>
       ELSE /\ relay' = {}
            /\ settled' = [k \in Call |-> IF k \in relay THEN "error" ELSE settled[k]]
            /\ at' = [k \in Call |-> IF k \in relay /\ at[k] = "waiting" THEN "over"
                                                                        ELSE at[k]]
            /\ reply' = [k \in Call |-> IF k \in relay /\ at[k] = "waiting" THEN "error"
                                                                           ELSE reply[k]]

Cut == IF link = "up" THEN "cut" ELSE link

CloseSession ==
    /\ entry
    /\ conn = "open"
    /\ Close
    /\ entry' = FALSE
    /\ link' = Cut
    /\ UNCHANGED <<host, child, conn, exiting, answer, wire, runs, late>>

(* The process has ended, and the MCP server with it.                         *)
ChildExits ==
    /\ child
    /\ child' = FALSE
    /\ exiting' = (entry /\ conn = "open")
    /\ Close
    /\ link' = "down"
    /\ UNCHANGED <<host, conn, entry, answer, wire, runs, late>>

ExitSent ==
    /\ exiting
    /\ exiting' = FALSE
    /\ entry' = (entry /\ conn # "open")
    /\ UNCHANGED <<host, child, conn, closed, link, at, relay, settled, reply,
                   answer, wire, runs, late>>

(* What is on the way in either direction is lost.                            *)
Disconnect ==
    /\ conn = "open"
    /\ conn' = "shut"
    /\ wire' = [k \in Call |-> IF wire[k] \in {"call", "result"} THEN "lost"
                                                                ELSE wire[k]]
    /\ UNCHANGED <<host, child, closed, entry, exiting, link, at, relay, settled,
                   reply, answer, runs, late>>

DisconnectHandled ==
    /\ conn = "shut"
    /\ conn' = "gone"
    /\ entry' = FALSE
    /\ IF entry THEN Close /\ link' = Cut
                ELSE UNCHANGED <<closed, relay, settled, at, reply, link>>
    /\ UNCHANGED <<host, child, exiting, answer, wire, runs, late>>

ServerStep(k) ==
    \/ HookRead(k) \/ HostReceives(k)
    \/ SendFlushed(k) \/ SendFails(k)
    \/ CompleteFlushed(k) \/ CompleteFails(k)
    \/ CallTimeout(k)
    \/ Delivered(k) \/ IpcTimeout(k) \/ ConnectFails(k)

Next ==
    \/ \E k \in Call :
          \/ HookAsks(k) \/ McpAsks(k)
          \/ ServerStep(k)
          \/ TakesCall(k) \/ ToolDone(k) \/ ResultArrives(k)
    \/ LinkCloses
    \/ CloseSession \/ ChildExits \/ ExitSent
    \/ Disconnect \/ DisconnectHandled

Spec == Init /\ [][Next]_vars

(* Sends end, timers fire; neither the client nor its tools have to.          *)
Fairness == \A k \in Call : WF_vars(ServerStep(k))

FairSpec == Spec /\ Fairness

(***************************************************************************)
(* Properties                                                              *)
(***************************************************************************)
(* No call is registered behind the clean-up of a closed session: a hook that *)
(* found the session before it was closed does not execute after.             *)
ClosedLeavesNone == closed => relay = {}

(* A call that waits is known to the relay: whoever takes it out - a result,  *)
(* its timer, a failed send, the clean-up - ends its wait as well.            *)
WaitsForRelay == \A k \in Call : at[k] = "waiting" => k \in relay

(* A result that came before the timer is handed on while session and client  *)
(* are there, even if it overtook the end of its own call's send.             *)
TimelyResultKept ==
    \A k \in Call :
        wire[k] = "arrived" /\ k \notin late /\ ~closed /\ conn = "open" =>
            /\ at[k] \in {"sending", "completing", "over"}
            /\ settled[k] = "result"
            /\ reply[k] \in {"none", "result"}

(* No caller is told of a failure unless a timer fired, the session is closed *)
(* or its client is leaving.                                                  *)
ErrorHasCause ==
    \A k \in Call : answer[k] = "error" => k \in late \/ closed \/ conn # "open"

(* Every call of a running process is answered, whether or not the client     *)
(* ever sends a result.                                                       *)
CallsAnswered == \A k \in Call : Open(k) ~> (answer[k] # "none" \/ ~child)

(* A tool runs at most once, and who gets a result gets that of the run.      *)
Contract == INSTANCE ToolCallContract
            WITH asked  <- {k \in Call : at[k] # "idle"},
                 answer <- [k \in Call |-> IF answer[k] = "refer" THEN "error"
                                                                 ELSE answer[k]]

ContractSpec == Contract!Spec
=============================================================================
