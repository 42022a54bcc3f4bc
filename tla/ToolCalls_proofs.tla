-------------------------- MODULE ToolCalls_proofs --------------------------
(* Type correctness, the safety invariants of ToolCalls and its refinement of *)
(* ToolCallContract, for any set of calls and any split of it into hooks and  *)
(* calls by MCP.                                                              *)
(*                                                                            *)
(* A caller's answer is decided several steps before it is given, by the      *)
(* promise of the pending call; the invariant follows a call along that way.  *)
EXTENDS ToolCalls, TLAPS

HasCause(k) == k \in late \/ closed \/ conn # "open"

(* The entry of the session goes only with the session or its client.         *)
EntryKept == ~entry => closed \/ conn # "open"

(* The end of the process is reported when the session is closed already.     *)
ExitIsClosed == exiting => closed

(* The host keeps its socket until the session is closed.                     *)
LinkKept == host /\ link # "up" => closed

McpHasHost(k) == k \in Mcp /\ at[k] # "idle" => host

(* Nothing has happened to a call before it is executed.                      *)
Untouched(k) ==
    at[k] \in {"idle", "asked"} =>
        k \notin relay /\ settled[k] = "no" /\ wire[k] = "none" /\ reply[k] = "none"

(* Nobody is answered who has not asked.                                      *)
Asked(k) == at[k] = "idle" => answer[k] = "none"

RepliedIsOver(k) == reply[k] # "none" => at[k] = "over"

(* The relay holds what is being sent or waited for and not settled.          *)
PendingIsOpen(k) == k \in relay => at[k] \in {"sending", "waiting"} /\ settled[k] = "no"

SendingIsPending(k) == at[k] = "sending" /\ settled[k] = "no" => k \in relay

(* A call whose result can still come is pending, unless it has a cause not   *)
(* to be.                                                                     *)
AwaitedIsPending(k) ==
    wire[k] \in {"call", "running", "result"} /\ ~HasCause(k) => k \in relay

(* Where a result comes from.                                                 *)
ResultIsReal(k) ==
    /\ at[k] = "completing" \/ reply[k] = "result" => settled[k] = "result"
    /\ settled[k] = "result" => wire[k] = "arrived"
    /\ wire[k] \in {"running", "result", "arrived"} => runs[k] = 1
    /\ wire[k] \in {"none", "call"} => runs[k] = 0

(* Where an error comes from.                                                 *)
ErrorIsReal(k) ==
    (settled[k] = "error" \/ reply[k] = "error" \/ answer[k] = "error") => HasCause(k)

CallInv(k) ==
    /\ McpHasHost(k)
    /\ Untouched(k)
    /\ Asked(k)
    /\ RepliedIsOver(k)
    /\ PendingIsOpen(k)
    /\ SendingIsPending(k)
    /\ at[k] = "waiting" => k \in relay
    /\ AwaitedIsPending(k)
    /\ ResultIsReal(k)
    /\ ErrorIsReal(k)
    /\ wire[k] = "arrived" /\ ~HasCause(k) =>
          /\ at[k] \in {"sending", "completing", "over"}
          /\ settled[k] = "result"
          /\ reply[k] \in {"none", "result"}

IInv == /\ TypeOK
        /\ ClosedLeavesNone
        /\ EntryKept
        /\ ExitIsClosed
        /\ LinkKept
        /\ \A k \in Call : CallInv(k)

-----------------------------------------------------------------------------
(* What steps and the invariant are made of, visible in every proof below.    *)
USE CallKinds
USE DEF IInv, CallInv, TypeOK, SessionType, CallType, ClosedLeavesNone, EntryKept, ExitIsClosed,
        LinkKept, HasCause,
        McpHasHost, Untouched, Asked, RepliedIsOver, PendingIsOpen,
        SendingIsPending, AwaitedIsPending, ResultIsReal, ErrorIsReal,
        At, Over, Mcp, Open, Told, Cut, session

(* The invariant holds when the process has just started.                     *)
LEMMA InitInv == Init => IInv
<1> SUFFICES ASSUME Init PROVE IInv
  OBVIOUS
<1>1. SessionType
  BY DEF Init
<1>2. CallType
  BY DEF Init
<1>3. \A k \in Call : CallInv(k)
  BY DEF Init
<1>4. QED
  BY <1>1, <1>2, <1>3 DEF Init

(* The caller's steps, and what the client does.                              *)
LEMMA OutsideKeeps ==
    ASSUME IInv, NEW k \in Call,
           \/ HookAsks(k) \/ McpAsks(k)
           \/ TakesCall(k) \/ ToolDone(k) \/ ResultArrives(k)
    PROVE  IInv'
<1>1. CASE HookAsks(k)
  BY <1>1 DEF HookAsks
<1>2. CASE McpAsks(k)
  BY <1>2 DEF McpAsks
<1>3. CASE TakesCall(k)
  BY <1>3 DEF TakesCall
<1>4. CASE ToolDone(k)
  BY <1>4 DEF ToolDone
<1>5. CASE ResultArrives(k)
  <2>1. SessionType'
    BY <1>5 DEF ResultArrives, Complete
  <2>2. CallType'
    BY <1>5 DEF ResultArrives, Complete
  <2>3. (ClosedLeavesNone /\ EntryKept /\ ExitIsClosed /\ LinkKept)'
    BY <1>5 DEF ResultArrives, Complete
  <2>4. ASSUME NEW c \in Call PROVE CallInv(c)'
    BY <1>5, <2>4 DEF ResultArrives, Complete
  <2>5. QED
    BY <2>1, <2>2, <2>3, <2>4
<1>6. QED
  BY <1>1, <1>2, <1>3, <1>4, <1>5

(* executeToolViaClient, the timers and the answers.                          *)
LEMMA ServerKeeps ==
    ASSUME IInv, NEW k \in Call, ServerStep(k) PROVE IInv'
<1>1. CASE HookRead(k)
  <2>1. SessionType'
    BY <1>1 DEF HookRead, Execute
  <2>2. CallType'
    BY <1>1 DEF HookRead, Execute
  <2>3. (ClosedLeavesNone /\ EntryKept /\ ExitIsClosed /\ LinkKept)'
    BY <1>1 DEF HookRead, Execute
  <2>4. ASSUME NEW c \in Call PROVE CallInv(c)'
    BY <1>1, <2>4 DEF HookRead, Execute
  <2>5. QED
    BY <2>1, <2>2, <2>3, <2>4
<1>2. CASE HostReceives(k)
  <2>1. SessionType'
    BY <1>2 DEF HostReceives, Execute
  <2>2. CallType'
    BY <1>2 DEF HostReceives, Execute
  <2>3. (ClosedLeavesNone /\ EntryKept /\ ExitIsClosed /\ LinkKept)'
    BY <1>2 DEF HostReceives, Execute
  <2>4. ASSUME NEW c \in Call PROVE CallInv(c)'
    BY <1>2, <2>4 DEF HostReceives, Execute
  <2>5. QED
    BY <2>1, <2>2, <2>3, <2>4
<1>3. CASE SendFlushed(k)
  <2>1. SessionType'
    BY <1>3 DEF SendFlushed, Complete
  <2>2. CallType'
    <3>1. CASE settled[k] = "no"
      BY <1>3, <3>1 DEF SendFlushed
    <3>2. CASE settled[k] = "result"
      BY <1>3, <3>2 DEF SendFlushed, Complete
    <3>3. CASE settled[k] = "error"
      BY <1>3, <3>3 DEF SendFlushed
    <3>4. QED
      BY <3>1, <3>2, <3>3
  <2>3. (ClosedLeavesNone /\ EntryKept /\ ExitIsClosed /\ LinkKept)'
    BY <1>3 DEF SendFlushed, Complete
  <2>4. ASSUME NEW c \in Call PROVE CallInv(c)'
    <3>1. CASE settled[k] = "no"
      BY <1>3, <2>4, <3>1 DEF SendFlushed
    <3>2. CASE settled[k] = "result"
      BY <1>3, <2>4, <3>2 DEF SendFlushed, Complete
    <3>3. CASE settled[k] = "error"
      BY <1>3, <2>4, <3>3 DEF SendFlushed
    <3>4. QED
      BY <3>1, <3>2, <3>3
  <2>5. QED
    BY <2>1, <2>2, <2>3, <2>4
<1>4. CASE SendFails(k)
  BY <1>4 DEF SendFails
<1>5. CASE CompleteFlushed(k)
  BY <1>5 DEF CompleteFlushed
<1>6. CASE CompleteFails(k)
  BY <1>6 DEF CompleteFails
<1>7. CASE CallTimeout(k)
  BY <1>7 DEF CallTimeout
<1>8. CASE Delivered(k)
  BY <1>8 DEF Delivered
<1>9. CASE IpcTimeout(k)
  BY <1>9 DEF IpcTimeout
<1>10. CASE ConnectFails(k)
  BY <1>10 DEF ConnectFails
<1>11. QED
  BY <1>1, <1>2, <1>3, <1>4, <1>5, <1>6, <1>7, <1>8, <1>9, <1>10 DEF ServerStep

(* Steps that many calls see at once.                                         *)
LEMMA SessionKeeps ==
    ASSUME IInv,
           \/ LinkCloses \/ CloseSession \/ ChildExits \/ ExitSent
           \/ Disconnect \/ DisconnectHandled
    PROVE  IInv'
<1>1. CASE LinkCloses
  BY <1>1 DEF LinkCloses
<1>2. CASE CloseSession
  <2>1. SessionType'
    BY <1>2 DEF CloseSession, Close
  <2>2. CallType'
    BY <1>2 DEF CloseSession, Close
  <2>3. (ClosedLeavesNone /\ EntryKept /\ ExitIsClosed /\ LinkKept)'
    BY <1>2 DEF CloseSession, Close
  <2>4. ASSUME NEW c \in Call PROVE CallInv(c)'
    BY <1>2, <2>4 DEF CloseSession, Close
  <2>5. QED
    BY <2>1, <2>2, <2>3, <2>4
<1>3. CASE ChildExits
  <2>1. SessionType'
    BY <1>3 DEF ChildExits, Close
  <2>2. CallType'
    BY <1>3 DEF ChildExits, Close
  <2>3. (ClosedLeavesNone /\ EntryKept /\ ExitIsClosed /\ LinkKept)'
    BY <1>3 DEF ChildExits, Close
  <2>4. ASSUME NEW c \in Call PROVE CallInv(c)'
    BY <1>3, <2>4 DEF ChildExits, Close
  <2>5. QED
    BY <2>1, <2>2, <2>3, <2>4
<1>4. CASE ExitSent
  <2>1. SessionType'
    BY <1>4 DEF ExitSent
  <2>2. CallType'
    BY <1>4 DEF ExitSent
  <2>3. (ClosedLeavesNone /\ EntryKept /\ ExitIsClosed /\ LinkKept)'
    BY <1>4 DEF ExitSent
  <2>4. ASSUME NEW c \in Call PROVE CallInv(c)'
    BY <1>4, <2>4 DEF ExitSent
  <2>5. QED
    BY <2>1, <2>2, <2>3, <2>4
<1>5. CASE Disconnect
  <2>1. SessionType'
    BY <1>5 DEF Disconnect
  <2>2. CallType'
    BY <1>5 DEF Disconnect
  <2>3. (ClosedLeavesNone /\ EntryKept /\ ExitIsClosed /\ LinkKept)'
    BY <1>5 DEF Disconnect
  <2>4. ASSUME NEW c \in Call PROVE CallInv(c)'
    BY <1>5, <2>4 DEF Disconnect
  <2>5. QED
    BY <2>1, <2>2, <2>3, <2>4
<1>6. CASE DisconnectHandled
  <2>1. SessionType'
    BY <1>6 DEF DisconnectHandled, Close
  <2>2. CallType'
    BY <1>6 DEF DisconnectHandled, Close
  <2>3. (ClosedLeavesNone /\ EntryKept /\ ExitIsClosed /\ LinkKept)'
    BY <1>6 DEF DisconnectHandled, Close
  <2>4. ASSUME NEW c \in Call PROVE CallInv(c)'
    BY <1>6, <2>4 DEF DisconnectHandled, Close
  <2>5. QED
    BY <2>1, <2>2, <2>3, <2>4
<1>7. QED
  BY <1>1, <1>2, <1>3, <1>4, <1>5, <1>6

(* Every step keeps the invariant.                                            *)
LEMMA StepInv == IInv /\ [Next]_vars => IInv'
<1>1. IInv /\ UNCHANGED vars => IInv'
  BY DEF vars
<1>2. IInv /\ Next => IInv'
  BY OutsideKeeps, ServerKeeps, SessionKeeps DEF Next
<1>3. QED
  BY <1>1, <1>2

(* The invariant holds in every reachable state of a session.                 *)
THEOREM CallsAreSound == Spec => []IInv
BY InitInv, StepInv, PTL DEF Spec

(* Every variable keeps its type; no tool is run a second time.               *)
THEOREM CallTypes == Spec => []TypeOK
<1>1. IInv => TypeOK
  OBVIOUS
<1>2. QED
  BY <1>1, CallsAreSound, PTL

(* A closed session's relay stays empty, though hooks may still execute.      *)
THEOREM NoneBehindClose == Spec => []ClosedLeavesNone
<1>1. IInv => ClosedLeavesNone
  OBVIOUS
<1>2. QED
  BY <1>1, CallsAreSound, PTL

(* Every waiting call is in the relay, where its timer and clean-up find it.  *)
THEOREM WaitingIsPending == Spec => []WaitsForRelay
<1>1. IInv => WaitsForRelay
  BY DEF WaitsForRelay
<1>2. QED
  BY <1>1, CallsAreSound, PTL

(* What the client sent in time is not lost by the server.                    *)
THEOREM ResultsKept == Spec => []TimelyResultKept
<1>1. IInv => TimelyResultKept
  BY DEF TimelyResultKept
<1>2. QED
  BY <1>1, CallsAreSound, PTL

(* A failure has a timer, the end of the session or of its client behind it.  *)
THEOREM ErrorsCaused == Spec => []ErrorHasCause
<1>1. IInv => ErrorHasCause
  BY DEF ErrorHasCause
<1>2. QED
  BY <1>1, CallsAreSound, PTL

-----------------------------------------------------------------------------
(* The refinement: a call is made, run and answered, and all the rest stutters. *)
LEMMA InitRefines == Init => Contract!Init
BY DEF Init, Contract!Init

(* Steps that leave callers, runs and answers alone.                          *)
LEMMA QuietRefines ==
    ASSUME IInv,
           {k \in Call : at'[k] # "idle"} = {k \in Call : at[k] # "idle"},
           UNCHANGED <<runs, answer>>
    PROVE  UNCHANGED Contract!vars
BY DEF Contract!vars

(* Calls that are answered by one step, with the same failure.                *)
LEMMA FailRefines ==
    ASSUME IInv, NEW K \in SUBSET Call, NEW r \in {"error", "refer"},
           \A k \in K : Open(k),
           {k \in Call : at'[k] # "idle"} = {k \in Call : at[k] # "idle"},
           answer' = Told(K, r),
           UNCHANGED runs
    PROVE  Contract!Next
<1>1. Contract!Fail(K)
  BY DEF Contract!Fail
<1>2. QED
  BY <1>1 DEF Contract!Next

(* A single call fails.                                                       *)
LEMMA OneFailRefines ==
    ASSUME IInv, NEW k \in Call, NEW r \in {"error", "refer"}, Open(k),
           {c \in Call : at'[c] # "idle"} = {c \in Call : at[c] # "idle"},
           answer' = Told({k}, r),
           UNCHANGED runs
    PROVE  Contract!Next
<1> DEFINE K == {k}
<1>1. K \in SUBSET Call /\ \A c \in K : Open(c)
  OBVIOUS
<1>2. answer' = Told(K, r)
  OBVIOUS
<1> HIDE DEF K
<1>3. QED
  BY <1>1, <1>2, FailRefines

(* A call is made.                                                            *)
LEMMA AskRefines ==
    ASSUME IInv, NEW k \in Call, HookAsks(k) \/ McpAsks(k) PROVE Contract!Next
<1>1. Contract!Ask(k)
  <2>1. CASE HookAsks(k)
    BY <2>1 DEF HookAsks, Contract!Ask
  <2>2. CASE McpAsks(k)
    BY <2>2 DEF McpAsks, Contract!Ask
  <2>3. QED
    BY <2>1, <2>2
<1>2. QED
  BY <1>1 DEF Contract!Next

(* A call that is still on the wire has not run.                              *)
LEMMA RunRefines ==
    ASSUME IInv, NEW k \in Call, TakesCall(k) PROVE Contract!Next
<1>1. runs[k] = 0 /\ at[k] # "idle"
  BY DEF TakesCall
<1>2. runs' = [runs EXCEPT ![k] = 1] /\ UNCHANGED <<at, answer>>
  BY <1>1 DEF TakesCall
<1>3. Contract!Run(k)
  BY <1>1, <1>2 DEF Contract!Run
<1>4. QED
  BY <1>3 DEF Contract!Next

(* An answer is a result only if the call has run: ResultIsReal.              *)
LEMMA AnswerRefines ==
    ASSUME IInv, NEW k \in Call, Delivered(k) PROVE Contract!Next
<1>1. CASE reply[k] = "result"
  <2>1. Contract!Succeed(k)
    BY <1>1 DEF Delivered, Contract!Succeed
  <2>2. QED
    BY <2>1 DEF Contract!Next
<1>2. CASE reply[k] \in {"error", "refer"}
  <2>1. Open(k) /\ answer' = Told({k}, reply[k]) /\ UNCHANGED <<at, runs>>
    BY DEF Delivered
  <2>2. QED
    BY <1>2, <2>1, OneFailRefines
<1>3. QED
  BY <1>1, <1>2 DEF Delivered

(* The MCP server fails calls without an answer from the host.                *)
LEMMA FailuresRefine ==
    ASSUME IInv,
           LinkCloses \/ \E k \in Call : IpcTimeout(k) \/ ConnectFails(k)
    PROVE  Contract!Next
<1>1. CASE LinkCloses
  <2> DEFINE K == {k \in Mcp : Open(k)}
  <2>1. K \in SUBSET Call /\ \A k \in K : Open(k)
    OBVIOUS
  <2>2. answer' = Told(K, "error") /\ UNCHANGED <<at, runs>>
    BY <1>1 DEF LinkCloses
  <2> HIDE DEF K
  <2>3. QED
    BY <2>1, <2>2, FailRefines
<1>2. ASSUME NEW k \in Call, IpcTimeout(k) PROVE Contract!Next
  <2>1. Open(k) /\ answer' = Told({k}, "error") /\ UNCHANGED <<at, runs>>
    BY <1>2 DEF IpcTimeout
  <2>2. QED
    BY <2>1, OneFailRefines
<1>3. ASSUME NEW k \in Call, ConnectFails(k) PROVE Contract!Next
  <2>1. {c \in Call : at'[c] # "idle"} = {c \in Call : at[c] # "idle"}
    BY <1>3 DEF ConnectFails
  <2>2. Open(k) /\ answer' = Told({k}, "error") /\ UNCHANGED runs
    BY <1>3 DEF ConnectFails
  <2>3. QED
    BY <2>1, <2>2, OneFailRefines
<1>4. QED
  BY <1>1, <1>2, <1>3

(* What happens to a call between its execution and its answer.               *)
LEMMA CallIsQuiet ==
    ASSUME IInv, NEW k \in Call,
           \/ HookRead(k) \/ HostReceives(k) \/ SendFlushed(k) \/ SendFails(k)
           \/ CompleteFlushed(k) \/ CompleteFails(k) \/ CallTimeout(k)
           \/ ToolDone(k) \/ ResultArrives(k)
    PROVE  UNCHANGED Contract!vars
<1>1. UNCHANGED <<runs, answer>>
  BY DEF HookRead, HostReceives, SendFlushed, SendFails, CompleteFlushed,
         CompleteFails, CallTimeout, ToolDone, ResultArrives
<1>2. UNCHANGED at \/ \E stage \in {"sending", "waiting", "completing", "over"} :
                         At(k, stage) /\ at[k] # "idle"
  BY DEF HookRead, HostReceives, Execute, SendFlushed, SendFails, Complete,
         CompleteFlushed, CompleteFails, CallTimeout, ToolDone, ResultArrives
<1>3. {c \in Call : at'[c] # "idle"} = {c \in Call : at[c] # "idle"}
  BY <1>2
<1>4. QED
  BY <1>1, <1>3, QuietRefines

(* The end of the session settles calls; nobody is answered by it yet.        *)
LEMMA SessionIsQuiet ==
    ASSUME IInv,
           \/ CloseSession \/ ChildExits \/ ExitSent \/ Disconnect \/ DisconnectHandled
    PROVE  UNCHANGED Contract!vars
<1>1. UNCHANGED <<runs, answer>>
  BY DEF CloseSession, ChildExits, ExitSent, Disconnect, DisconnectHandled
<1>2. \A c \in Call : at'[c] # "idle" <=> at[c] # "idle"
  BY DEF CloseSession, ChildExits, ExitSent, Disconnect, DisconnectHandled, Close
<1>3. QED
  BY <1>1, <1>2, QuietRefines

(* A tool runs at most once, and a caller gets a result only of that run.     *)
THEOREM CallsKeepTheContract == Spec => ContractSpec
<1>1. IInv /\ [Next]_vars => [Contract!Next]_Contract!vars
  <2>1. IInv /\ UNCHANGED vars => UNCHANGED Contract!vars
    BY QuietRefines DEF vars
  <2>2. IInv /\ Next => Contract!Next \/ UNCHANGED Contract!vars
    BY AskRefines, RunRefines, AnswerRefines, FailuresRefine, CallIsQuiet,
       SessionIsQuiet
       DEF Next, ServerStep
  <2>3. QED
    BY <2>1, <2>2
<1>2. QED
  BY <1>1, InitRefines, CallsAreSound, PTL DEF Spec, ContractSpec, Contract!Spec
=============================================================================
