-------------------------- MODULE ToolCallContract --------------------------
(* What a caller may rely on when it calls a tool of the client: the tool     *)
(* runs once or not at all; a result is that of the run; an error leaves open *)
(* whether the tool has run, or will.                                         *)
EXTENDS Naturals

CONSTANT Call

VARIABLES asked,            \* calls that were made
          runs,             \* how often the client has run each call
          answer            \* what the caller was told

vars == <<asked, runs, answer>>

Init ==
    /\ asked = {}
    /\ runs = [k \in Call |-> 0]
    /\ answer = [k \in Call |-> "none"]

Ask(k) ==
    /\ k \notin asked
    /\ asked' = asked \cup {k}
    /\ UNCHANGED <<runs, answer>>

Run(k) ==
    /\ k \in asked
    /\ runs[k] = 0
    /\ runs' = [runs EXCEPT ![k] = 1]
    /\ UNCHANGED <<asked, answer>>

Succeed(k) ==
    /\ runs[k] = 1
    /\ answer[k] = "none"
    /\ answer' = [answer EXCEPT ![k] = "result"]
    /\ UNCHANGED <<asked, runs>>

(* Calls may fail together: a session ends for all of them.                   *)
Fail(K) ==
    /\ \A k \in K : k \in asked /\ answer[k] = "none"
    /\ answer' = [k \in Call |-> IF k \in K THEN "error" ELSE answer[k]]
    /\ UNCHANGED <<asked, runs>>

Next == \/ \E k \in Call : Ask(k) \/ Run(k) \/ Succeed(k)
        \/ \E K \in SUBSET Call : Fail(K)

Spec == Init /\ [][Next]_vars
=============================================================================
