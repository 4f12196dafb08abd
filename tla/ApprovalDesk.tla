---------------------------- MODULE ApprovalDesk ----------------------------
(***************************************************************************)
(* What the host promises about the app-server's approval requests,        *)
(* whatever the threads, locks and connections in between do: the user     *)
(* decides only on requests that were made, each decision yields at most   *)
(* one answer, and the server gets at most one answer each time it asks.   *)
(***************************************************************************)
EXTENDS Naturals

CONSTANT Approvals

VARIABLES asked,     \* how often the server asked, per request
          decided,   \* how often the user pressed a button for it
          answers    \* how many answers the host sent

vars == <<asked, decided, answers>>

Zero == [r \in Approvals |-> 0]

Init == asked = Zero /\ decided = Zero /\ answers = Zero

Ask(r) == /\ asked' = [asked EXCEPT ![r] = @ + 1]
          /\ UNCHANGED <<decided, answers>>

Decide(r) == /\ asked[r] > 0
             /\ decided' = [decided EXCEPT ![r] = @ + 1]
             /\ UNCHANGED <<asked, answers>>

Answer(r) == /\ answers[r] < asked[r]
             /\ answers[r] < decided[r]
             /\ answers' = [answers EXCEPT ![r] = @ + 1]
             /\ UNCHANGED <<asked, decided>>

Next == \E r \in Approvals : Ask(r) \/ Decide(r) \/ Answer(r)

Spec == Init /\ [][Next]_vars
=============================================================================
