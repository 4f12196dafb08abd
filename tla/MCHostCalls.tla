---------------------------- MODULE MCHostCalls ----------------------------
(***************************************************************************)
(* The calls into the host under fairness, on small instances for TLC:     *)
(* those that start it and those of a conversation.  They share nothing    *)
(* (a conversation connects by address, and a server that is not there is  *)
(* one that does not answer), so each behaviour exercises one kind.        *)
(***************************************************************************)
EXTENDS HostConversation, HostLifecycle

VARIABLE subject

HostCallsInit == Init /\ LifecycleInit /\ subject \in {"conversation", "starts"}

HostCallsNext ==
  /\ \/ subject = "conversation" /\ Next /\ UNCHANGED lifecycleVars
     \/ subject = "starts" /\ LifecycleNext /\ UNCHANGED vars
  /\ UNCHANGED subject

\* The kind that is not exercised stays in its initial state, where no fair action is enabled.
HostCallsSpec ==
  /\ HostCallsInit /\ [][HostCallsNext]_<<vars, lifecycleVars, subject>>
  /\ Fairness
  /\ \A s \in Starts : WF_lifecycleVars(Caller(s))
=============================================================================
