------------------------- MODULE MCHostConversation -------------------------
(***************************************************************************)
(* HostConversation for TLC: interchangeable taskpool threads and approval *)
(* requests.                                                               *)
(***************************************************************************)
EXTENDS HostConversation, TLC

Symmetry == Permutations(Workers) \cup Permutations(Approvals)
=============================================================================
