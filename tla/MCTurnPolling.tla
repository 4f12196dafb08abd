--------------------------- MODULE MCTurnPolling ---------------------------
(* Small instances of TurnPolling for TLC; see the .cfg files.             *)
EXTENDS TurnPolling
=============================================================================
