--------------------------- MODULE MCRemoteClient ---------------------------
(***************************************************************************)
(* RemoteClient for TLC: two calls that may collide on one request id,     *)
(* channels of one place and three events.                                 *)
(***************************************************************************)
EXTENDS RemoteClient
=============================================================================
