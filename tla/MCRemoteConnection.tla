------------------------- MODULE MCRemoteConnection -------------------------
(* Model-checking instance of RemoteConnection. *)
EXTENDS RemoteConnection
=============================================================================
