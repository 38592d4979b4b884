--------------------------- MODULE MCRemoteChannel ---------------------------
(* Model-checking instance of RemoteChannel. *)
EXTENDS RemoteChannel
=============================================================================
