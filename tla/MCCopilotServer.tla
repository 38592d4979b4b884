--------------------------- MODULE MCCopilotServer ---------------------------
(* Model-checking instance of CopilotServer.  The run checks liveness too, so
   that no symmetry is used. *)
EXTENDS CopilotServer
=============================================================================
