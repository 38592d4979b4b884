-------------------------- MODULE MCCopilotToolLoop --------------------------
(* Model-checking instance of CopilotToolLoop. *)
EXTENDS CopilotToolLoop
=============================================================================
