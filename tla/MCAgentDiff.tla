----------------------------- MODULE MCAgentDiff -----------------------------
(* Model-checking instance of AgentDiff. *)
EXTENDS AgentDiff
=============================================================================
