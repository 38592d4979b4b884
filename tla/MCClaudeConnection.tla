-------------------------- MODULE MCClaudeConnection --------------------------
(* Model-checking instance of ClaudeConnection.  The names of panes, requests
   and connections are interchangeable. *)
EXTENDS ClaudeConnection, TLC

Symmetry == Permutations(Pane) \cup Permutations(Request) \cup Permutations(Conn)
=============================================================================
