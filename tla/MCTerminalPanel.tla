--------------------------- MODULE MCTerminalPanel ---------------------------
(* Model-checking instance of TerminalPanel. *)
EXTENDS TerminalPanel
=============================================================================
