---------------------------- MODULE MCLockfiles ----------------------------
(* Model-checking instance of Lockfiles: names of processes, attachments,
   PIDs and ports are interchangeable. *)
EXTENDS Lockfiles, TLC

Symmetry ==
    Permutations(Editor) \cup Permutations(Att) \cup Permutations(Pid) \cup Permutations(Port)
=============================================================================
