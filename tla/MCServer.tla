------------------------------ MODULE MCServer ------------------------------
(***************************************************************************)
(* Values for Server: two repositories compete for one slot, with two pids *)
(* that come back.                                                         *)
(***************************************************************************)
EXTENDS Server, TLC

Symmetry == Permutations(Repo) \cup Permutations(Pid)
=============================================================================
