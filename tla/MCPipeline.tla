----------------------------- MODULE MCPipeline -----------------------------
(***************************************************************************)
(* Values for Pipeline: three sub-issues in any decomposition of at most   *)
(* three, and loop limits of two and three.                                *)
(***************************************************************************)
EXTENDS Pipeline, TLC

Symmetry == Permutations(SubIssue)
=============================================================================
