----------------------------- MODULE MCAgentRun -----------------------------
(***************************************************************************)
(* Values for AgentRun: the loop and one dispatch beside it.               *)
(***************************************************************************)
EXTENDS AgentRun, TLC

CONSTANTS w1, t1, t2, t3

MCWorker == {w1}
MCThread == {t1, t2, t3}
Symmetry == Permutations(MCThread)
=============================================================================
