----------------------------- MODULE MCDispatch -----------------------------
(***************************************************************************)
(* Values for Dispatch: two calls of dispatch with the same key, for the   *)
(* analyst, and the server with one event, a summary of the analyst.       *)
(***************************************************************************)
EXTENDS Dispatch, TLC

CONSTANTS w1, w2, analyse, summary

MCWorker == {w1, w2}
MCProc == {w1, w2, Server}
MCKey == {analyse}
MCWorkerAgent == [k \in MCKey |-> Analyst]
MCAgent == {Analyst, Orchestrator}
MCEvent == {summary}
MCSummaries == {summary}

Symmetry == Permutations(MCWorker)
=============================================================================
