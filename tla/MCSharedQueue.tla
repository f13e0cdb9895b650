--------------------------- MODULE MCSharedQueue ---------------------------
(***************************************************************************)
(* Values for SharedQueue: two events of one type from webhooks, a         *)
(* bootstrap event of the server and one of the command.                   *)
(***************************************************************************)
EXTENDS SharedQueue

CONSTANTS push1, push2, own, issue, push, virtual_bootstrap

MCEvent == {push1, push2, own, issue}
MCCommand == {issue}
MCLabel == [e \in MCEvent |-> IF e \in {push1, push2} THEN push ELSE virtual_bootstrap]
=============================================================================
