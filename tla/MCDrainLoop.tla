---------------------------- MODULE MCDrainLoop ----------------------------
(***************************************************************************)
(* Values for DrainLoop: two events of the same type that are worked on,   *)
(* and one that nobody acts on.                                            *)
(***************************************************************************)
EXTENDS DrainLoop

CONSTANTS e1, e2, e3, issues_opened, push

MCEvent == {e1, e2, e3}
MCActionable == {e1, e2}
MCLabel == [e \in MCEvent |-> IF e = e3 THEN push ELSE issues_opened]
=============================================================================
