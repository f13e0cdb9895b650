------------------------------- MODULE MCTui -------------------------------
(***************************************************************************)
(* Values for Tui: two issues, and a text cap of four bytes where a        *)
(* character takes one or three.                                           *)
(***************************************************************************)
EXTENDS Tui

CONSTANTS a, b, approve

MCDecision == {approve}
MCRequest == {a, b}
MCNumber == [r \in MCRequest |-> IF r = b THEN 2 ELSE 1]
MCRunning == <<0, 2, 0>>
MCPublished == {<<0, 1, 9>>, <<0, 2, 0>>, <<0, 2, 1>>}
=============================================================================
