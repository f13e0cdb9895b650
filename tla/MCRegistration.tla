--------------------------- MODULE MCRegistration ---------------------------
(***************************************************************************)
(* Values for Registration: two repositories and two handlers.             *)
(***************************************************************************)
EXTENDS Registration, TLC

CONSTANTS r1, r2, h1, h2

MCRepo == {r1, r2}
MCHandler == {h1, h2}
Symmetry == Permutations(MCRepo) \cup Permutations(MCHandler)
=============================================================================
