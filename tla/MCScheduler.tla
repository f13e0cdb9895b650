---------------------------- MODULE MCScheduler ----------------------------
(***************************************************************************)
(* Values for Scheduler: one event of each kind, a clock of a few ticks    *)
(* and an interval of two.                                                 *)
(***************************************************************************)
EXTENDS Scheduler
=============================================================================
