-------------------------- MODULE MCCycleRefinement -------------------------
(* The programs and sources of Programs, for CycleRefinement. *)
EXTENDS CycleRefinement, Programs
=============================================================================
