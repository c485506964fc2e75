---------------------------- MODULE MCCycleOnline ----------------------------
(* CycleMachine online, with the programs and the inputs of Programs. *)
EXTENDS CycleOnline, Programs
=============================================================================
