--------------------------- MODULE MCCycleMachine ---------------------------
(* CycleMachine in batch, with the programs and the inputs of Programs. *)
EXTENDS CycleProperties, Programs
=============================================================================
