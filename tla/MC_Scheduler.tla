---------------------------- MODULE MC_Scheduler ----------------------------
(* Scheduler with the bounds of the .cfg files *)
EXTENDS Scheduler
=============================================================================
