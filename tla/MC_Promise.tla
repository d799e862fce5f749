----------------------------- MODULE MC_Promise -----------------------------
(* Promise with the bounds of the .cfg files *)
EXTENDS Promise
=============================================================================
