--------------------------- MODULE MC_LockFreeQueue ---------------------------
(* Instances of LockFreeQueue for TLC; the .cfg files give the constants.  *)
EXTENDS LockFreeQueue, TLC

Symmetry == Permutations(Producers) \cup Permutations(Items)
=============================================================================
