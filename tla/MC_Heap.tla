---- MODULE MC_Heap ----
(* Objects are model values that may be exchanged. *)
EXTENDS Heap, TLC
Symmetry == Permutations(Objects)
====
