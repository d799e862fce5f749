---------------------------- MODULE MC_ThreadPool ----------------------------
(* Instances of ThreadPool for TLC.  The probe orders are those of         *)
(* worker_id * 2654435761u (mod 2^32) for one, two and three workers.      *)
EXTENDS ThreadPool, TLC

Victims1 == [w \in {0} |-> <<0>>]
Victims2 == [w \in 0..1 |-> IF w = 0 THEN <<0, 1>> ELSE <<1, 0>>]
Victims3 == [w \in 0..2 |-> IF w = 0 THEN <<0, 1>> ELSE <<1, 2>>]

Symmetry == Permutations(Tasks)
=============================================================================
