---- MODULE MC_HashTable ----
(* Instance of HashTable for TLC: two keys that always collide, one at the *)
(* end of a table of four slots, one that is a neighbour there only.       *)
EXTENDS HashTable, TLC
CONSTANTS a, b, c, d
MCHash == a :> 3 @@ b :> 3 @@ c :> 4 @@ d :> 6
====
