----------------------------- MODULE Dictionary -----------------------------
(***************************************************************************)
(* What a Map or a Set promises its user: a finite function from keys to   *)
(* values that each call changes at one key at most, or empties.           *)
(***************************************************************************)
EXTENDS Functions

CONSTANTS Keys, Values

VARIABLE dict

Init == dict = [k \in {} |-> 0]

(* The new value of one key; every other key keeps its own. *)
Put(k, v) ==
    dict' = [x \in DOMAIN dict \cup {k} |-> IF x = k THEN v ELSE dict[x]]

Remove(k) == dict' = Restrict(dict, DOMAIN dict \ {k})

Empty == dict' = [k \in {} |-> 0]

Next ==
    \/ \E k \in Keys : Remove(k) \/ \E v \in Values : Put(k, v)
    \/ Empty

Spec == Init /\ [][Next]_dict
=============================================================================
