----------------------------- MODULE MCReadGroups -----------------------------
(* Registers with every kind of neighbour: adjacent, a pair, and two holes.    *)
EXTENDS ReadGroups

MCMap == {[address |-> a, length |-> 1] : a \in {1, 2, 5, 7, 10}}
         \cup {[address |-> 3, length |-> 2], [address |-> 8, length |-> 2]}
=============================================================================
