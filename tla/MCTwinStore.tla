----------------------------- MODULE MCTwinStore -----------------------------
(* One branch that changes, and one that is forked from it and only stays.   *)
EXTENDS TwinStore, TLC

CONSTANTS main, b1

MCMaxHead == [b \in Branches |-> IF b = main THEN 5 ELSE 0]

Symmetry == Permutations(Actions) \cup Permutations(EventIds \ Actions)
=============================================================================
