---- MODULE MCPackRegistry ----
(* Processes and definitions of one revision.                                *)
EXTENDS PackRegistry, TLC
Symmetry == Permutations(Callers) \cup Permutations(Definitions)
====
