----------------------------- MODULE MCEventPages -----------------------------
(* Two branches, two TwinSpecs, a client that lists and previews.            *)
EXTENDS EventPages

MCMaxHead == [b \in Branches |-> 2]

Symmetry ==
  Permutations(Actions) \cup Permutations(EventIds \ Actions)
    \cup Permutations(Branches) \cup Permutations(Specs)
=============================================================================
