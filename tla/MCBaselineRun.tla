---- MODULE MCBaselineRun ----
(* Two entries: four trials in two shards, the boundary between the shards   *)
(* inside the second pair.                                                   *)
EXTENDS BaselineRun, TLC
E(d, r) == [domain |-> d, required |-> r]
MCEntry == <<E("d1", TRUE), E("d1", FALSE)>>
MCFloors == [d \in {"d1"} |-> 50]
MCGrades == {[success |-> TRUE, policy |-> 0, effects |-> 0],
             [success |-> FALSE, policy |-> 1, effects |-> 0]}
Symmetry == Permutations(Runners)
====
