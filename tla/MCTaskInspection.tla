-------------------------- MODULE MCTaskInspection --------------------------
(* Local runners, a worker and a torn reader on one Journal, for TLC.        *)
EXTENDS TaskInspection, TLC

Symmetry ==
  Permutations(Workers) \cup Permutations(Episodes) \cup Permutations(Runners)
    \cup Permutations(Requests)
=============================================================================
