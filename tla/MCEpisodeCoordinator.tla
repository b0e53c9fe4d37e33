------------------------ MODULE MCEpisodeCoordinator ------------------------
(* Instances of the coordinator for TLC; sizes and bounds are in the .cfg's. *)
EXTENDS EpisodeCoordinator, TLC

Symmetry ==
  Permutations(Workers) \cup Permutations(Episodes) \cup Permutations(Runners)
    \cup Permutations(Requests)
=============================================================================
