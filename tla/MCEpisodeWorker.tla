--------------------------- MODULE MCEpisodeWorker ---------------------------
(* An instance of the coordinator with its workers for TLC.                  *)
EXTENDS EpisodeWorker
=============================================================================
