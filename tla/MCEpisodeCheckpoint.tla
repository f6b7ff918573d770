-------------------------- MODULE MCEpisodeCheckpoint --------------------------
(* Values for TLC: the processes that attempt the cell are interchangeable. *)
EXTENDS EpisodeCheckpoint, TLC

Symmetry == Permutations(Workers)
=============================================================================
