---------------------------- MODULE MCCoupledEpisode ----------------------------
(* Two domains, and the runner's own subscription, which is the last. *)
EXTENDS CoupledEpisode

CONSTANTS grid, town

MCOrder == <<grid, town>>
MCSubscribers == <<grid, town, Audit>>
=============================================================================
