--------------------------- MODULE MCTurnDriver ---------------------------
(* Two provider turns and the observations between them. *)
EXTENDS TurnDriver

CONSTANTS t1, t2, o1

MCTurns == {t1, t2}
MCObservations == {o1}
===========================================================================
