---------------------------- MODULE MCEvalCampaign ----------------------------
(* Symmetry for TLC: the cells of EvalCampaign are alike.                   *)
EXTENDS EvalCampaign, TLC

CONSTANTS c1, c2
Symmetry == Permutations(Cells)
=============================================================================
