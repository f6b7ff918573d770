---------------------------- MODULE MCRequestLimiter ----------------------------
(* Small scopes of RequestLimiter: every process with the same limits, and     *)
(* two processes of one account with different requests per minute.            *)
EXTENDS RequestLimiter, TLC

CONSTANTS c1, c2

TwoPerWindow   == [c \in {c1, c2} |-> 2]
ThreePerDay    == [c \in {c1, c2} |-> 3]
NoDailyLimit   == [c \in {c1, c2} |-> 0]
OneAndThree    == (c1 :> 1) @@ (c2 :> 3)

Symmetry == Permutations(Callers)
=============================================================================
