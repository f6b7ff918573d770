---------------------------- MODULE ActionLifecycle ----------------------------
(***************************************************************************)
(* What the real-time actor promises about each submitted action, without   *)
(* versions, ticks, queues or threads: the order of the lifecycle records   *)
(* queued, accepted, pending and the one terminal receipt.                  *)
(*                                                                         *)
(* An action is queued at most once, reaches the environment only by being  *)
(* accepted, is accepted alone, waits for delayed results only after it was *)
(* accepted, and once it is closed nothing more is ever said of it.         *)
(***************************************************************************)
EXTENDS Naturals, FiniteSets

CONSTANT Actions

VARIABLE stage

Stages == {"unknown", "queued", "accepted", "pending", "closed"}

TypeOK == stage \in [Actions -> Stages]

Init == stage = [a \in Actions |-> "unknown"]

In(s)  == {a \in Actions : stage[a] = s}

\* closing any of the open actions, as one step of one of the operations below
Closing(S) == S \subseteq In("queued") \cup In("pending")

(* A submission is queued, or refused and closed at once.                  *)
Submit(a) ==
  /\ stage[a] = "unknown"
  /\ \E s \in {"queued", "closed"} : stage' = [stage EXCEPT ![a] = s]

(* One queued action is accepted while no other is; the work it replaces   *)
(* and its competitors close with it.                                      *)
Accept(a, S) ==
  /\ stage[a] = "queued" /\ In("accepted") = {}
  /\ Closing(S) /\ a \notin S
  /\ stage' = [b \in Actions |-> IF b = a THEN "accepted"
                                 ELSE IF b \in S THEN "closed" ELSE stage[b]]

(* The environment has answered the accepted action: it is closed, or      *)
(* pending on delayed results; earlier pending actions may close.          *)
Answer(a, s, S) ==
  /\ stage[a] = "accepted" /\ s \in {"pending", "closed"}
  /\ Closing(S)
  /\ stage' = [b \in Actions |-> IF b = a THEN s
                                 ELSE IF b \in S THEN "closed" ELSE stage[b]]

(* Actions are closed without being executed further.                      *)
Withdraw(S) ==
  /\ Closing(S)
  /\ stage' = [b \in Actions |-> IF b \in S THEN "closed" ELSE stage[b]]

Next ==
  \/ \E a \in Actions : Submit(a)
  \/ \E a \in Actions, S \in SUBSET Actions : Accept(a, S)
  \/ \E a \in Actions, s \in {"pending", "closed"}, S \in SUBSET Actions :
       Answer(a, s, S)
  \/ \E S \in SUBSET Actions : Withdraw(S)

Spec == Init /\ [][Next]_stage

(* Every queued action is closed in the end.                               *)
EveryActionCloses == \A a \in Actions : stage[a] = "queued" ~> stage[a] = "closed"
=============================================================================
