--------------------------- MODULE TurnTransactions ---------------------------
(***************************************************************************)
(* What a turn driver promises the coordinator of a real-time episode.      *)
(*                                                                         *)
(* Provider turns and observations go through one line, served in order and *)
(* one at a time.  A turn is a transaction on the agent's behavioural       *)
(* memory: what it wrote stays if it is committed and is taken out, alone,  *)
(* if it is undone.  A turn that never began leaves nothing to undo.        *)
(***************************************************************************)
EXTENDS Naturals, Sequences

CONSTANTS Turns,         \* provider turns
          Observations   \* observations given to the agent between turns

VARIABLES line,     \* the work that has not begun, in order, canceled turns included
          phase,    \* how far each turn is
          memory    \* whose writes the agent's behavioural state contains

driverVars == <<line, phase, memory>>

Phases == {"unused", "queued", "canceled", "running", "acted", "committed", "undone"}

(* The turns that may still write, or whose writes may still be taken out. *)
Open == {t \in Turns : phase[t] \in {"queued", "running", "acted"}}

TypeOK ==
  /\ line \in Seq(Turns \cup Observations)
  /\ phase \in [Turns -> Phases]
  /\ memory \subseteq Turns \cup Observations

Init ==
  /\ line = <<>>
  /\ phase = [t \in Turns |-> "unused"]
  /\ memory = {}

Start(t) ==
  /\ phase[t] = "unused"
  /\ phase' = [phase EXCEPT ![t] = "queued"]
  /\ line' = Append(line, t)
  /\ UNCHANGED memory

Ingest(o) ==
  /\ line' = Append(line, o)
  /\ UNCHANGED <<phase, memory>>

(* The worker takes the next turn. *)
Begin(t) ==
  /\ line # <<>> /\ Head(line) = t /\ phase[t] = "queued"
  /\ \A u \in Turns : phase[u] # "running"
  /\ phase' = [phase EXCEPT ![t] = "running"]
  /\ line' = Tail(line)
  /\ UNCHANGED memory

(* The agent changes its memory. *)
Write(t) ==
  /\ phase[t] = "running"
  /\ memory' = memory \cup {t}
  /\ UNCHANGED <<line, phase>>

(* The agent has answered, or failed. *)
Act(t) ==
  /\ phase[t] = "running"
  /\ phase' = [phase EXCEPT ![t] = "acted"]
  /\ memory' \in {memory, memory \cup {t}}
  /\ UNCHANGED line

Commit(t) ==
  /\ phase[t] = "acted"
  /\ phase' = [phase EXCEPT ![t] = "committed"]
  /\ UNCHANGED <<line, memory>>

(* A turn is undone: after it acted, or before it did anything. *)
Undo(t) ==
  /\ phase[t] \in {"running", "acted"}
  /\ phase' = [phase EXCEPT ![t] = "undone"]
  /\ memory' = memory \ {t}
  /\ UNCHANGED line

(* A turn that has not begun is withdrawn; its place in the line is passed  *)
(* over when it comes to the head.                                          *)
Cancel(t) ==
  /\ phase[t] = "queued"
  /\ phase' = [phase EXCEPT ![t] = "canceled"]
  /\ UNCHANGED <<line, memory>>

PassOver(t) ==
  /\ line # <<>> /\ Head(line) = t /\ phase[t] = "canceled"
  /\ line' = Tail(line)
  /\ UNCHANGED <<phase, memory>>

(* At shutdown the line is cut: what is behind the cut is withdrawn. *)
Cut(n) ==
  /\ line' = SubSeq(line, 1, n)
  /\ phase' = [t \in Turns |->
                 IF phase[t] = "queued" /\ \E i \in (n + 1)..Len(line) : line[i] = t
                 THEN "canceled" ELSE phase[t]]
  /\ UNCHANGED memory

(* The worker takes in the next observation, or fails to. *)
Absorb(o) ==
  /\ line # <<>> /\ Head(line) = o
  /\ line' = Tail(line)
  /\ memory' \in {memory, memory \cup {o}}
  /\ UNCHANGED phase

Next ==
  \/ \E t \in Turns : Start(t) \/ Begin(t) \/ Write(t) \/ Act(t) \/ Commit(t) \/ Undo(t)
                      \/ Cancel(t) \/ PassOver(t)
  \/ \E o \in Observations : Ingest(o) \/ Absorb(o)
  \/ \E n \in 0..Len(line) : Cut(n)

Spec == Init /\ [][Next]_driverVars
=============================================================================
