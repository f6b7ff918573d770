---------------------------- MODULE CoupledEpisode ----------------------------
(***************************************************************************)
(* CoupledEpisodeRunner (runner/coupled_episode.py): several environments   *)
(* advanced by one clock, coupled by a CascadeBus.                          *)
(*                                                                         *)
(* A joint step advances the participants that are not done one after the   *)
(* other, in a fixed order, inside a delivery batch, and then delivers what *)
(* they published.  A participant that receives an event applies it in its  *)
(* next step.  One that raises ends the joint step where it is: the batch   *)
(* is still delivered, and nothing of the step is accounted for.            *)
(***************************************************************************)
EXTENDS CascadeBus

CONSTANTS Order,      \* the participants, in the order of their names
          Audit,      \* the runner's own subscription
          MaxCalls,   \* max_tool_calls of the budget
          MaxCost,    \* max_cost_units of the budget
          MaxTick,    \* bound: ticks of a participant
          MaxEvents   \* bound: published events

Participants == {Order[i] : i \in DOMAIN Order}

ASSUME CoupledAssumption ==
  /\ Order \in Seq(Participants) /\ Len(Order) >= 2 /\ Audit \notin Participants
  /\ Callers = Participants \cup {Audit}
  /\ {MaxCalls, MaxCost, MaxTick, MaxEvents} \subseteq Nat

VARIABLES step,      \* the joint step: where it is and what it has gathered
          tick,      \* each environment's own clock
          master,    \* _master_tick
          done,      \* _done_by_participant
          failed,    \* _failed
          used,      \* the joint budget that is spent
          report,    \* _cascade_deliveries, as the numbers of the events
          fresh,     \* the events published since this joint step began
          applied,   \* the events each environment has applied ...
          early,     \* ... and whether one was applied in the joint step it comes from
          raised     \* whether a participant has raised

runner == <<step, tick, master, done, failed, used, report, fresh, applied, early, raised>>
vars == <<bus, runner>>

TypeOK ==
  /\ BusTypeOK
  /\ step \in [at: {"idle", "advance", "flush", "raising", "unwind"},
              todo: SUBSET Participants, active: SUBSET Participants,
              calls: Nat, cost: Nat, seen: Nat]
  /\ tick \in [Participants -> Nat] /\ master \in Nat
  /\ done \subseteq Participants
  /\ failed \in BOOLEAN /\ early \in BOOLEAN /\ raised \in BOOLEAN
  /\ used \in [calls: 0..MaxCalls, cost: 0..MaxCost]
  /\ report \in Seq(1..published) /\ fresh \subseteq 1..published
  /\ applied \in [Participants -> SUBSET (1..published)]

Active == Participants \ done

Idle == [at |-> "idle", todo |-> {}, active |-> {}, calls |-> 0, cost |-> 0, seen |-> 0]

Init ==
  /\ BusInit
  /\ step = Idle
  /\ tick = [p \in Participants |-> 0] /\ master = 0 /\ done = {} /\ failed = FALSE
  /\ used = [calls |-> 0, cost |-> 0]
  /\ report = <<>> /\ fresh = {}
  /\ applied = [p \in Participants |-> {}] /\ early = FALSE /\ raised = FALSE

(* step, up to the first participant: budgets and clocks are looked at      *)
(* before anything moves.                                                   *)
Drifted == \E p \in Active : tick[p] # master

Begin(calls, cost) ==
  /\ step.at = "idle" /\ ~failed /\ Active # {}
  /\ used.calls + calls <= MaxCalls /\ used.cost + cost <= MaxCost
  /\ IF Drifted
     THEN /\ failed' = TRUE
          /\ UNCHANGED <<bus, step, fresh>>
     ELSE /\ step' = [at |-> "advance", todo |-> Active, active |-> Active,
                      calls |-> calls, cost |-> 0, seen |-> Len(got[Audit])]
          /\ BeginBatch
          /\ fresh' = {}
          /\ UNCHANGED failed
  /\ UNCHANGED <<tick, master, done, used, report, applied, early, raised>>

(* The first, in their order, of those that have not been advanced yet. *)
InTurn(p) ==
  /\ step.at = "advance" /\ p \in step.todo
  /\ \E i \in DOMAIN Order :
       Order[i] = p /\ \A k \in 1..(i - 1) : Order[k] \notin step.todo

(* What a participant has received and not applied yet. *)
Owed(p) == {got[p][i] : i \in DOMAIN got[p]} \ applied[p]

Apply(p) ==
  /\ applied' = [applied EXCEPT ![p] = @ \cup Owed(p)]
  /\ early' = (early \/ Owed(p) \cap fresh # {})

(* An environment publishes in its step. *)
Announces(news) ==
  IF news
  THEN /\ published < MaxEvents
       /\ Publish /\ fresh' = fresh \cup {published + 1}
  ELSE UNCHANGED <<bus, fresh>>

(* One environment's step: its clock goes on, or by a fault does not.       *)
Advance(p, news, ends, moves, cost) ==
  /\ InTurn(p) /\ tick[p] < MaxTick
  /\ Apply(p)
  /\ Announces(news)
  /\ tick' = IF moves THEN [tick EXCEPT ![p] = @ + 1] ELSE tick
  /\ done' = IF ends THEN done \cup {p} ELSE done
  /\ step' = [step EXCEPT !.todo = @ \ {p}, !.cost = @ + cost]
  /\ UNCHANGED <<master, failed, used, report, raised>>

(* An environment's step that raises, before or after its clock went on.    *)
Raise(p, news, moves) ==
  /\ InTurn(p) /\ tick[p] < MaxTick
  /\ Apply(p)
  /\ Announces(news)
  /\ tick' = IF moves THEN [tick EXCEPT ![p] = @ + 1] ELSE tick
  /\ step' = [step EXCEPT !.at = "raising"]
  /\ raised' = TRUE
  /\ UNCHANGED <<master, done, failed, used, report>>

(* The batch is closed on either way out. *)
CloseBatch ==
  /\ \/ step.at = "advance" /\ step.todo = {} /\ step' = [step EXCEPT !.at = "flush"]
     \/ step.at = "raising" /\ step' = [step EXCEPT !.at = "unwind"]
  /\ EndBatch
  /\ UNCHANGED <<tick, master, done, failed, used, report, fresh, applied, early, raised>>

(* Callbacks run on the stack of whoever publishes or closes the batch.     *)
Deliver ==
  /\ \/ (NextOfBatch \/ Callback \/ Delivered) /\ UNCHANGED fresh
     \/ /\ published < MaxEvents /\ CallbackPublishes
        /\ fresh' = fresh \cup {published + 1}
  /\ UNCHANGED <<step, tick, master, done, failed, used, report, applied, early, raised>>

(* The exception reaches the caller. *)
Unwind ==
  /\ step.at = "unwind" /\ Quiet
  /\ step' = Idle
  /\ UNCHANGED <<bus, tick, master, done, failed, used, report, fresh, applied, early, raised>>

\* mutant: the clocks are not looked at afterwards
AccountUnaligned ==
  /\ step.at = "flush" /\ Quiet
  /\ report' = report \o SubSeq(got[Audit], step.seen + 1, Len(got[Audit]))
  /\ IF used.cost + step.cost > MaxCost
     THEN failed' = TRUE /\ UNCHANGED <<master, used>>
     ELSE /\ master' = master + 1
          /\ used' = [calls |-> used.calls + step.calls, cost |-> used.cost + step.cost]
          /\ UNCHANGED failed
  /\ step' = Idle
  /\ UNCHANGED <<bus, tick, done, fresh, applied, early, raised>>

\* mutant: what the audit subscription received is recorded from the start
AccountTwice ==
  /\ step.at = "flush" /\ Quiet
  /\ report' = report \o got[Audit]
  /\ master' = master + 1
  /\ used' = [calls |-> used.calls + step.calls, cost |-> used.cost]
  /\ step' = Idle
  /\ UNCHANGED <<bus, tick, done, failed, fresh, applied, early, raised>>

(* step, after the barrier: the deliveries are recorded, then the clocks and *)
(* the cost that was really charged are looked at, and then the step counts. *)
Account ==
  /\ step.at = "flush" /\ Quiet
  /\ report' = report \o SubSeq(got[Audit], step.seen + 1, Len(got[Audit]))
  /\ IF (\E p \in step.active : tick[p] # master + 1) \/ used.cost + step.cost > MaxCost
     THEN failed' = TRUE /\ UNCHANGED <<master, used>>
     ELSE /\ master' = master + 1
          /\ used' = [calls |-> used.calls + step.calls, cost |-> used.cost + step.cost]
          /\ UNCHANGED failed
  /\ step' = Idle
  /\ UNCHANGED <<bus, tick, done, fresh, applied, early, raised>>

Next ==
  \/ \E calls \in 0..1, cost \in 0..1 : Begin(calls, cost)
  \/ \E p \in Participants, news, ends, moves \in BOOLEAN, cost \in 0..1 :
       Advance(p, news, ends, moves, cost)
  \/ \E p \in Participants, news, moves \in BOOLEAN : Raise(p, news, moves)
  \/ CloseBatch \/ Deliver \/ Unwind \/ Account

Spec == Init /\ [][Next]_vars

----------------------------------------------------------------------------
(* A cascade takes one tick, whatever the order of the participants: no      *)
(* environment applies, in the joint step in which it was published, an event *)
(* of another one that happened to be advanced before it.                       *)
NeverEarly == ~early

(* A joint step that counts has moved every participant that was not done by *)
(* exactly one tick, to the common clock, also when an earlier step raised   *)
(* half way and left the clocks apart.                                       *)
LockStep ==
  [][master' > master =>
       /\ \A p \in step.active : tick[p] = master'
       /\ \A p \in done' : tick[p] <= master']_vars

(* The report of an episode in which nobody raised shows every event once,   *)
(* in the order in which the runner's subscription received them; one in     *)
(* which a participant raised shows no event that was not delivered.         *)
ReportIsExact ==
  /\ step.at = "idle" /\ ~raised => report = got[Audit]
  /\ \A i, j \in DOMAIN report : report[i] = report[j] => i = j
=============================================================================
