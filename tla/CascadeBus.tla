------------------------------ MODULE CascadeBus ------------------------------
(***************************************************************************)
(* CascadeBus (core/cascade_bus.py): the in-process bus by which an event   *)
(* in one domain reaches the others.  Callbacks run on the publisher's      *)
(* stack, one subscriber after the other; during a delivery batch events    *)
(* are held back until the batch that was opened first is closed.           *)
(*                                                                         *)
(* An event is its number in the history.  Topics are left out: every       *)
(* subscriber here takes every event.                                       *)
(***************************************************************************)
EXTENDS Naturals, Sequences, FiniteSets

CONSTANT Subscribers   \* in the order in which they subscribed, a sequence

ASSUME SubscribersAssumption ==
  /\ Subscribers \in Seq({Subscribers[i] : i \in DOMAIN Subscribers})
  /\ \A i, j \in DOMAIN Subscribers : Subscribers[i] = Subscribers[j] => i = j

VARIABLES published,   \* the length of the history
          depth,       \* _delivery_batch_depth
          pending,     \* _pending_delivery
          flushing,    \* the events of a closed batch that are yet to be delivered
          stack,       \* the deliveries in progress, the innermost last
          got,         \* what each subscriber has received, in order
          dropped      \* deliveries whose callback raised: failed_deliveries

bus == <<published, depth, pending, flushing, stack, got, dropped>>

Callers == {Subscribers[i] : i \in DOMAIN Subscribers}

BusTypeOK ==
  /\ published \in Nat /\ depth \in Nat
  /\ pending \in Seq(1..published) /\ flushing \in Seq(1..published)
  /\ stack \in Seq([event: 1..published, next: 1..(Len(Subscribers) + 1)])
  /\ got \in [Callers -> Seq(1..published)]
  /\ dropped \subseteq (1..published) \X Callers

BusInit ==
  /\ published = 0 /\ depth = 0 /\ pending = <<>> /\ flushing = <<>> /\ stack = <<>>
  /\ got = [s \in Callers |-> <<>>] /\ dropped = {}

Delivery(e) == [event |-> e, next |-> 1]
Top == stack[Len(stack)]
Advanced == [stack EXCEPT ![Len(stack)] = [Top EXCEPT !.next = @ + 1]]

Quiet == stack = <<>> /\ flushing = <<>>

\* mutant: a batch holds nothing back
PublishThrough ==
  /\ published' = published + 1
  /\ stack' = Append(stack, Delivery(published + 1))
  /\ UNCHANGED <<depth, pending, flushing, got, dropped>>

(* publish *)
Publish ==
  /\ published' = published + 1
  /\ IF depth > 0
     THEN pending' = Append(pending, published + 1) /\ UNCHANGED stack
     ELSE stack' = Append(stack, Delivery(published + 1)) /\ UNCHANGED pending
  /\ UNCHANGED <<depth, flushing, got, dropped>>

BeginBatch ==
  /\ depth' = depth + 1
  /\ UNCHANGED <<published, pending, flushing, stack, got, dropped>>

\* mutant: the events that were held back stay where they are
EndBatchKeeping ==
  /\ depth > 0
  /\ depth' = depth - 1
  /\ flushing' = IF depth = 1 THEN pending ELSE flushing
  /\ UNCHANGED <<published, pending, stack, got, dropped>>

EndBatch ==
  /\ depth > 0
  /\ depth' = depth - 1
  /\ IF depth = 1
     THEN flushing' = pending /\ pending' = <<>>
     ELSE UNCHANGED <<flushing, pending>>
  /\ UNCHANGED <<published, stack, got, dropped>>

(* The next event of a batch, once the one before it is delivered. *)
NextOfBatch ==
  /\ stack = <<>> /\ flushing # <<>>
  /\ stack' = <<Delivery(Head(flushing))>>
  /\ flushing' = Tail(flushing)
  /\ UNCHANGED <<published, depth, pending, got, dropped>>

(* One callback, which takes the event in, and may raise.                   *)
Callback ==
  /\ stack # <<>> /\ Top.next <= Len(Subscribers)
  /\ LET s == Subscribers[Top.next] IN
       \/ got' = [got EXCEPT ![s] = Append(@, Top.event)] /\ UNCHANGED dropped
       \/ dropped' = dropped \cup {<<Top.event, s>>} /\ UNCHANGED got
  /\ stack' = Advanced
  /\ UNCHANGED <<published, depth, pending, flushing>>

(* A callback may also publish: what it publishes is delivered at once, and *)
(* before the events of the batch that are still to come.                   *)
CallbackPublishes ==
  /\ stack # <<>> /\ Top.next <= Len(Subscribers) /\ depth = 0
  /\ LET s == Subscribers[Top.next] IN got' = [got EXCEPT ![s] = Append(@, Top.event)]
  /\ published' = published + 1
  /\ stack' = Append(Advanced, Delivery(published + 1))
  /\ UNCHANGED <<depth, pending, flushing, dropped>>

Delivered ==
  /\ stack # <<>> /\ Top.next > Len(Subscribers)
  /\ stack' = SubSeq(stack, 1, Len(stack) - 1)
  /\ UNCHANGED <<published, depth, pending, flushing, got, dropped>>

Receipts(e, s) ==
  Cardinality({i \in DOMAIN got[s] : got[s][i] = e})
    + (IF <<e, s>> \in dropped THEN 1 ELSE 0)

(* Every event reaches every subscriber once, or is counted as dropped for   *)
(* that one: also the events of a batch, of a batch in which a participant   *)
(* raised, and the events that callbacks publish meanwhile.                  *)
DeliveredOnce ==
  /\ \A e \in 1..published, s \in Callers : Receipts(e, s) <= 1
  /\ (Quiet /\ depth = 0) => \A e \in 1..published, s \in Callers : Receipts(e, s) = 1
=============================================================================
