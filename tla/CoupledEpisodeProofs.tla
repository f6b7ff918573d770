-------------------------- MODULE CoupledEpisodeProofs --------------------------
(***************************************************************************)
(* Proofs about CoupledEpisode and the CascadeBus under it.                  *)
(***************************************************************************)
EXTENDS CoupledEpisode, FiniteSetTheorems, TLAPS

(* The delivery of event e to subscriber s is over. *)
Reached(e, s) == <<e, s>> \in dropped \/ \E i \in DOMAIN got[s] : got[s][i] = e

Injective(f) == \A i, j \in DOMAIN f : f[i] = f[j] => i = j

(* An event is in at most one place: held back, in a batch that is being      *)
(* delivered, or in a delivery of its own ...                                *)
OnePlace ==
  /\ Injective(pending) /\ Injective(flushing)
  /\ \A i \in DOMAIN pending, j \in DOMAIN flushing : pending[i] # flushing[j]
  /\ \A i, j \in DOMAIN stack : stack[i].event = stack[j].event => i = j
  /\ \A k \in DOMAIN stack :
       /\ \A i \in DOMAIN pending : pending[i] # stack[k].event
       /\ \A i \in DOMAIN flushing : flushing[i] # stack[k].event

(* ... and has reached nobody, or those before the next one of its delivery,  *)
(* or everybody.                                                             *)
Progress ==
  /\ \A i \in DOMAIN pending, s \in Callers : ~Reached(pending[i], s)
  /\ \A i \in DOMAIN flushing, s \in Callers : ~Reached(flushing[i], s)
  /\ \A k \in DOMAIN stack, n \in DOMAIN Subscribers :
       Reached(stack[k].event, Subscribers[n]) <=> n < stack[k].next
  /\ \A e \in 1..published :
       \/ \E i \in DOMAIN pending : pending[i] = e
       \/ \E i \in DOMAIN flushing : flushing[i] = e
       \/ \E k \in DOMAIN stack : stack[k].event = e
       \/ \A s \in Callers : Reached(e, s)

OnceEach ==
  \A s \in Callers :
    /\ Injective(got[s])
    /\ \A i \in DOMAIN got[s] : <<got[s][i], s>> \notin dropped

BusInv == BusTypeOK /\ OnePlace /\ Progress /\ OnceEach

(* The batch is open while participants are advanced, and nothing is           *)
(* delivered until it is closed; the calls of a joint step were reserved.     *)
Phases ==
  /\ step.at = "idle" => depth = 0 /\ pending = <<>> /\ Quiet
  /\ step.at \in {"advance", "raising"} => depth = 1 /\ Quiet
  /\ step.at \in {"flush", "unwind"} => depth = 0 /\ pending = <<>>
  /\ step.at \in {"raising", "unwind"} => raised
  /\ step.at # "idle" => used.calls + step.calls <= MaxCalls

Inv == TypeOK /\ BusInv /\ Phases

(* Nothing of this joint step has reached an environment while one can still  *)
(* be advanced.                                                              *)
Unseen ==
  ~early /\ (step.at = "advance" =>
               \A p \in Participants : \A i \in DOMAIN got[p] : got[p][i] \notin fresh)

(* The clocks: nobody is more than one tick ahead, and those that are still    *)
(* to be advanced are at the common tick.                                    *)
Clocks ==
  /\ \A p \in Participants : tick[p] <= master + 1
  /\ step.at = "advance" => \A p \in step.todo : tick[p] = master

(* The report holds deliveries from before this joint step, all of them if      *)
(* nobody has raised.                                                        *)
Reported ==
  /\ Injective(report)
  /\ step.at = "idle" =>
       \A i \in DOMAIN report : \E j \in DOMAIN got[Audit] : report[i] = got[Audit][j]
  /\ step.at # "idle" =>
       /\ step.seen <= Len(got[Audit])
       /\ \A i \in DOMAIN report : \E j \in 1..step.seen : report[i] = got[Audit][j]
  /\ ~raised => report = IF step.at = "idle" THEN got[Audit] ELSE SubSeq(got[Audit], 1, step.seen)

-----------------------------------------------------------------------------
(* Sequences *)

LEMMA SeqGrows ==
  ASSUME NEW n \in Nat, NEW q \in Seq(1..n)
  PROVE  /\ q \in Seq(1..(n + 1)) /\ Append(q, n + 1) \in Seq(1..(n + 1))
         /\ \A i \in DOMAIN q : q[i] \in 1..n /\ q[i] # n + 1
  OBVIOUS

LEMMA AppendFacts ==
  ASSUME NEW S, NEW q \in Seq(S), NEW e \in S
  PROVE  /\ Append(q, e) \in Seq(S)
         /\ Len(Append(q, e)) = Len(q) + 1
         /\ DOMAIN Append(q, e) = 1..(Len(q) + 1) /\ DOMAIN q = 1..Len(q)
         /\ \A i \in 1..Len(q) : Append(q, e)[i] = q[i]
         /\ Append(q, e)[Len(q) + 1] = e
  OBVIOUS

LEMMA TailFacts ==
  ASSUME NEW S, NEW q \in Seq(S), q # <<>>
  PROVE  /\ Head(q) \in S /\ Head(q) = q[1] /\ Tail(q) \in Seq(S)
         /\ DOMAIN q = 1..Len(q) /\ Len(q) > 0
         /\ DOMAIN Tail(q) = 1..(Len(q) - 1)
         /\ \A i \in 1..(Len(q) - 1) : Tail(q)[i] = q[i + 1]
  OBVIOUS

Frames(n) == [event: 1..n, next: 1..(Len(Subscribers) + 1)]

LEMMA FramesGrow ==
  ASSUME NEW n \in Nat, NEW q \in Seq(Frames(n))
  PROVE  /\ q \in Seq(Frames(n + 1))
         /\ Delivery(n + 1) \in Frames(n + 1)
  <1>1. Len(Subscribers) \in Nat
    BY SubscribersAssumption
  <1>2. Frames(n) \subseteq Frames(n + 1) /\ Delivery(n + 1) \in Frames(n + 1)
    BY <1>1 DEF Frames, Delivery
  <1>3. \A i \in 1..Len(q) : q[i] \in Frames(n + 1)
    BY <1>2
  <1> QED BY <1>2, <1>3

LEMMA TopFacts ==
  ASSUME BusTypeOK, stack # <<>>
  PROVE  /\ Len(stack) \in Nat /\ Len(stack) >= 1 /\ DOMAIN stack = 1..Len(stack)
         /\ Len(stack) \in DOMAIN stack
         /\ Top \in Frames(published) /\ Top.event \in 1..published
         /\ Top.next \in 1..(Len(Subscribers) + 1)
  <1>1. stack \in Seq(Frames(published))
    BY DEF BusTypeOK, Frames
  <1>2. Len(stack) \in Nat /\ Len(stack) >= 1 /\ DOMAIN stack = 1..Len(stack)
    BY <1>1
  <1>3. Top \in Frames(published)
    BY <1>1, <1>2 DEF Top
  <1>4. Top.event \in 1..published /\ Top.next \in 1..(Len(Subscribers) + 1)
    BY <1>3 DEF Frames
  <1> QED BY <1>2, <1>3, <1>4

(* One delivery goes on by one subscriber. *)
LEMMA AdvancedFacts ==
  ASSUME BusTypeOK, stack # <<>>, Top.next <= Len(Subscribers)
  PROVE  /\ Advanced \in Seq(Frames(published)) /\ Len(Advanced) = Len(stack)
         /\ DOMAIN Advanced = DOMAIN stack
         /\ \A k \in DOMAIN stack : Advanced[k].event = stack[k].event
         /\ \A k \in DOMAIN stack : k # Len(stack) => Advanced[k].next = stack[k].next
         /\ Advanced[Len(stack)].next = Top.next + 1
  <1>1. stack \in Seq(Frames(published)) /\ Len(Subscribers) \in Nat
    BY SubscribersAssumption DEF BusTypeOK, Frames
  <1>2. Top.next + 1 \in 1..(Len(Subscribers) + 1)
    BY <1>1, TopFacts
  <1>3. [Top EXCEPT !.next = @ + 1] \in Frames(published)
    BY <1>2, TopFacts DEF Frames
  <1>4. /\ Advanced \in Seq(Frames(published)) /\ Len(Advanced) = Len(stack)
        /\ DOMAIN Advanced = DOMAIN stack
        /\ Advanced[Len(stack)] = [Top EXCEPT !.next = @ + 1]
        /\ \A k \in DOMAIN stack : k # Len(stack) => Advanced[k] = stack[k]
    BY <1>1, <1>3, TopFacts DEF Advanced
  <1>5. [Top EXCEPT !.next = @ + 1].event = Top.event /\ [Top EXCEPT !.next = @ + 1].next = Top.next + 1
    BY TopFacts DEF Frames
  <1> QED BY <1>4, <1>5 DEF Top

LEMMA PopFacts ==
  ASSUME BusTypeOK, stack # <<>>
  PROVE  LET rest == SubSeq(stack, 1, Len(stack) - 1) IN
           /\ rest \in Seq(Frames(published)) /\ DOMAIN rest = 1..(Len(stack) - 1)
           /\ \A k \in 1..(Len(stack) - 1) : rest[k] = stack[k]
  <1>1. stack \in Seq(Frames(published)) /\ Len(stack) \in Nat /\ Len(stack) >= 1
    BY TopFacts DEF BusTypeOK, Frames
  <1> QED BY <1>1

-----------------------------------------------------------------------------
(* The steps of the bus *)

LEMMA BusTypes ==
  ASSUME BusTypeOK
  PROVE  /\ published \in Nat /\ depth \in Nat
         /\ pending \in Seq(1..published) /\ flushing \in Seq(1..published)
         /\ stack \in Seq(Frames(published)) /\ got \in [Callers -> Seq(1..published)]
         /\ dropped \subseteq (1..published) \X Callers
         /\ Len(Subscribers) \in Nat /\ DOMAIN Subscribers = 1..Len(Subscribers)
         /\ \A i \in DOMAIN pending : pending[i] \in 1..published
         /\ \A i \in DOMAIN flushing : flushing[i] \in 1..published
         /\ \A k \in DOMAIN stack : stack[k].event \in 1..published
         /\ \A s \in Callers : \A i \in DOMAIN got[s] : got[s][i] \in 1..published
  <1>1. /\ published \in Nat /\ depth \in Nat
        /\ pending \in Seq(1..published) /\ flushing \in Seq(1..published)
        /\ stack \in Seq(Frames(published)) /\ got \in [Callers -> Seq(1..published)]
        /\ dropped \subseteq (1..published) \X Callers
    BY DEF BusTypeOK, Frames
  <1>2. Len(Subscribers) \in Nat /\ DOMAIN Subscribers = 1..Len(Subscribers)
    BY SubscribersAssumption
  <1>3. ASSUME NEW k \in DOMAIN stack PROVE stack[k].event \in 1..published
    <2>1. stack[k] \in Frames(published)
      BY <1>1
    <2> QED BY <2>1 DEF Frames
  <1> QED BY <1>1, <1>2, <1>3

LEMMA NotYet ==
  ASSUME BusTypeOK
  PROVE  /\ \A i \in DOMAIN pending : pending[i] # published + 1
         /\ \A i \in DOMAIN flushing : flushing[i] # published + 1
         /\ \A k \in DOMAIN stack : stack[k].event # published + 1
         /\ \A s \in Callers : ~Reached(published + 1, s)
  BY BusTypes DEF Reached

LEMMA PublishKeeps ==
  ASSUME BusInv, depth > 0, Publish
  PROVE  BusInv' /\ published' = published + 1 /\ pending' = Append(pending, published + 1)
  <1> USE DEF BusInv
  <1>1. /\ published' = published + 1 /\ pending' = Append(pending, published + 1)
        /\ UNCHANGED <<depth, flushing, stack, got, dropped>>
    BY DEF Publish
  <1>3. BusTypeOK'
    <2>1. pending' \in Seq(1..published') /\ flushing' \in Seq(1..published')
      BY <1>1, BusTypes, SeqGrows
    <2>2. stack' \in Seq(Frames(published'))
      BY <1>1, BusTypes, FramesGrow
    <2>3. got' \in [Callers -> Seq(1..published')]
      BY <1>1, BusTypes, SeqGrows
    <2>4. dropped' \subseteq (1..published') \X Callers
      BY <1>1, BusTypes
    <2> QED BY <1>1, BusTypes, <2>1, <2>2, <2>3, <2>4 DEF BusTypeOK, Frames
  <1>5. /\ DOMAIN pending = 1..Len(pending) /\ Len(pending) \in Nat
        /\ DOMAIN pending' = 1..(Len(pending) + 1)
        /\ \A i \in 1..Len(pending) : pending'[i] = pending[i]
        /\ pending'[Len(pending) + 1] = published + 1
    BY <1>1, BusTypes
  <1>6. \A e : \A s \in Callers : Reached(e, s)' <=> Reached(e, s)
    BY <1>1 DEF Reached
  <1>7. OnePlace'
    BY <1>1, NotYet, <1>5 DEF OnePlace, Injective
  <1>8. Progress'
    <2>1. \A i \in DOMAIN pending', s \in Callers : ~Reached(pending'[i], s)
      BY NotYet, <1>5 DEF Progress
    <2>2. ASSUME NEW e \in 1..published'
          PROVE  \/ \E i \in DOMAIN pending' : pending'[i] = e
                 \/ \E i \in DOMAIN flushing : flushing[i] = e
                 \/ \E k \in DOMAIN stack : stack[k].event = e
                 \/ \A s \in Callers : Reached(e, s)
      <3>1. CASE e = published + 1
        BY <3>1, <1>5
      <3>2. CASE e \in 1..published
        BY <3>2, <1>5 DEF Progress
      <3> QED BY SMTT(30), <1>1, <3>1, <3>2, BusTypes
    <2>3. (\A i \in DOMAIN pending, s \in Callers : ~Reached(pending[i], s))'
      BY <1>1, <2>1 DEF Reached
    <2>4. (\A i \in DOMAIN flushing, s \in Callers : ~Reached(flushing[i], s))'
      BY <1>1 DEF Progress, Reached
    <2>5. (\A k \in DOMAIN stack, n \in DOMAIN Subscribers :
             Reached(stack[k].event, Subscribers[n]) <=> n < stack[k].next)'
      BY <1>1 DEF Progress, Reached
    <2>6. (\A e \in 1..published :
             \/ \E i \in DOMAIN pending : pending[i] = e
             \/ \E i \in DOMAIN flushing : flushing[i] = e
             \/ \E k \in DOMAIN stack : stack[k].event = e
             \/ \A s \in Callers : Reached(e, s))'
      BY <1>1, <2>2 DEF Reached
    <2> QED BY <2>3, <2>4, <2>5, <2>6 DEF Progress
  <1>9. OnceEach'
    BY <1>1 DEF OnceEach, Injective
  <1> QED BY <1>1, <1>3, <1>7, <1>8, <1>9

LEMMA BeginBatchKeeps ==
  ASSUME BusInv, BeginBatch
  PROVE  BusInv' /\ depth' = depth + 1
  <1> USE DEF BusInv
  <1>1. depth' = depth + 1 /\ UNCHANGED <<published, pending, flushing, stack, got, dropped>>
    BY DEF BeginBatch
  <1>2. BusTypeOK'
    BY <1>1, BusTypes DEF BusTypeOK, Frames
  <1>3. OnePlace'
    BY <1>1 DEF OnePlace, Injective
  <1>4. Progress'
    BY <1>1 DEF Progress, Reached
  <1>5. OnceEach'
    BY <1>1 DEF OnceEach, Injective
  <1> QED BY <1>1, <1>2, <1>3, <1>4, <1>5

LEMMA EndBatchKeeps ==
  ASSUME BusInv, depth = 1, Quiet, EndBatch
  PROVE  BusInv' /\ depth' = 0 /\ pending' = <<>> /\ UNCHANGED <<published, got>>
  <1> USE DEF BusInv
  <1>1. /\ flushing' = pending /\ pending' = <<>> /\ depth' = 0 /\ stack = <<>> /\ flushing = <<>>
        /\ UNCHANGED <<published, stack, got, dropped>>
    BY DEF EndBatch, Quiet
  <1>2. DOMAIN pending' = {} /\ DOMAIN flushing = {} /\ pending' \in Seq(1..published)
    BY <1>1
  <1>3. BusTypeOK'
    BY <1>1, <1>2, BusTypes DEF BusTypeOK, Frames
  <1>4. OnePlace'
    BY <1>1, <1>2 DEF OnePlace, Injective
  <1>5. Progress'
    BY <1>1, <1>2 DEF Progress, Reached
  <1>6. OnceEach'
    BY <1>1 DEF OnceEach, Injective
  <1> QED BY <1>1, <1>3, <1>4, <1>5, <1>6

LEMMA NextOfBatchKeeps ==
  ASSUME BusInv, NextOfBatch
  PROVE  BusInv'
  <1> USE DEF BusInv
  <1>1. /\ stack = <<>> /\ flushing # <<>> /\ stack' = <<Delivery(Head(flushing))>>
        /\ flushing' = Tail(flushing) /\ UNCHANGED <<published, depth, pending, got, dropped>>
    BY DEF NextOfBatch
  <1>2. /\ Head(flushing) \in 1..published /\ Head(flushing) = flushing[1]
        /\ Tail(flushing) \in Seq(1..published) /\ Len(flushing) > 0 /\ Len(flushing) \in Nat
        /\ DOMAIN flushing = 1..Len(flushing)
        /\ DOMAIN Tail(flushing) = 1..(Len(flushing) - 1)
        /\ \A i \in 1..(Len(flushing) - 1) : Tail(flushing)[i] = flushing[i + 1]
    BY <1>1, BusTypes, TailFacts
  <1>3. /\ Delivery(Head(flushing)) \in Frames(published)
        /\ Delivery(Head(flushing)).event = flushing[1] /\ Delivery(Head(flushing)).next = 1
    BY <1>2, BusTypes DEF Delivery, Frames
  <1>4. /\ stack' \in Seq(Frames(published)) /\ DOMAIN stack' = {1} /\ DOMAIN stack = {}
        /\ stack'[1].event = flushing[1] /\ stack'[1].next = 1
    BY <1>1, <1>3
  <1>5. BusTypeOK'
    BY <1>1, <1>2, <1>4, BusTypes DEF BusTypeOK, Frames
  <1>6. OnePlace'
    BY <1>1, <1>2, <1>4 DEF OnePlace, Injective
  <1>7. \A e : \A s \in Callers : Reached(e, s)' <=> Reached(e, s)
    BY <1>1 DEF Reached
  <1>8. \A n \in DOMAIN Subscribers : Subscribers[n] \in Callers
    BY DEF Callers
  <1>9. Progress'
    <2>1. \A i \in DOMAIN flushing', s \in Callers : ~Reached(flushing'[i], s)
      BY <1>1, <1>2 DEF Progress
    <2>2. \A n \in DOMAIN Subscribers : ~Reached(stack'[1].event, Subscribers[n]) /\ ~(n < stack'[1].next)
      <3>1. 1 \in DOMAIN flushing
        BY <1>2
      <3>2. \A s \in Callers : ~Reached(flushing[1], s)
        BY <3>1 DEF Progress
      <3>3. \A n \in DOMAIN Subscribers : n \in Nat /\ ~(n < 1)
        BY BusTypes
      <3> QED BY <1>4, <1>8, <3>2, <3>3
    <2>3. \A e \in 1..published : (\E i \in DOMAIN flushing : flushing[i] = e) =>
             (\E i \in DOMAIN flushing' : flushing'[i] = e) \/ stack'[1].event = e
      <3>1. \A i \in DOMAIN flushing : i = 1 \/ (i - 1 \in 1..(Len(flushing) - 1) /\ flushing'[i - 1] = flushing[i])
        BY <1>1, <1>2
      <3> QED BY ZenonT(30), <1>1, <1>2, <1>4, <3>1
    <2>4. \A i \in DOMAIN pending, s \in Callers : ~Reached(pending[i], s)
      BY DEF Progress
    <2>5. \A k \in DOMAIN stack', n \in DOMAIN Subscribers :
            Reached(stack'[k].event, Subscribers[n]) <=> n < stack'[k].next
      BY <1>4, <2>2
    <2>6. \A e \in 1..published :
             \/ \E i \in DOMAIN pending : pending[i] = e
             \/ \E i \in DOMAIN flushing' : flushing'[i] = e
             \/ \E k \in DOMAIN stack' : stack'[k].event = e
             \/ \A s \in Callers : Reached(e, s)
      BY <1>4, <2>3 DEF Progress
    <2> QED BY <1>1, <2>1, <2>4, <2>5, <2>6 DEF Progress, Reached
  <1>10. OnceEach'
    BY <1>1 DEF OnceEach, Injective
  <1> QED BY <1>5, <1>6, <1>9, <1>10

(* The subscriber whose turn it is has not been reached.                     *)
LEMMA TopUnreached ==
  ASSUME BusInv, stack # <<>>, Top.next <= Len(Subscribers)
  PROVE  /\ Subscribers[Top.next] \in Callers /\ Top.next \in DOMAIN Subscribers
         /\ ~Reached(Top.event, Subscribers[Top.next])
         /\ \A i \in DOMAIN pending : pending[i] # Top.event
         /\ \A i \in DOMAIN flushing : flushing[i] # Top.event
         /\ \A k \in DOMAIN stack : k # Len(stack) => stack[k].event # Top.event
         /\ Top.event \in 1..published
  <1> USE DEF BusInv
  <1>1. Len(stack) \in DOMAIN stack /\ Top.next \in 1..Len(Subscribers) /\ Top.event \in 1..published
    BY TopFacts, BusTypes
  <1>2. Top.next \in DOMAIN Subscribers /\ Subscribers[Top.next] \in Callers
    BY <1>1, BusTypes DEF Callers
  <1>3. ~Reached(Top.event, Subscribers[Top.next])
    BY <1>1, <1>2, BusTypes DEF Progress, Top
  <1> QED BY <1>1, <1>2, <1>3 DEF OnePlace, Top

LEMMA SubscriberAt ==
  ASSUME NEW n \in DOMAIN Subscribers, NEW m \in DOMAIN Subscribers
  PROVE  Subscribers[n] = Subscribers[m] <=> n = m
  BY SubscribersAssumption

ReachedNext(e, s) == <<e, s>> \in dropped' \/ \E i \in DOMAIN got'[s] : got'[s][i] = e

(* A callback has run: one subscriber more has been reached, and nothing else *)
(* has.                                                                      *)
Reaches(e, s) ==
  /\ UNCHANGED <<pending, flushing>> /\ published' \in {published, published + 1}
  /\ \A f : \A c \in Callers : ReachedNext(f, c) <=> (Reached(f, c) \/ (f = e /\ c = s))

LEMMA ProgressGoesOn ==
  ASSUME BusInv, stack # <<>>, Top.next <= Len(Subscribers),
         Reaches(Top.event, Subscribers[Top.next])
  PROVE  /\ \A i \in DOMAIN pending', s \in Callers : ~ReachedNext(pending'[i], s)
         /\ \A i \in DOMAIN flushing', s \in Callers : ~ReachedNext(flushing'[i], s)
         /\ \A k \in DOMAIN stack, n \in DOMAIN Subscribers :
              ReachedNext(stack[k].event, Subscribers[n]) <=> n < Advanced[k].next
         /\ \A e \in 1..published :
              \/ \E i \in DOMAIN pending' : pending'[i] = e
              \/ \E i \in DOMAIN flushing' : flushing'[i] = e
              \/ \E k \in DOMAIN stack : stack[k].event = e
              \/ \A s \in Callers : ReachedNext(e, s)
  <1> USE DEF BusInv
  <1>1. \A i \in DOMAIN pending', s \in Callers : ~ReachedNext(pending'[i], s)
    BY TopUnreached DEF Progress, Reaches
  <1>2. \A i \in DOMAIN flushing', s \in Callers : ~ReachedNext(flushing'[i], s)
    BY TopUnreached DEF Progress, Reaches
  <1>3. ASSUME NEW k \in DOMAIN stack, NEW n \in DOMAIN Subscribers
        PROVE  ReachedNext(stack[k].event, Subscribers[n]) <=> n < Advanced[k].next
    <2>1. Subscribers[n] \in Callers /\ n \in Nat
      BY BusTypes DEF Callers
    <2>2. ReachedNext(stack[k].event, Subscribers[n]) <=>
            (n < stack[k].next \/ (stack[k].event = Top.event /\ Subscribers[n] = Subscribers[Top.next]))
      BY <2>1 DEF Progress, Reaches
    <2>3. Subscribers[n] = Subscribers[Top.next] <=> n = Top.next
      BY TopUnreached, SubscriberAt
    <2>4. CASE k = Len(stack)
      <3>1. stack[k] = Top /\ Advanced[k].next = Top.next + 1 /\ Top.next \in Nat
        BY <2>4, AdvancedFacts, TopFacts, BusTypes DEF Top
      <3> QED BY <2>1, <2>2, <2>3, <3>1
    <2>5. CASE k # Len(stack)
      <3>1. stack[k].event # Top.event /\ Advanced[k].next = stack[k].next
        BY <2>5, TopUnreached, AdvancedFacts
      <3> QED BY <2>2, <3>1
    <2> QED BY <2>4, <2>5
  <1>4. ASSUME NEW e \in 1..published
        PROVE  \/ \E i \in DOMAIN pending' : pending'[i] = e
               \/ \E i \in DOMAIN flushing' : flushing'[i] = e
               \/ \E k \in DOMAIN stack : stack[k].event = e
               \/ \A s \in Callers : ReachedNext(e, s)
    BY DEF Progress, Reaches
  <1> QED BY <1>1, <1>2, <1>3, <1>4

(* What a subscriber takes in. *)
Takes(s, e) == got' = [got EXCEPT ![s] = Append(@, e)] /\ UNCHANGED dropped
Drops(s, e) == dropped' = dropped \cup {<<e, s>>} /\ UNCHANGED got

LEMMA TakesReaches ==
  ASSUME BusInv, NEW s \in Callers, NEW e \in 1..published, ~Reached(e, s), Takes(s, e)
  PROVE  /\ \A f : \A c \in Callers : ReachedNext(f, c) <=> (Reached(f, c) \/ (f = e /\ c = s))
         /\ got' \in [Callers -> Seq(1..published)] /\ OnceEach'
  <1> USE DEF BusInv
  <1>1. /\ got[s] \in Seq(1..published) /\ got' \in [Callers -> Seq(1..published)]
        /\ got'[s] = Append(got[s], e) /\ \A c \in Callers : c # s => got'[c] = got[c]
        /\ dropped' = dropped
    BY BusTypes DEF Takes
  <1>2. /\ DOMAIN got'[s] = 1..(Len(got[s]) + 1) /\ DOMAIN got[s] = 1..Len(got[s])
        /\ Len(got[s]) \in Nat
        /\ \A i \in 1..Len(got[s]) : got'[s][i] = got[s][i]
        /\ got'[s][Len(got[s]) + 1] = e
    BY <1>1, AppendFacts
  <1>3. \A f : (\E i \in DOMAIN got'[s] : got'[s][i] = f) <=>
               ((\E i \in DOMAIN got[s] : got[s][i] = f) \/ f = e)
    BY SMTT(30), <1>2
  <1>4. \A f : \A c \in Callers : ReachedNext(f, c) <=> (Reached(f, c) \/ (f = e /\ c = s))
    BY ZenonT(30), <1>1, <1>3 DEF Reached, ReachedNext
  <1>5. Injective(got'[s]) /\ \A i \in DOMAIN got'[s] : <<got'[s][i], s>> \notin dropped
    <2>1. \A i \in DOMAIN got[s] : got[s][i] # e /\ <<e, s>> \notin dropped
      BY DEF Reached
    <2>2. \A i \in DOMAIN got[s] : <<got[s][i], s>> \notin dropped
      BY DEF OnceEach
    <2>3. \A i, j \in DOMAIN got[s] : got[s][i] = got[s][j] => i = j
      BY DEF OnceEach, Injective
    <2>4. \A i \in DOMAIN got'[s] :
            \/ i \in DOMAIN got[s] /\ got'[s][i] = got[s][i]
            \/ i = Len(got[s]) + 1 /\ got'[s][i] = e
      BY <1>2
    <2>5. Injective(got'[s])
      BY <2>1, <2>3, <2>4 DEF Injective
    <2>6. ASSUME NEW i \in DOMAIN got'[s] PROVE <<got'[s][i], s>> \notin dropped
      <3>1. CASE i \in DOMAIN got[s] /\ got'[s][i] = got[s][i]
        BY <3>1, <2>2
      <3>2. CASE got'[s][i] = e
        BY <3>2 DEF Reached
      <3> QED BY <2>4, <3>1, <3>2
    <2> QED BY <2>5, <2>6
  <1>6. OnceEach'
    <2> SUFFICES ASSUME NEW c \in Callers
                 PROVE  Injective(got'[c]) /\ \A i \in DOMAIN got'[c] : <<got'[c][i], c>> \notin dropped
      BY <1>1 DEF OnceEach, Injective
    <2>1. CASE c = s
      BY <2>1, <1>5
    <2>2. CASE c # s
      BY <2>2, <1>1 DEF OnceEach
    <2> QED BY <2>1, <2>2
  <1> QED BY <1>1, <1>4, <1>6

LEMMA DropsReaches ==
  ASSUME BusInv, NEW s \in Callers, NEW e \in 1..published, ~Reached(e, s), Drops(s, e)
  PROVE  /\ \A f : \A c \in Callers : ReachedNext(f, c) <=> (Reached(f, c) \/ (f = e /\ c = s))
         /\ dropped' \subseteq (1..published) \X Callers /\ OnceEach'
  <1> USE DEF BusInv
  <1>1. dropped' = dropped \cup {<<e, s>>} /\ got' = got
    BY DEF Drops
  <1>2. dropped' \subseteq (1..published) \X Callers
    BY <1>1, BusTypes
  <1>3. \A f : \A c \in Callers : ReachedNext(f, c) <=> (Reached(f, c) \/ (f = e /\ c = s))
    BY <1>1 DEF Reached, ReachedNext
  <1>4. OnceEach'
    BY <1>1 DEF OnceEach, Injective, Reached
  <1> QED BY <1>2, <1>3, <1>4

LEMMA CallbackKeeps ==
  ASSUME BusInv, Callback
  PROVE  BusInv'
  <1> USE DEF BusInv
  <1> DEFINE e == Top.event
             s == Subscribers[Top.next]
  <1>1. /\ stack # <<>> /\ Top.next <= Len(Subscribers) /\ stack' = Advanced
        /\ UNCHANGED <<published, depth, pending, flushing>>
        /\ Takes(s, e) \/ Drops(s, e)
    BY DEF Callback, Takes, Drops
  <1>2. s \in Callers /\ e \in 1..published /\ ~Reached(e, s)
    BY <1>1, TopUnreached
  <1>3. /\ \A f : \A c \in Callers : ReachedNext(f, c) <=> (Reached(f, c) \/ (f = e /\ c = s))
        /\ OnceEach'
        /\ got' \in [Callers -> Seq(1..published)] /\ dropped' \subseteq (1..published) \X Callers
    <2>1. CASE Takes(s, e)
      BY <2>1, <1>2, TakesReaches, BusTypes DEF Takes
    <2>2. CASE Drops(s, e)
      BY <2>2, <1>2, DropsReaches, BusTypes DEF Drops
    <2> QED BY <1>1, <2>1, <2>2
  <1>4. Reaches(e, s)
    BY <1>1, <1>3 DEF Reaches
  <1>5. /\ stack' \in Seq(Frames(published)) /\ DOMAIN stack' = DOMAIN stack
        /\ \A k \in DOMAIN stack : stack'[k].event = stack[k].event
    BY <1>1, AdvancedFacts
  <1>6. BusTypeOK'
    BY <1>1, <1>3, <1>5, BusTypes DEF BusTypeOK, Frames
  <1>7. OnePlace'
    BY <1>1, <1>5 DEF OnePlace, Injective
  <1>8. Progress'
    <2>1. /\ \A i \in DOMAIN pending', c \in Callers : ~ReachedNext(pending'[i], c)
          /\ \A i \in DOMAIN flushing', c \in Callers : ~ReachedNext(flushing'[i], c)
          /\ \A k \in DOMAIN stack, n \in DOMAIN Subscribers :
               ReachedNext(stack[k].event, Subscribers[n]) <=> n < Advanced[k].next
          /\ \A f \in 1..published :
               \/ \E i \in DOMAIN pending' : pending'[i] = f
               \/ \E i \in DOMAIN flushing' : flushing'[i] = f
               \/ \E k \in DOMAIN stack : stack[k].event = f
               \/ \A c \in Callers : ReachedNext(f, c)
      BY <1>1, <1>4, ProgressGoesOn
    <2>2. \A k \in DOMAIN stack', n \in DOMAIN Subscribers :
            ReachedNext(stack'[k].event, Subscribers[n]) <=> n < stack'[k].next
      BY <1>1, <1>5, <2>1
    <2>3. \A f \in 1..published' :
               \/ \E i \in DOMAIN pending' : pending'[i] = f
               \/ \E i \in DOMAIN flushing' : flushing'[i] = f
               \/ \E k \in DOMAIN stack' : stack'[k].event = f
               \/ \A c \in Callers : ReachedNext(f, c)
      BY <1>1, <1>5, <2>1
    <2> QED BY <2>1, <2>2, <2>3 DEF Progress, Reached, ReachedNext
  <1> QED BY <1>3, <1>6, <1>7, <1>8

LEMMA CallbackPublishesKeeps ==
  ASSUME BusInv, CallbackPublishes
  PROVE  BusInv' /\ published' = published + 1
  <1> USE DEF BusInv
  <1> DEFINE e == Top.event
             s == Subscribers[Top.next]
             new == Delivery(published + 1)
  <1>1. /\ stack # <<>> /\ Top.next <= Len(Subscribers) /\ stack' = Append(Advanced, new)
        /\ published' = published + 1
        /\ UNCHANGED <<depth, pending, flushing>>
        /\ Takes(s, e)
    BY DEF CallbackPublishes, Takes
  <1>2. s \in Callers /\ e \in 1..published /\ ~Reached(e, s)
    BY <1>1, TopUnreached
  <1>3. /\ \A f : \A c \in Callers : ReachedNext(f, c) <=> (Reached(f, c) \/ (f = e /\ c = s))
        /\ OnceEach' /\ got' \in [Callers -> Seq(1..published)] /\ dropped' = dropped
    BY <1>1, <1>2, TakesReaches DEF Takes
  <1>4. Reaches(e, s)
    BY <1>1, <1>3 DEF Reaches
  <1>5. /\ Advanced \in Seq(Frames(published)) /\ Advanced \in Seq(Frames(published + 1))
        /\ DOMAIN Advanced = DOMAIN stack /\ Len(Advanced) = Len(stack)
        /\ \A k \in DOMAIN stack : Advanced[k].event = stack[k].event
        /\ new \in Frames(published + 1)
    BY <1>1, AdvancedFacts, FramesGrow, BusTypes
  <1>6. /\ stack' \in Seq(Frames(published')) /\ Len(stack) \in Nat
        /\ DOMAIN stack = 1..Len(stack) /\ DOMAIN stack' = 1..(Len(stack) + 1)
        /\ \A k \in DOMAIN stack : stack'[k] = Advanced[k] /\ stack'[k].event = stack[k].event
        /\ stack'[Len(stack) + 1] = new /\ new.event = published + 1 /\ new.next = 1
    BY <1>1, <1>5, TopFacts, AppendFacts DEF Delivery
  <1>7. \A k \in DOMAIN stack' : k \in DOMAIN stack \/ k = Len(stack) + 1
    BY <1>6
  <1>8. BusTypeOK'
    <2>1. pending' \in Seq(1..published') /\ flushing' \in Seq(1..published')
      BY <1>1, BusTypes, SeqGrows
    <2>2. got' \in [Callers -> Seq(1..published')]
      BY <1>1, <1>3, BusTypes, SeqGrows
    <2>3. dropped' \subseteq (1..published') \X Callers
      BY <1>1, <1>3, BusTypes
    <2>4. published' \in Nat /\ depth' \in Nat
      BY <1>1, BusTypes
    <2> QED BY <1>6, <2>1, <2>2, <2>3, <2>4 DEF BusTypeOK, Frames
  <1>9. OnePlace'
    <2>1. \A i, j \in DOMAIN stack' : stack'[i].event = stack'[j].event => i = j
      BY <1>6, <1>7, NotYet DEF OnePlace
    <2>2. ASSUME NEW k \in DOMAIN stack'
          PROVE  /\ \A i \in DOMAIN pending : pending[i] # stack'[k].event
                 /\ \A i \in DOMAIN flushing : flushing[i] # stack'[k].event
      BY <1>6, <1>7, NotYet DEF OnePlace
    <2> QED BY <1>1, <2>1, <2>2 DEF OnePlace, Injective
  <1>10. Progress'
    <2>1. /\ \A i \in DOMAIN pending', c \in Callers : ~ReachedNext(pending'[i], c)
          /\ \A i \in DOMAIN flushing', c \in Callers : ~ReachedNext(flushing'[i], c)
          /\ \A k \in DOMAIN stack, n \in DOMAIN Subscribers :
               ReachedNext(stack[k].event, Subscribers[n]) <=> n < Advanced[k].next
          /\ \A f \in 1..published :
               \/ \E i \in DOMAIN pending' : pending'[i] = f
               \/ \E i \in DOMAIN flushing' : flushing'[i] = f
               \/ \E k \in DOMAIN stack : stack[k].event = f
               \/ \A c \in Callers : ReachedNext(f, c)
      BY <1>1, <1>4, ProgressGoesOn
    <2>2. \A n \in DOMAIN Subscribers : /\ ~ReachedNext(published + 1, Subscribers[n])
                                        /\ n \in Nat /\ ~(n < 1)
      <3>1. ASSUME NEW n \in DOMAIN Subscribers
            PROVE  ~ReachedNext(published + 1, Subscribers[n])
        <4>1. Subscribers[n] \in Callers /\ ~Reached(published + 1, Subscribers[n])
          BY NotYet DEF Callers
        <4>2. published + 1 # e
          BY <1>2, BusTypes
        <4> QED BY <1>3, <4>1, <4>2
      <3> QED BY <3>1, BusTypes
    <2>3. \A k \in DOMAIN stack', n \in DOMAIN Subscribers :
            ReachedNext(stack'[k].event, Subscribers[n]) <=> n < stack'[k].next
      BY <1>6, <1>7, <2>1, <2>2
    <2>4. ASSUME NEW f \in 1..published'
          PROVE  \/ \E i \in DOMAIN pending' : pending'[i] = f
                 \/ \E i \in DOMAIN flushing' : flushing'[i] = f
                 \/ \E k \in DOMAIN stack' : stack'[k].event = f
                 \/ \A c \in Callers : ReachedNext(f, c)
      <3>1. CASE f = published + 1
        BY <3>1, <1>6
      <3>2. CASE f \in 1..published
        BY <3>2, <1>6, <2>1
      <3>3. f = published + 1 \/ f \in 1..published
        BY <1>1, BusTypes
      <3> QED BY <3>1, <3>2, <3>3
    <2> QED BY <2>1, <2>3, <2>4 DEF Progress, Reached, ReachedNext
  <1> QED BY <1>1, <1>3, <1>8, <1>9, <1>10

LEMMA DeliveredKeeps ==
  ASSUME BusInv, Delivered
  PROVE  BusInv'
  <1> USE DEF BusInv
  <1>1. /\ stack # <<>> /\ Top.next > Len(Subscribers)
        /\ stack' = SubSeq(stack, 1, Len(stack) - 1)
        /\ UNCHANGED <<published, depth, pending, flushing, got, dropped>>
    BY DEF Delivered
  <1>2. /\ stack' \in Seq(Frames(published)) /\ DOMAIN stack' = 1..(Len(stack) - 1)
        /\ \A k \in 1..(Len(stack) - 1) : stack'[k] = stack[k]
        /\ DOMAIN stack = 1..Len(stack) /\ Len(stack) \in Nat /\ Len(stack) >= 1
    BY <1>1, PopFacts, TopFacts
  <1>3. \A k \in DOMAIN stack' : k \in DOMAIN stack /\ stack'[k] = stack[k]
    BY <1>2
  <1>4. BusTypeOK'
    BY <1>1, <1>2, BusTypes DEF BusTypeOK, Frames
  <1>5. OnePlace'
    BY <1>1, <1>3 DEF OnePlace, Injective
  <1>6. \A s \in Callers : Reached(Top.event, s)
    <2>1. \A n \in DOMAIN Subscribers : Reached(Top.event, Subscribers[n])
      <3>1. Len(stack) \in DOMAIN stack /\ \A n \in DOMAIN Subscribers : n < Top.next
        BY <1>1, TopFacts, BusTypes
      <3> QED BY <3>1 DEF Progress, Top
    <2> QED BY <2>1 DEF Callers
  <1>7. Progress'
    <2>1. \A k \in DOMAIN stack', n \in DOMAIN Subscribers :
            Reached(stack'[k].event, Subscribers[n]) <=> n < stack'[k].next
      BY <1>3 DEF Progress
    <2>2. ASSUME NEW e \in 1..published
          PROVE  \/ \E i \in DOMAIN pending : pending[i] = e
                 \/ \E i \in DOMAIN flushing : flushing[i] = e
                 \/ \E k \in DOMAIN stack' : stack'[k].event = e
                 \/ \A s \in Callers : Reached(e, s)
      <3>1. \A k \in DOMAIN stack : k = Len(stack) \/ (k \in DOMAIN stack' /\ stack'[k] = stack[k])
        BY <1>2
      <3> QED BY <1>6, <3>1 DEF Progress, Top
    <2>3. \A f : \A c \in Callers : ReachedNext(f, c) <=> Reached(f, c)
      BY <1>1 DEF Reached, ReachedNext
    <2>4. /\ \A i \in DOMAIN pending, c \in Callers : ~ReachedNext(pending[i], c)
          /\ \A i \in DOMAIN flushing, c \in Callers : ~ReachedNext(flushing[i], c)
      BY <2>3 DEF Progress
    <2>5. \A k \in DOMAIN stack', n \in DOMAIN Subscribers :
            ReachedNext(stack'[k].event, Subscribers[n]) <=> n < stack'[k].next
      BY <2>1, <2>3 DEF Callers
    <2>6. \A e \in 1..published :
            \/ \E i \in DOMAIN pending : pending[i] = e
            \/ \E i \in DOMAIN flushing : flushing[i] = e
            \/ \E k \in DOMAIN stack' : stack'[k].event = e
            \/ \A c \in Callers : ReachedNext(e, c)
      BY <2>2, <2>3
    <2> QED BY <1>1, <2>4, <2>5, <2>6 DEF Progress, Reached, ReachedNext
  <1>8. OnceEach'
    BY <1>1 DEF OnceEach, Injective
  <1> QED BY <1>4, <1>5, <1>7, <1>8

-----------------------------------------------------------------------------
(* Types, and the phases of a joint step *)

RunnerTypes ==
  /\ step \in [at: {"idle", "advance", "flush", "raising", "unwind"},
              todo: SUBSET Participants, active: SUBSET Participants,
              calls: Nat, cost: Nat, seen: Nat]
  /\ tick \in [Participants -> Nat] /\ master \in Nat
  /\ done \subseteq Participants
  /\ failed \in BOOLEAN /\ early \in BOOLEAN /\ raised \in BOOLEAN
  /\ used \in [calls: 0..MaxCalls, cost: 0..MaxCost]

EventTypes ==
  /\ report \in Seq(1..published) /\ fresh \subseteq 1..published
  /\ applied \in [Participants -> SUBSET (1..published)]

LEMMA TypesSplit == TypeOK <=> BusTypeOK /\ RunnerTypes /\ EventTypes
  BY DEF TypeOK, RunnerTypes, EventTypes

LEMMA InvNext ==
  ASSUME BusInv', RunnerTypes', EventTypes', Phases'
  PROVE  Inv'
  <1>1. BusTypeOK'
    BY DEF BusInv
  <1>2. TypeOK'
    BY <1>1 DEF TypeOK, RunnerTypes, EventTypes
  <1> QED BY <1>2 DEF Inv

LEMMA Callers_ ==
  /\ Participants \subseteq Callers /\ Audit \in Callers
  /\ MaxCalls \in Nat /\ MaxCost \in Nat
  BY CoupledAssumption

LEMMA BusStays ==
  ASSUME BusInv, UNCHANGED bus
  PROVE  BusInv'
  <1> USE DEF BusInv
  <1>1. UNCHANGED <<published, depth, pending, flushing, stack, got, dropped>>
    BY DEF bus
  <1>2. BusTypeOK'
    BY <1>1 DEF BusTypeOK
  <1>3. OnePlace'
    BY <1>1 DEF OnePlace, Injective
  <1>4. Progress'
    BY <1>1 DEF Progress, Reached
  <1>5. OnceEach'
    BY <1>1 DEF OnceEach, Injective
  <1> QED BY <1>2, <1>3, <1>4, <1>5

(* An environment's step, as far as the bus is concerned. *)
LEMMA AnnouncesKeeps ==
  ASSUME Inv, step.at = "advance", NEW p \in Participants, NEW news \in BOOLEAN,
         Apply(p), Announces(news)
  PROVE  /\ BusInv' /\ UNCHANGED <<depth, flushing, stack, got>>
         /\ published' \in Nat /\ published' \in {published, published + 1}
         /\ fresh' \subseteq 1..published'
         /\ \A e \in fresh' : e \in fresh \/ e = published + 1
         /\ applied' \in [Participants -> SUBSET (1..published')]
         /\ report \in Seq(1..published')
         /\ early' \in BOOLEAN
  <1>1. BusInv /\ depth = 1 /\ RunnerTypes /\ EventTypes /\ published \in Nat
    BY TypesSplit, BusTypes DEF Inv, Phases, BusInv
  <1>2. /\ BusInv' /\ UNCHANGED <<depth, flushing, stack, got>>
        /\ published' \in {published, published + 1}
        /\ fresh' \subseteq 1..published'
        /\ \A e \in fresh' : e \in fresh \/ e = published + 1
    <2>1. CASE news
      <3>1. Publish /\ fresh' = fresh \cup {published + 1}
        BY <2>1 DEF Announces
      <3>2. BusInv' /\ published' = published + 1
        BY <3>1, <1>1, PublishKeeps
      <3>3. UNCHANGED <<depth, flushing, stack, got>>
        BY <3>1, <1>1 DEF Publish
      <3> QED BY <1>1, <3>1, <3>2, <3>3 DEF EventTypes
    <2>2. CASE ~news
      <3>1. UNCHANGED bus /\ UNCHANGED fresh
        BY <2>2 DEF Announces
      <3> QED BY <1>1, <3>1, BusStays DEF EventTypes, bus
    <2> QED BY <2>1, <2>2
  <1>3. 1..published \subseteq 1..published' /\ published' \in Nat
    BY <1>1, <1>2
  <1>4. Owed(p) \subseteq 1..published
    BY <1>1, BusTypes, Callers_ DEF Owed, BusInv
  <1>5. applied' \in [Participants -> SUBSET (1..published')]
    BY <1>1, <1>3, <1>4 DEF EventTypes, Apply
  <1>6. report \in Seq(1..published')
    BY <1>1, <1>2, SeqGrows DEF EventTypes
  <1>7. early' \in BOOLEAN
    BY DEF Apply
  <1> QED BY <1>2, <1>3, <1>5, <1>6, <1>7

LEMMA BeginInv ==
  ASSUME Inv, NEW calls \in 0..1, NEW cost \in 0..1, Begin(calls, cost)
  PROVE  Inv'
  <1>1. BusInv /\ RunnerTypes /\ EventTypes /\ Phases /\ published \in Nat
    BY TypesSplit, BusTypes DEF Inv, BusInv
  <1>2. CASE Drifted
    <2>1. /\ failed' = TRUE /\ UNCHANGED <<bus, step, fresh>>
          /\ UNCHANGED <<tick, master, done, used, report, applied, early, raised>>
      BY <1>2 DEF Begin
    <2>2. BusInv' /\ UNCHANGED <<published, depth, pending, flushing, stack, got>>
      BY <1>1, <2>1, BusStays DEF bus
    <2>3. RunnerTypes' /\ EventTypes'
      BY <1>1, <2>1, <2>2 DEF RunnerTypes, EventTypes
    <2>4. Phases'
      BY <1>1, <2>1, <2>2 DEF Phases, Quiet
    <2> QED BY <2>2, <2>3, <2>4, InvNext
  <1>3. CASE ~Drifted
    <2>1. /\ step' = [at |-> "advance", todo |-> Active, active |-> Active,
                      calls |-> calls, cost |-> 0, seen |-> Len(got[Audit])]
          /\ BeginBatch /\ fresh' = {} /\ step.at = "idle"
          /\ used.calls + calls <= MaxCalls
          /\ UNCHANGED <<failed, tick, master, done, used, report, applied, early, raised>>
      BY <1>3 DEF Begin
    <2>2. BusInv' /\ depth' = depth + 1 /\ UNCHANGED <<published, pending, flushing, stack, got>>
      BY <1>1, <2>1, BeginBatchKeeps DEF BeginBatch
    <2>3. Len(got[Audit]) \in Nat
      BY <1>1, BusTypes, Callers_ DEF BusInv
    <2>4. step' \in [at: {"idle", "advance", "flush", "raising", "unwind"},
              todo: SUBSET Participants, active: SUBSET Participants,
              calls: Nat, cost: Nat, seen: Nat]
      BY <2>1, <2>3 DEF Active
    <2>5. RunnerTypes' /\ EventTypes'
      BY <1>1, <2>1, <2>2, <2>4 DEF RunnerTypes, EventTypes
    <2>6. Phases'
      BY <1>1, <2>1, <2>2 DEF Phases, Quiet
    <2> QED BY <2>2, <2>5, <2>6, InvNext
  <1> QED BY <1>2, <1>3

LEMMA AdvanceInv ==
  ASSUME Inv, NEW p \in Participants, NEW news \in BOOLEAN, NEW ends \in BOOLEAN,
         NEW moves \in BOOLEAN, NEW cost \in 0..1, Advance(p, news, ends, moves, cost)
  PROVE  Inv'
  <1>1. BusInv /\ RunnerTypes /\ EventTypes /\ Phases
    BY TypesSplit DEF Inv, BusInv
  <1>2. /\ step.at = "advance" /\ Apply(p) /\ Announces(news)
        /\ tick' = IF moves THEN [tick EXCEPT ![p] = @ + 1] ELSE tick
        /\ done' = IF ends THEN done \cup {p} ELSE done
        /\ step' = [step EXCEPT !.todo = @ \ {p}, !.cost = @ + cost]
        /\ UNCHANGED <<master, failed, used, report, raised>>
    BY DEF Advance, InTurn
  <1>3. /\ BusInv' /\ UNCHANGED <<depth, flushing, stack, got>>
        /\ fresh' \subseteq 1..published'
        /\ applied' \in [Participants -> SUBSET (1..published')]
        /\ report \in Seq(1..published') /\ early' \in BOOLEAN
    BY <1>2, AnnouncesKeeps
  <1>4. /\ step' \in [at: {"idle", "advance", "flush", "raising", "unwind"},
              todo: SUBSET Participants, active: SUBSET Participants,
              calls: Nat, cost: Nat, seen: Nat]
        /\ step'.at = "advance" /\ step'.calls = step.calls
    <2>1. step.cost + cost \in Nat /\ step.todo \ {p} \in SUBSET Participants
      BY <1>1 DEF RunnerTypes
    <2>2. step' = [step EXCEPT !.todo = step.todo \ {p}, !.cost = step.cost + cost]
      BY <1>1, <1>2 DEF RunnerTypes
    <2> QED BY <1>1, <1>2, <2>1, <2>2 DEF RunnerTypes
  <1>5. tick' \in [Participants -> Nat] /\ done' \subseteq Participants
    BY <1>1, <1>2 DEF RunnerTypes
  <1>6. RunnerTypes' /\ EventTypes'
    BY <1>1, <1>2, <1>3, <1>4, <1>5 DEF RunnerTypes, EventTypes
  <1>7. Phases'
    BY <1>1, <1>2, <1>3, <1>4 DEF Phases, Quiet
  <1> QED BY <1>3, <1>6, <1>7, InvNext

LEMMA RaiseInv ==
  ASSUME Inv, NEW p \in Participants, NEW news \in BOOLEAN, NEW moves \in BOOLEAN,
         Raise(p, news, moves)
  PROVE  Inv'
  <1>1. BusInv /\ RunnerTypes /\ EventTypes /\ Phases
    BY TypesSplit DEF Inv, BusInv
  <1>2. /\ step.at = "advance" /\ Apply(p) /\ Announces(news)
        /\ tick' = IF moves THEN [tick EXCEPT ![p] = @ + 1] ELSE tick
        /\ step' = [step EXCEPT !.at = "raising"] /\ raised' = TRUE
        /\ UNCHANGED <<master, done, failed, used, report>>
    BY DEF Raise, InTurn
  <1>3. /\ BusInv' /\ UNCHANGED <<depth, flushing, stack, got>>
        /\ fresh' \subseteq 1..published'
        /\ applied' \in [Participants -> SUBSET (1..published')]
        /\ report \in Seq(1..published') /\ early' \in BOOLEAN
    BY <1>2, AnnouncesKeeps
  <1>4. /\ step' \in [at: {"idle", "advance", "flush", "raising", "unwind"},
              todo: SUBSET Participants, active: SUBSET Participants,
              calls: Nat, cost: Nat, seen: Nat]
        /\ step'.at = "raising" /\ step'.calls = step.calls
    BY <1>1, <1>2 DEF RunnerTypes
  <1>5. tick' \in [Participants -> Nat]
    BY <1>1, <1>2 DEF RunnerTypes
  <1>6. RunnerTypes' /\ EventTypes'
    BY <1>1, <1>2, <1>3, <1>4, <1>5 DEF RunnerTypes, EventTypes
  <1>7. Phases'
    BY <1>1, <1>2, <1>3, <1>4 DEF Phases, Quiet
  <1> QED BY <1>3, <1>6, <1>7, InvNext

LEMMA CloseBatchInv ==
  ASSUME Inv, CloseBatch
  PROVE  Inv'
  <1>1. BusInv /\ RunnerTypes /\ EventTypes /\ Phases
    BY TypesSplit DEF Inv, BusInv
  <1>2. /\ EndBatch /\ step.at \in {"advance", "raising"}
        /\ step' \in {[step EXCEPT !.at = "flush"], [step EXCEPT !.at = "unwind"]}
        /\ step.at = "advance" => step' = [step EXCEPT !.at = "flush"]
        /\ UNCHANGED <<tick, master, done, failed, used, report, fresh, applied, early, raised>>
    BY DEF CloseBatch
  <1>3. depth = 1 /\ Quiet
    BY <1>1, <1>2 DEF Phases
  <1>4. BusInv' /\ depth' = 0 /\ pending' = <<>> /\ UNCHANGED <<published, got>>
    BY <1>1, <1>2, <1>3, EndBatchKeeps
  <1>5. /\ step' \in [at: {"idle", "advance", "flush", "raising", "unwind"},
              todo: SUBSET Participants, active: SUBSET Participants,
              calls: Nat, cost: Nat, seen: Nat]
        /\ step'.at \in {"flush", "unwind"} /\ step'.calls = step.calls
        /\ step.at = "advance" => step'.at = "flush"
    BY <1>1, <1>2 DEF RunnerTypes
  <1>6. RunnerTypes' /\ EventTypes'
    BY <1>1, <1>2, <1>4, <1>5 DEF RunnerTypes, EventTypes
  <1>7. Phases'
    BY <1>1, <1>2, <1>4, <1>5 DEF Phases
  <1> QED BY <1>4, <1>6, <1>7, InvNext

(* Deliveries: what a subscriber has received only grows at its end. *)
LEMMA DeliverFacts ==
  ASSUME Inv, Deliver
  PROVE  /\ BusInv' /\ UNCHANGED <<depth, pending>> /\ step.at \in {"flush", "unwind"}
         /\ published' \in Nat /\ published' \in {published, published + 1}
         /\ fresh' \subseteq 1..published'
         /\ \A s \in Callers : got'[s] = got[s] \/ \E e : got'[s] = Append(got[s], e)
  <1>1. BusInv /\ RunnerTypes /\ EventTypes /\ Phases
    BY TypesSplit DEF Inv, BusInv
  <1>2. step.at \in {"flush", "unwind"}
    <2>1. ~Quiet
      BY DEF Deliver, Quiet, NextOfBatch, Callback, Delivered, CallbackPublishes
    <2> QED BY <1>1, <2>1 DEF Phases, RunnerTypes
  <1>3. got \in [Callers -> Seq(1..published)] /\ published \in Nat
    BY <1>1, BusTypes DEF BusInv
  <1>4. CASE NextOfBatch /\ UNCHANGED fresh
    BY <1>1, <1>2, <1>3, <1>4, NextOfBatchKeeps DEF NextOfBatch, EventTypes
  <1>5. CASE Delivered /\ UNCHANGED fresh
    BY <1>1, <1>2, <1>3, <1>5, DeliveredKeeps DEF Delivered, EventTypes
  <1>6. CASE Callback /\ UNCHANGED fresh
    <2>1. BusInv'
      BY <1>1, <1>6, CallbackKeeps
    <2>2. UNCHANGED <<published, depth, pending, fresh>>
      BY <1>6 DEF Callback
    <2>3. \A s \in Callers : got'[s] = got[s] \/ \E e : got'[s] = Append(got[s], e)
      BY <1>3, <1>6 DEF Callback
    <2> QED BY <1>1, <1>2, <1>3, <2>1, <2>2, <2>3 DEF EventTypes
  <1>7. CASE CallbackPublishes /\ fresh' = fresh \cup {published + 1}
    <2>1. BusInv' /\ published' = published + 1
      BY <1>1, <1>7, CallbackPublishesKeeps
    <2>2. UNCHANGED <<depth, pending>>
      BY <1>7 DEF CallbackPublishes
    <2>3. \A s \in Callers : got'[s] = got[s] \/ \E e : got'[s] = Append(got[s], e)
      BY <1>3, <1>7 DEF CallbackPublishes
    <2>4. fresh' \subseteq 1..published'
      BY <1>1, <1>3, <1>7, <2>1 DEF EventTypes
    <2>5. published' \in Nat /\ published' \in {published, published + 1}
      BY <1>3, <2>1
    <2>6. BusInv' /\ UNCHANGED <<depth, pending>>
      BY <2>1, <2>2
    <2> HIDE DEF Inv
    <2> QED BY <1>2, <2>3, <2>4, <2>5, <2>6
  <1> QED BY <1>4, <1>5, <1>6, <1>7 DEF Deliver

LEMMA DeliverInv ==
  ASSUME Inv, Deliver
  PROVE  Inv'
  <1>1. BusInv /\ RunnerTypes /\ EventTypes /\ Phases /\ published \in Nat
    BY TypesSplit, BusTypes DEF Inv, BusInv
  <1>2. UNCHANGED <<step, tick, master, done, failed, used, report, applied, early, raised>>
    BY DEF Deliver
  <1>3. 1..published \subseteq 1..published'
    BY <1>1, DeliverFacts
  <1>4. applied' \in [Participants -> SUBSET (1..published')]
    BY <1>1, <1>2, <1>3 DEF EventTypes
  <1>5. report' \in Seq(1..published')
    BY <1>1, <1>2, DeliverFacts, SeqGrows DEF EventTypes
  <1>6. RunnerTypes' /\ EventTypes'
    BY <1>1, <1>2, <1>4, <1>5, DeliverFacts DEF RunnerTypes, EventTypes
  <1>7. Phases'
    BY <1>1, <1>2, DeliverFacts DEF Phases
  <1> QED BY <1>6, <1>7, DeliverFacts, InvNext

LEMMA UnwindInv ==
  ASSUME Inv, Unwind
  PROVE  Inv'
  <1>1. BusInv /\ RunnerTypes /\ EventTypes /\ Phases
    BY TypesSplit DEF Inv, BusInv
  <1>2. /\ step.at = "unwind" /\ Quiet /\ step' = Idle
        /\ UNCHANGED <<bus, tick, master, done, failed, used, report, fresh, applied, early, raised>>
    BY DEF Unwind
  <1>3. BusInv' /\ UNCHANGED <<published, depth, pending, flushing, stack, got>>
    BY <1>1, <1>2, BusStays DEF bus
  <1>4. RunnerTypes' /\ EventTypes'
    BY <1>1, <1>2, <1>3 DEF RunnerTypes, EventTypes, Idle
  <1>5. Phases'
    BY <1>1, <1>2, <1>3 DEF Phases, Quiet, Idle
  <1> QED BY <1>3, <1>4, <1>5, InvNext

LEMMA Segment ==
  ASSUME NEW S, NEW q \in Seq(S), NEW n \in Nat, n <= Len(q)
  PROVE  LET news == SubSeq(q, n + 1, Len(q)) IN
           /\ news \in Seq(S) /\ Len(news) = Len(q) - n /\ DOMAIN news = 1..(Len(q) - n)
           /\ \A i \in 1..(Len(q) - n) : news[i] = q[n + i]
           /\ Len(q) \in Nat /\ DOMAIN q = 1..Len(q)
  OBVIOUS

LEMMA AccountInv ==
  ASSUME Inv, Account, step.seen <= Len(got[Audit])
  PROVE  Inv'
  <1>1. BusInv /\ RunnerTypes /\ EventTypes /\ Phases
    BY TypesSplit DEF Inv, BusInv
  <1>2. /\ step.at = "flush" /\ Quiet /\ step' = Idle
        /\ report' = report \o SubSeq(got[Audit], step.seen + 1, Len(got[Audit]))
        /\ \/ failed' = TRUE /\ UNCHANGED <<master, used>>
           \/ /\ used.cost + step.cost <= MaxCost
              /\ master' = master + 1
              /\ used' = [calls |-> used.calls + step.calls, cost |-> used.cost + step.cost]
              /\ UNCHANGED failed
        /\ UNCHANGED <<bus, tick, done, fresh, applied, early, raised>>
    <2>1. used.cost \in Nat /\ step.cost \in Nat /\ MaxCost \in Nat
      BY <1>1, Callers_ DEF RunnerTypes
    <2> QED BY <2>1 DEF Account
  <1>3. BusInv' /\ UNCHANGED <<published, depth, pending, flushing, stack, got>>
    BY <1>1, <1>2, BusStays DEF bus
  <1>4. report' \in Seq(1..published)
    <2>1. got[Audit] \in Seq(1..published) /\ step.seen \in Nat /\ report \in Seq(1..published)
      BY <1>1, BusTypes, Callers_ DEF RunnerTypes, EventTypes, BusInv
    <2>2. SubSeq(got[Audit], step.seen + 1, Len(got[Audit])) \in Seq(1..published)
      BY <2>1, Segment
    <2> QED BY <1>2, <2>1, <2>2
  <1>5. used' \in [calls: 0..MaxCalls, cost: 0..MaxCost] /\ master' \in Nat /\ failed' \in BOOLEAN
    <2>1. /\ used.calls \in Nat /\ used.cost \in Nat /\ step.calls \in Nat /\ step.cost \in Nat
          /\ used.calls + step.calls <= MaxCalls /\ MaxCalls \in Nat /\ MaxCost \in Nat
          /\ used \in [calls: 0..MaxCalls, cost: 0..MaxCost] /\ master \in Nat /\ failed \in BOOLEAN
      BY <1>1, <1>2, Callers_ DEF RunnerTypes, Phases
    <2>2. CASE failed' = TRUE /\ UNCHANGED <<master, used>>
      BY <2>1, <2>2
    <2>3. CASE /\ used.cost + step.cost <= MaxCost
               /\ master' = master + 1
               /\ used' = [calls |-> used.calls + step.calls, cost |-> used.cost + step.cost]
               /\ UNCHANGED failed
      <3>1. used.calls + step.calls \in 0..MaxCalls
        BY <2>1
      <3>2. used.cost + step.cost \in 0..MaxCost
        BY <2>1, <2>3
      <3>3. master + 1 \in Nat
        BY <2>1
      <3> QED BY <2>1, <2>3, <3>1, <3>2, <3>3
    <2> QED BY <1>2, <2>2, <2>3
  <1>6. RunnerTypes' /\ EventTypes'
    BY <1>1, <1>2, <1>3, <1>4, <1>5 DEF RunnerTypes, EventTypes, Idle
  <1>7. Phases'
    BY <1>1, <1>2, <1>3 DEF Phases, Quiet, Idle
  <1> QED BY <1>3, <1>6, <1>7, InvNext

-----------------------------------------------------------------------------
(* Initially *)

LEMMA InitInv == Init => Inv /\ Unseen /\ Clocks /\ Reported
  <1> SUFFICES ASSUME Init
               PROVE  Inv /\ Unseen /\ Clocks /\ Reported
    OBVIOUS
  <1>1. /\ published = 0 /\ depth = 0 /\ pending = <<>> /\ flushing = <<>> /\ stack = <<>>
        /\ got = [s \in Callers |-> <<>>] /\ dropped = {}
    BY DEF Init, BusInit
  <1>2. /\ step = Idle /\ tick = [p \in Participants |-> 0] /\ master = 0 /\ done = {}
        /\ failed = FALSE /\ used = [calls |-> 0, cost |-> 0] /\ report = <<>> /\ fresh = {}
        /\ applied = [p \in Participants |-> {}] /\ early = FALSE /\ raised = FALSE
    BY DEF Init
  <1>3. BusTypeOK
    BY <1>1 DEF BusTypeOK
  <1>4. OnePlace /\ Progress /\ OnceEach
    BY <1>1 DEF OnePlace, Progress, OnceEach, Injective
  <1>5. RunnerTypes /\ EventTypes
    <2>1. 0 \in 0..MaxCalls /\ 0 \in 0..MaxCost
      BY Callers_
    <2>2. RunnerTypes
      BY <1>2, <2>1 DEF RunnerTypes, Idle
    <2>3. EventTypes
      BY <1>1, <1>2 DEF EventTypes
    <2> QED BY <2>2, <2>3
  <1>6. Phases
    BY <1>1, <1>2 DEF Phases, Idle, Quiet
  <1>7. Unseen /\ Clocks
    BY <1>2 DEF Unseen, Clocks, Idle
  <1>8. got[Audit] = <<>>
    BY <1>1, Callers_
  <1>9. Reported
    BY <1>2, <1>8 DEF Reported, Idle, Injective
  <1> QED BY <1>3, <1>4, <1>5, <1>6, <1>7, <1>9, TypesSplit DEF Inv, BusInv

-----------------------------------------------------------------------------
(* Cascades and clocks *)

LEMMA UnseenKeeps ==
  ASSUME Inv, Unseen, Next
  PROVE  Unseen'
  <1>1. BusInv /\ RunnerTypes /\ EventTypes /\ Phases
    BY TypesSplit DEF Inv, BusInv
  <1>2. got \in [Callers -> Seq(1..published)] /\ published \in Nat
    BY <1>1, BusTypes DEF BusInv
  <1>3. ASSUME NEW p \in Participants, NEW news \in BOOLEAN, Apply(p), Announces(news),
               step.at = "advance"
        PROVE  /\ ~early'
               /\ \A q \in Participants : \A i \in DOMAIN got'[q] : got'[q][i] \notin fresh'
    <2>1. Owed(p) \cap fresh = {}
      BY <1>3 DEF Owed, Unseen
    <2>2. ~early'
      BY <1>3, <2>1 DEF Apply, Unseen
    <2>3. UNCHANGED got /\ \A e \in fresh' : e \in fresh \/ e = published + 1
      BY <1>3, AnnouncesKeeps
    <2>4. ASSUME NEW q \in Participants, NEW i \in DOMAIN got[q]
          PROVE  got[q][i] \notin fresh /\ got[q][i] # published + 1
      <3>1. q \in Callers
        BY Callers_
      <3>2. got[q][i] \in 1..published
        BY <1>2, <3>1
      <3> QED BY <1>2, <1>3, <3>2 DEF Unseen
    <2> QED BY <2>2, <2>3, <2>4
  <1>4. ASSUME NEW calls \in 0..1, NEW cost \in 0..1, Begin(calls, cost)
        PROVE  Unseen'
    BY <1>4 DEF Begin, Unseen
  <1>5. ASSUME NEW p \in Participants, NEW news \in BOOLEAN, NEW ends \in BOOLEAN,
               NEW moves \in BOOLEAN, NEW cost \in 0..1, Advance(p, news, ends, moves, cost)
        PROVE  Unseen'
    <2>1. Apply(p) /\ Announces(news) /\ step.at = "advance"
      BY <1>5 DEF Advance, InTurn
    <2> QED BY <1>3, <2>1 DEF Unseen
  <1>6. ASSUME NEW p \in Participants, NEW news \in BOOLEAN, NEW moves \in BOOLEAN,
               Raise(p, news, moves)
        PROVE  Unseen'
    <2>1. Apply(p) /\ Announces(news) /\ step.at = "advance"
      BY <1>6 DEF Raise, InTurn
    <2> QED BY <1>3, <2>1 DEF Unseen
  <1>7. CASE CloseBatch
    <2>1. step'.at # "advance" /\ UNCHANGED early
      BY <1>1, <1>7 DEF CloseBatch, RunnerTypes
    <2> QED BY <2>1 DEF Unseen
  <1>8. CASE Deliver
    <2>1. step'.at # "advance" /\ UNCHANGED early
      BY <1>8, DeliverFacts DEF Deliver
    <2> QED BY <2>1 DEF Unseen
  <1>9. CASE Unwind \/ Account
    BY <1>9 DEF Unwind, Account, Unseen, Idle
  <1> QED BY <1>4, <1>5, <1>6, <1>7, <1>8, <1>9 DEF Next

LEMMA ClocksKeep ==
  ASSUME Inv, Clocks, Next
  PROVE  Clocks'
  <1>1. RunnerTypes
    BY TypesSplit DEF Inv
  <1>2. master \in Nat /\ tick \in [Participants -> Nat] /\ step.todo \subseteq Participants
    BY <1>1 DEF RunnerTypes
  <1>3. ASSUME NEW p \in Participants, NEW moves \in BOOLEAN, InTurn(p), UNCHANGED master,
               tick' = IF moves THEN [tick EXCEPT ![p] = @ + 1] ELSE tick
        PROVE  /\ \A q \in Participants : tick'[q] <= master' + 1
               /\ \A q \in step.todo \ {p} : tick'[q] = master'
    <2>1. tick[p] = master /\ \A q \in step.todo : tick[q] = master
      BY <1>3 DEF Clocks, InTurn
    <2> QED BY <1>2, <1>3, <2>1 DEF Clocks
  <1>4. ASSUME NEW calls \in 0..1, NEW cost \in 0..1, Begin(calls, cost)
        PROVE  Clocks'
    BY <1>4 DEF Begin, Drifted, Clocks
  <1>5. ASSUME NEW p \in Participants, NEW news \in BOOLEAN, NEW ends \in BOOLEAN,
               NEW moves \in BOOLEAN, NEW cost \in 0..1, Advance(p, news, ends, moves, cost)
        PROVE  Clocks'
    <2>1. /\ InTurn(p) /\ UNCHANGED master
          /\ tick' = IF moves THEN [tick EXCEPT ![p] = @ + 1] ELSE tick
          /\ step' = [step EXCEPT !.todo = @ \ {p}, !.cost = @ + cost]
      BY <1>5 DEF Advance
    <2>2. step'.todo = step.todo \ {p}
      BY <1>1, <2>1 DEF RunnerTypes
    <2> QED BY <1>3, <2>1, <2>2 DEF Clocks
  <1>6. ASSUME NEW p \in Participants, NEW news \in BOOLEAN, NEW moves \in BOOLEAN,
               Raise(p, news, moves)
        PROVE  Clocks'
    <2>1. /\ InTurn(p) /\ UNCHANGED master
          /\ tick' = IF moves THEN [tick EXCEPT ![p] = @ + 1] ELSE tick
          /\ step' = [step EXCEPT !.at = "raising"]
      BY <1>6 DEF Raise
    <2>2. step'.at # "advance"
      BY <1>1, <2>1 DEF RunnerTypes
    <2> QED BY <1>3, <2>1, <2>2 DEF Clocks
  <1>7. CASE CloseBatch
    <2>1. step'.at # "advance" /\ UNCHANGED <<tick, master>>
      BY <1>1, <1>7 DEF CloseBatch, RunnerTypes
    <2> QED BY <2>1 DEF Clocks
  <1>8. CASE Deliver
    BY <1>8 DEF Deliver, Clocks
  <1>9. CASE Unwind
    BY <1>9 DEF Unwind, Clocks, Idle
  <1>10. CASE Account
    <2>1. UNCHANGED tick /\ step' = Idle /\ master' \in {master, master + 1}
      BY <1>10 DEF Account
    <2> QED BY <1>2, <2>1 DEF Clocks, Idle
  <1> QED BY <1>4, <1>5, <1>6, <1>7, <1>8, <1>9, <1>10 DEF Next

-----------------------------------------------------------------------------
(* The report *)

LEMMA PrefixOfAppend ==
  ASSUME NEW S, NEW q \in Seq(S), NEW n \in Nat, n <= Len(q), NEW e
  PROVE  /\ SubSeq(Append(q, e), 1, n) = SubSeq(q, 1, n)
         /\ Len(q) <= Len(Append(q, e))
         /\ \A i \in 1..n : Append(q, e)[i] = q[i]
  OBVIOUS

LEMMA Joined ==
  ASSUME NEW S, NEW a \in Seq(S), NEW b \in Seq(S),
         NEW n, NEW m, n = Len(a), m = Len(b)
  PROVE  /\ a \o b \in Seq(S) /\ Len(a \o b) = n + m
         /\ \A i \in 1..n : (a \o b)[i] = a[i]
         /\ \A i \in 1..m : (a \o b)[n + i] = b[i]
  OBVIOUS

LEMMA SameSequence ==
  ASSUME NEW S, NEW c \in Seq(S), NEW q \in Seq(S), Len(c) = Len(q),
         \A i \in 1..Len(q) : c[i] = q[i]
  PROVE  c = q
  OBVIOUS

LEMMA Rejoined ==
  ASSUME NEW S, NEW q \in Seq(S), NEW n \in Nat, n <= Len(q)
  PROVE  SubSeq(q, 1, n) \o SubSeq(q, n + 1, Len(q)) = q
  <1> DEFINE a == SubSeq(q, 1, n)
             b == SubSeq(q, n + 1, Len(q))
  <1>1. a \in Seq(S) /\ Len(a) = n /\ \A i \in 1..n : a[i] = q[i]
    OBVIOUS
  <1>2. /\ b \in Seq(S) /\ Len(b) = Len(q) - n
        /\ \A i \in 1..(Len(q) - n) : b[i] = q[n + i]
    BY Segment
  <1>3. Len(q) \in Nat
    OBVIOUS
  <1> HIDE DEF a, b
  <1> DEFINE c == a \o b
             m == Len(q) - n
  <1>a. a \in Seq(S) /\ b \in Seq(S) /\ Len(a) = n /\ Len(b) = m
    BY <1>1, <1>2
  <1> HIDE DEF m
  <1>b. /\ a \o b \in Seq(S) /\ Len(a \o b) = n + m
        /\ \A i \in 1..n : (a \o b)[i] = a[i]
        /\ \A i \in 1..m : (a \o b)[n + i] = b[i]
    BY SMTT(30), <1>a, Joined
  <1> HIDE DEF c
  <1>4. /\ c \in Seq(S) /\ Len(c) = n + (Len(q) - n)
        /\ \A i \in 1..n : c[i] = a[i]
        /\ \A i \in 1..(Len(q) - n) : c[n + i] = b[i]
    BY <1>b DEF c, m
  <1>5. \A i \in 1..n : c[i] = q[i]
    BY <1>1, <1>4
  <1>6. \A i \in 1..(Len(q) - n) : c[n + i] = q[n + i]
    BY <1>2, <1>4
  <1>7. ASSUME NEW i \in (n + 1)..Len(q)
        PROVE  c[i] = q[i]
    <2>1. i - n \in 1..(Len(q) - n) /\ n + (i - n) = i
      BY <1>3
    <2> QED BY <1>6, <2>1
  <1>8. \A i \in 1..Len(q) : i \in 1..n \/ i \in (n + 1)..Len(q)
    BY <1>3
  <1>9. \A i \in 1..Len(q) : c[i] = q[i]
    BY <1>5, <1>7, <1>8
  <1>10. Len(c) = Len(q)
    BY <1>3, <1>4
  <1>11. c = q
    BY <1>4, <1>9, <1>10, SameSequence
  <1> QED BY <1>11 DEF a, b, c

LEMMA ReportedKeeps ==
  ASSUME Inv, Reported, Next
  PROVE  Reported'
  <1>1. BusInv /\ RunnerTypes /\ EventTypes /\ Phases
    BY TypesSplit DEF Inv, BusInv
  <1>2. /\ got \in [Callers -> Seq(1..published)] /\ got[Audit] \in Seq(1..published)
        /\ step.seen \in Nat /\ report \in Seq(1..published) /\ Len(got[Audit]) \in Nat
        /\ DOMAIN got[Audit] = 1..Len(got[Audit])
    BY SMTT(30), <1>1, BusTypes, Callers_ DEF BusInv, RunnerTypes, EventTypes
  <1>3. ASSUME NEW calls \in 0..1, NEW cost \in 0..1, Begin(calls, cost)
        PROVE  Reported'
    <2>1. CASE Drifted
      BY <1>3, <2>1 DEF Begin, bus, Reported
    <2>2. CASE ~Drifted
      <3>1. /\ step'.at = "advance" /\ step'.seen = Len(got[Audit]) /\ step.at = "idle"
            /\ UNCHANGED <<got, report, raised>>
        BY <1>3, <2>2 DEF Begin, BeginBatch
      <3>2. SubSeq(got[Audit], 1, Len(got[Audit])) = got[Audit]
        BY <1>2
      <3> QED BY <1>2, <3>1, <3>2 DEF Reported
    <2> QED BY <2>1, <2>2
  <1>4. ASSUME step.at # "idle", step'.at # "idle", UNCHANGED <<got, report>>,
               step'.seen = step.seen, raised \/ raised' = raised, raised' \in BOOLEAN,
               raised => raised'
        PROVE  Reported'
    BY <1>4 DEF Reported
  <1>5. ASSUME NEW p \in Participants, NEW news \in BOOLEAN, NEW ends \in BOOLEAN,
               NEW moves \in BOOLEAN, NEW cost \in 0..1, Advance(p, news, ends, moves, cost)
        PROVE  Reported'
    <2>1. Apply(p) /\ Announces(news) /\ step.at = "advance" /\ UNCHANGED <<report, raised>>
      BY <1>5 DEF Advance, InTurn
    <2>2. UNCHANGED got
      BY <2>1, AnnouncesKeeps
    <2>3. step'.at = step.at /\ step'.seen = step.seen
      BY <1>1, <1>5 DEF Advance, RunnerTypes
    <2> QED BY <2>1, <2>2, <2>3 DEF Reported
  <1>6. ASSUME NEW p \in Participants, NEW news \in BOOLEAN, NEW moves \in BOOLEAN,
               Raise(p, news, moves)
        PROVE  Reported'
    <2>1. /\ Apply(p) /\ Announces(news) /\ step.at = "advance" /\ UNCHANGED report
          /\ raised' = TRUE
      BY <1>6 DEF Raise, InTurn
    <2>2. UNCHANGED got
      BY <2>1, AnnouncesKeeps
    <2>3. step'.at = "raising" /\ step'.seen = step.seen
      BY <1>1, <1>6 DEF Raise, RunnerTypes
    <2> QED BY <2>1, <2>2, <2>3 DEF Reported
  <1>7. CASE CloseBatch
    <2>1. /\ step.at \in {"advance", "raising"} /\ step'.at \in {"flush", "unwind"}
          /\ step'.seen = step.seen /\ UNCHANGED <<got, report, raised>>
      BY <1>1, <1>7 DEF CloseBatch, EndBatch, RunnerTypes
    <2> QED BY <2>1 DEF Reported
  <1>8. CASE Deliver
    <2>1. /\ step.at \in {"flush", "unwind"} /\ UNCHANGED <<step, report, raised>>
          /\ got'[Audit] = got[Audit] \/ \E e : got'[Audit] = Append(got[Audit], e)
      BY <1>8, DeliverFacts, Callers_ DEF Deliver
    <2>2. step.seen <= Len(got[Audit])
      BY <2>1 DEF Reported
    <2>3. CASE got'[Audit] = got[Audit]
      BY <2>1, <2>3 DEF Reported
    <2>4. ASSUME NEW e, got'[Audit] = Append(got[Audit], e)
          PROVE  Reported'
      <3>1. /\ SubSeq(got'[Audit], 1, step.seen) = SubSeq(got[Audit], 1, step.seen)
            /\ Len(got[Audit]) <= Len(got'[Audit]) /\ Len(got'[Audit]) \in Nat
            /\ \A i \in 1..step.seen : got'[Audit][i] = got[Audit][i]
        BY <1>2, <2>2, <2>4, PrefixOfAppend
      <3>2. step.seen <= Len(got'[Audit])
        BY <1>2, <2>2, <3>1
      <3> QED BY <2>1, <3>1, <3>2 DEF Reported
    <2> QED BY <2>1, <2>3, <2>4
  <1>9. CASE Unwind
    <2>1. step.at = "unwind" /\ raised /\ step'.at = "idle" /\ UNCHANGED <<got, report, raised>>
      BY <1>1, <1>9 DEF Unwind, bus, Phases, Idle
    <2>2. 1..step.seen \subseteq DOMAIN got[Audit]
      BY <1>2, <2>1 DEF Reported
    <2> QED BY <2>1, <2>2 DEF Reported
  <1>10. CASE Account
    <2> DEFINE q == got[Audit]
               n == step.seen
               late == SubSeq(q, n + 1, Len(q))
    <2>1. /\ step.at = "flush" /\ report' = report \o late /\ step'.at = "idle"
          /\ UNCHANGED <<got, raised>>
      BY <1>10 DEF Account, bus, Idle
    <2>2. n <= Len(q) /\ \A i \in DOMAIN report : \E j \in 1..n : report[i] = q[j]
      BY <2>1 DEF Reported
    <2>3. /\ late \in Seq(1..published) /\ Len(late) = Len(q) - n /\ DOMAIN late = 1..(Len(q) - n)
          /\ \A i \in 1..(Len(q) - n) : late[i] = q[n + i]
      BY ZenonT(30), <1>2, <2>2, Segment
    <2>4. Injective(q) /\ Injective(report)
      BY <1>1, Callers_ DEF BusInv, OnceEach, Reported
    <2>5. /\ Len(report) \in Nat /\ DOMAIN report' = 1..(Len(report) + Len(late))
          /\ \A i \in 1..Len(report) : report'[i] = report[i]
          /\ \A i \in 1..Len(late) : report'[Len(report) + i] = late[i]
          /\ DOMAIN report = 1..Len(report) /\ Len(late) \in Nat
      <3> HIDE DEF late
      <3> QED BY <1>2, <2>1, <2>3
    <2> HIDE DEF late, q, n
    <2>6. ASSUME NEW i \in DOMAIN report'
          PROVE  \/ /\ i \in DOMAIN report /\ report'[i] = report[i]
                    /\ \E j \in 1..n : report'[i] = q[j]
                 \/ /\ i - Len(report) \in 1..(Len(q) - n)
                    /\ report'[i] = q[n + (i - Len(report))]
      <3>1. CASE i \in 1..Len(report)
        BY <2>2, <2>5, <3>1
      <3>2. CASE i \notin 1..Len(report)
        <4>1. i - Len(report) \in 1..Len(late) /\ i = Len(report) + (i - Len(report))
          BY <2>5, <3>2
        <4>2. report'[i] = late[i - Len(report)]
          BY <2>5, <4>1
        <4> QED BY <2>3, <4>1, <4>2
      <3> QED BY <3>1, <3>2
    <2>7. /\ n \in Nat /\ Len(q) \in Nat /\ DOMAIN q = 1..Len(q)
      BY <1>2 DEF q, n
    <2>8. ASSUME NEW i \in DOMAIN report'
          PROVE  \E j \in DOMAIN q : report'[i] = q[j]
      <3>1. CASE \E j \in 1..n : report'[i] = q[j]
        BY <2>2, <2>7, <3>1
      <3>2. CASE /\ i - Len(report) \in 1..(Len(q) - n)
                 /\ report'[i] = q[n + (i - Len(report))]
        <4>1. n + (i - Len(report)) \in DOMAIN q
          BY <2>2, <2>5, <2>7, <3>2
        <4> QED BY <3>2, <4>1
      <3> QED BY <2>6, <3>1, <3>2
    <2>9. Injective(report')
      <3>1. SUFFICES ASSUME NEW i \in DOMAIN report', NEW j \in DOMAIN report',
                            report'[i] = report'[j]
                     PROVE  i = j
        BY DEF Injective
      <3>2. CASE i \in DOMAIN report /\ j \in DOMAIN report
        BY <2>4, <2>5, <3>1, <3>2 DEF Injective
      <3>3. CASE i \notin DOMAIN report /\ j \notin DOMAIN report
        <4>1. /\ i - Len(report) \in 1..(Len(q) - n) /\ report'[i] = q[n + (i - Len(report))]
              /\ j - Len(report) \in 1..(Len(q) - n) /\ report'[j] = q[n + (j - Len(report))]
          BY <2>6, <3>3
        <4>2. n + (i - Len(report)) \in DOMAIN q /\ n + (j - Len(report)) \in DOMAIN q
          BY SMTT(30), <2>2, <2>5, <2>7, <4>1
        <4>3. n + (i - Len(report)) = n + (j - Len(report))
          BY <2>4, <3>1, <4>1, <4>2 DEF Injective
        <4> QED BY <2>5, <2>7, <4>3
      <3>4. ASSUME NEW a \in DOMAIN report', NEW b \in DOMAIN report',
                   a \in DOMAIN report, b \notin DOMAIN report
            PROVE  report'[a] # report'[b]
        <4>1. PICK k \in 1..n : report'[a] = q[k]
          BY <2>2, <2>5, <3>4
        <4>2. b - Len(report) \in 1..(Len(q) - n) /\ report'[b] = q[n + (b - Len(report))]
          BY <2>6, <3>4
        <4>3. /\ n + (b - Len(report)) \in DOMAIN q /\ k \in DOMAIN q
              /\ k # n + (b - Len(report))
          BY SMTT(30), <2>2, <2>5, <2>7, <4>1, <4>2
        <4> QED BY <2>4, <4>1, <4>2, <4>3 DEF Injective
      <3> QED BY <3>1, <3>2, <3>3, <3>4
    <2>10. ~raised => report' = q
      <3>1. ASSUME ~raised PROVE report = SubSeq(q, 1, n)
        BY <2>1, <3>1 DEF Reported, q, n
      <3>2. SubSeq(q, 1, n) \o late = q
        BY <1>2, <2>2, <2>7, Rejoined DEF late, q
      <3> QED BY <2>1, <3>1, <3>2
    <2>11. got'[Audit] = q
      BY <2>1 DEF q
    <2> QED BY <2>1, <2>8, <2>9, <2>10, <2>11 DEF Reported
  <1> QED BY <1>3, <1>5, <1>6, <1>7, <1>8, <1>9, <1>10 DEF Next

-----------------------------------------------------------------------------
(* What holds in every behaviour *)

IInv == Inv /\ Unseen /\ Clocks /\ Reported

LEMMA Inductive ==
  ASSUME IInv, [Next]_vars
  PROVE  IInv'
  <1>1. Inv /\ Unseen /\ Clocks /\ Reported
    BY DEF IInv
  <1>2. CASE Next
    <2>1. ASSUME NEW calls \in 0..1, NEW cost \in 0..1, Begin(calls, cost)
          PROVE  Inv'
      BY <1>1, <2>1, BeginInv
    <2>2. ASSUME NEW p \in Participants, NEW news \in BOOLEAN, NEW ends \in BOOLEAN,
                 NEW moves \in BOOLEAN, NEW cost \in 0..1, Advance(p, news, ends, moves, cost)
          PROVE  Inv'
      BY <1>1, <2>2, AdvanceInv
    <2>3. ASSUME NEW p \in Participants, NEW news \in BOOLEAN, NEW moves \in BOOLEAN,
                 Raise(p, news, moves)
          PROVE  Inv'
      BY <1>1, <2>3, RaiseInv
    <2>4. ASSUME CloseBatch PROVE Inv'
      BY <1>1, <2>4, CloseBatchInv
    <2>5. ASSUME Deliver PROVE Inv'
      BY <1>1, <2>5, DeliverInv
    <2>6. ASSUME Unwind PROVE Inv'
      BY <1>1, <2>6, UnwindInv
    <2>7. ASSUME Account PROVE Inv'
      <3>1. step.seen <= Len(got[Audit])
        BY <1>1, <2>7 DEF Reported, Account
      <3> QED BY <1>1, <2>7, <3>1, AccountInv
    <2>8. Inv'
      BY <1>2, <2>1, <2>2, <2>3, <2>4, <2>5, <2>6, <2>7 DEF Next
    <2>9. Unseen' /\ Clocks' /\ Reported'
      BY <1>1, <1>2, UnseenKeeps, ClocksKeep, ReportedKeeps
    <2> QED BY <2>8, <2>9 DEF IInv
  <1>3. CASE UNCHANGED vars
    <2>1. UNCHANGED bus /\ UNCHANGED runner
      BY <1>3 DEF vars
    <2>2. /\ UNCHANGED <<published, depth, pending, flushing, stack, got, dropped>>
          /\ UNCHANGED <<step, tick, master, done, failed, used>>
          /\ UNCHANGED <<report, fresh, applied, early, raised>>
      BY <2>1 DEF bus, runner
    <2>3. BusInv /\ RunnerTypes /\ EventTypes /\ Phases
      BY <1>1, TypesSplit DEF Inv, BusInv
    <2>4. BusInv'
      BY <2>1, <2>3, BusStays
    <2>5. RunnerTypes' /\ EventTypes'
      BY <2>2, <2>3 DEF RunnerTypes, EventTypes
    <2>6. Phases'
      BY <2>2, <2>3 DEF Phases, Quiet
    <2>7. Inv'
      BY <2>4, <2>5, <2>6, InvNext
    <2>8. Unseen' /\ Clocks'
      BY <1>1, <2>2 DEF Unseen, Clocks
    <2>9. Reported'
      BY <1>1, <2>2 DEF Reported, Injective
    <2> QED BY <2>7, <2>8, <2>9 DEF IInv
  <1> QED BY <1>2, <1>3

(* Every state of every behaviour satisfies the inductive invariant, for any  *)
(* number of participants and any order of subscription.                     *)
THEOREM Invariance == Spec => []IInv
  <1>1. Init => IInv
    BY InitInv DEF IInv
  <1>2. IInv /\ [Next]_vars => IInv'
    BY Inductive
  <1> QED BY <1>1, <1>2, PTL DEF Spec

(* The variables keep their types: in particular the joint budget that is      *)
(* spent never exceeds what was given (CoupledBudget).                        *)
THEOREM TypeCorrect == Spec => []TypeOK
  <1>1. IInv => TypeOK
    BY DEF IInv, Inv
  <1> QED BY <1>1, Invariance, PTL

LEMMA ReceiptsCount ==
  ASSUME BusInv, NEW e \in 1..published, NEW s \in Callers
  PROVE  Receipts(e, s) = IF Reached(e, s) THEN 1 ELSE 0
  <1> DEFINE at == {i \in DOMAIN got[s] : got[s][i] = e}
  <1>1. Injective(got[s]) /\ \A i \in DOMAIN got[s] : <<got[s][i], s>> \notin dropped
    BY DEF BusInv, OnceEach
  <1>2. CASE at = {}
    <2>1. Cardinality(at) = 0
      BY <1>2, FS_EmptySet
    <2>2. Reached(e, s) <=> <<e, s>> \in dropped
      BY <1>2 DEF Reached
    <2> QED BY <2>1, <2>2 DEF Receipts
  <1>3. CASE at # {}
    <2>1. PICK i \in DOMAIN got[s] : got[s][i] = e
      BY <1>3
    <2>2. at = {i}
      BY <1>1, <2>1 DEF Injective
    <2>3. Cardinality(at) = 1
      BY <2>2, FS_Singleton
    <2>4. <<e, s>> \notin dropped /\ Reached(e, s)
      BY <1>1, <2>1 DEF Reached
    <2> QED BY <2>3, <2>4 DEF Receipts
  <1> QED BY <1>2, <1>3

(* The delivery contract of the bus: every published event reaches every       *)
(* subscriber once or is counted as dropped for it, whatever callbacks publish *)
(* or raise, and nothing is left behind when a batch has been delivered.      *)
THEOREM DeliveredExactlyOnce == Spec => []DeliveredOnce
  <1>1. IInv => DeliveredOnce
    <2> SUFFICES ASSUME IInv
                 PROVE  DeliveredOnce
      OBVIOUS
    <2>1. BusInv /\ Phases /\ RunnerTypes
      BY TypesSplit DEF IInv, Inv
    <2>2. \A e \in 1..published, s \in Callers : Receipts(e, s) <= 1
      BY <2>1, ReceiptsCount
    <2>3. ASSUME Quiet, depth = 0, NEW e \in 1..published, NEW s \in Callers
          PROVE  Receipts(e, s) = 1
      <3>1. pending = <<>> /\ flushing = <<>> /\ stack = <<>>
        BY <2>1, <2>3 DEF Phases, Quiet, RunnerTypes
      <3>2. Reached(e, s)
        BY <2>1, <2>3, <3>1 DEF BusInv, Progress
      <3> QED BY <2>1, <3>2, ReceiptsCount
    <2> QED BY <2>2, <2>3 DEF DeliveredOnce
  <1> QED BY <1>1, Invariance, PTL

(* A cascade takes a tick: whatever the order in which the participants are    *)
(* advanced, none applies an event of the joint step it is in.               *)
THEOREM CascadeTakesATick == Spec => []NeverEarly
  <1>1. IInv => NeverEarly
    BY DEF IInv, Unseen, NeverEarly
  <1> QED BY <1>1, Invariance, PTL

(* Lock step: when the common clock goes on, every participant of the joint    *)
(* step is at the new tick, and no participant that has finished is past it. *)
THEOREM LockStepKept == Spec => LockStep
  <1>1. IInv /\ [Next]_vars =>
          [master' > master =>
             /\ \A p \in step.active : tick[p] = master'
             /\ \A p \in done' : tick[p] <= master']_vars
    <2> SUFFICES ASSUME IInv, Next, master' > master
                 PROVE  /\ \A p \in step.active : tick[p] = master'
                        /\ \A p \in done' : tick[p] <= master'
      OBVIOUS
    <2>1. RunnerTypes /\ Clocks
      BY TypesSplit DEF IInv, Inv
    <2>2. master \in Nat /\ done \subseteq Participants
      BY <2>1 DEF RunnerTypes
    <2>3. ~ UNCHANGED master
      BY SMTT(30), <2>2
    <2>4. Account
      BY ZenonT(30), <2>3 DEF Next, Begin, Advance, Raise, CloseBatch, Deliver, Unwind
    <2>5. /\ ~(\E p \in step.active : tick[p] # master + 1)
          /\ master' = master + 1 /\ UNCHANGED done
      BY <2>3, <2>4 DEF Account
    <2> QED BY <2>1, <2>2, <2>5 DEF Clocks
  <1> QED BY <1>1, Invariance, PTL DEF Spec, LockStep

(* The episode's report lists every delivery once, and between joint steps it  *)
(* is what the runner's subscription received if no participant raised.      *)
THEOREM ReportExact == Spec => []ReportIsExact
  <1>1. IInv => ReportIsExact
    BY DEF IInv, Reported, ReportIsExact, Injective
  <1> QED BY <1>1, Invariance, PTL
=============================================================================
