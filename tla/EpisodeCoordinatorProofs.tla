------------------------ MODULE EpisodeCoordinatorProofs ------------------------
(***************************************************************************)
(* Proofs about EpisodeCoordinator, for any news, verdicts, delays and      *)
(* numbers of ticks: its types, that one behavioural transaction is open at *)
(* a time, that the agent's memory follows what the world took (but for the *)
(* turn that stop may leave with the actor), that no event is lost, and     *)
(* that turns begin between ticks only.                                     *)
(*                                                                         *)
(* The coordinator's operators take its record c to a new one, and most     *)
(* steps are several of them in a row.  So the invariant is a predicate of  *)
(* such a record, and each operator gets a lemma that says what it keeps.   *)
(***************************************************************************)
EXTENDS EpisodeCoordinator, FiniteSetTheorems, WellFoundedInduction, TLAPS

(* The turn that the worker has in hand, and all that it may yet come to.   *)
Busy == IF worker.at \in {"run", "callback"} THEN worker.job.turn ELSE 0

InPlay(c, b) == ({b, c.current} \cup {c.line[i].turn : i \in DOMAIN c.line}) \ {0}

(* The turns that the actor has heard of. *)
AtActor  == {submitted, clock.held} \ {0}
Answered == {receipts[i].turn : i \in DOMAIN receipts}
Recorded == {transitions[i].turn : i \in DOMAIN transitions} \ {0}
Known    == won \cup owed \cup failed \cup Answered \cup Recorded \cup AtActor

(* A turn is in flight while it is the current one and awaits its receipt   *)
(* while it is the awaiting one; in between its memory is not decided.      *)
Transaction(c) ==
  /\ c.current = 0 \/ c.awaiting = 0
  /\ c.current # 0 => c.accept
  /\ \A t \in DOMAIN c.turns :
       /\ c.turns[t].status = "in_flight" <=> t = c.current
       /\ c.turns[t].status = "awaiting" <=> t = c.awaiting
       /\ c.turns[t].held = "open" <=> t \in {c.current, c.awaiting}

(* A turn is once in the line or with the worker. *)
InLine(c, b) ==
  /\ b \in 0..Len(c.turns)
  /\ \A i \in DOMAIN c.line : c.line[i].turn = b => b = 0
  /\ \A i, j \in DOMAIN c.line : c.line[i].turn = c.line[j].turn => i = j \/ c.line[i].turn = 0

(* A turn that may still be answered is not known to the actor; the one that *)
(* awaits is with it, or its answer is on the way.  What the actor still has *)
(* of a turn that no longer awaits is the turn that stop left with it.      *)
World(c, b) ==
  /\ Known \subseteq DOMAIN c.turns
  /\ InPlay(c, b) \cap Known = {}
  /\ AtActor \subseteq {c.awaiting, main.abandoned}
  /\ c.awaiting # 0 => c.awaiting \in AtActor \cup owed \cup Answered
  /\ \A t \in DOMAIN c.turns :
       /\ c.turns[t].held = "committed" => t \in won
       /\ c.turns[t].held = "rolled_back" => t \notin won \ failed \/ t = main.abandoned

(* The open events are the pending ones and those in X, which the main loop *)
(* has in hand.                                                             *)
Events(c, X) ==
  /\ X \subseteq DOMAIN c.events /\ X \cap c.pending = {}
  /\ \A e \in DOMAIN c.events : c.events[e].fate = "open" <=> e \in c.pending \cup X
  /\ c.current # 0 => c.events[c.turns[c.current].event].fate = "delivered"

Good(c, b, X) ==
  /\ c \in Records /\ Linked(c)
  /\ Transaction(c) /\ InLine(c, b) /\ World(c, b) /\ Events(c, X)

(* What the actor says is true: of what it holds it has said nothing, its   *)
(* answers and records tell who won.                                        *)
Actor ==
  /\ submitted = 0 \/ clock.held = 0
  /\ AtActor \cap (won \cup owed \cup Answered \cup Recorded) = {}
  /\ owed \subseteq won
  /\ \A i \in DOMAIN receipts :
       IF receipts[i].status \in Commits THEN receipts[i].turn \in won
                                         ELSE receipts[i].turn \notin won \ failed
  /\ \A i \in DOMAIN transitions :
       transitions[i].turn # 0 => (transitions[i].wins <=> transitions[i].turn \in won)
  /\ clock.at # "dispatch" => clock.held = 0
  /\ clock.at = "stopped" => clock.stop
  /\ clock.at = "dispatch" => tick < MaxTicks

(* Where the main loop is. *)
Consumed == main.at \in {"interrupt", "dispatch"} /\ main.then = "next"

Submitting(backs) == main.at \in {"flush", "submit", "track"} /\ main.back \in backs

InTransition ==
  \/ main.at \in {"settle", "ingest", "emit"}
  \/ Consumed
  \/ Submitting({"ingest", "emit"})

Finishing ==
  \/ main.at \in {"invalidate", "suppress", "wait", "ended"}
  \/ Submitting({"suppress"})

Loop ==
  /\ main.seen <= main.upto /\ main.upto <= tick
  /\ InTransition => main.seen < main.upto
  /\ Len(transitions) = tick - main.seen - (IF Consumed THEN 1 ELSE 0)
  /\ main.event # 0 <=> main.at = "interrupt"
  /\ main.at = "track" => main.out # <<>>
  /\ main.at \in {"flush", "submit", "track"} => main.back # "loop"
  /\ main.at = "feedback" \/ Submitting({"feedback", "dispatch"}) => main.then = "drain"

Ending ==
  /\ main.closing \/ main.at \in {"stop", "join"} => ~co.accept
  /\ main.closing => /\ main.at \notin {"begin", "loop", "stop", "join"}
                     /\ main.at \in {"interrupt", "dispatch"} => main.then # "loop"
  /\ Finishing => main.closing
  /\ main.at = "invalidate" => co.awaiting \in {0, main.abandoned}
  /\ Finishing /\ main.at # "invalidate" => co.awaiting = 0
  /\ main.at \in {"wait", "ended"} => co.pending = {}
  /\ main.at = "begin" => /\ worker.at = "idle" /\ co.events = <<>> /\ co.turns = <<>>
                          /\ co.pending = {} /\ co.line = <<>> /\ co.accept

(* What stop left with the actor: once stop has returned, the actor holds   *)
(* no other action, and a turn that still awaits is that one, or is answered. *)
Left ==
  /\ main.closing \/ main.abandoned = 0
  /\ main.closing => /\ AtActor \subseteq {main.abandoned}
                     /\ co.awaiting \in {0, main.abandoned} \cup Answered

Typed ==
  /\ main \in Loops /\ worker \in Workers /\ clock \in Clocks
  /\ tick \in 0..MaxTicks
  /\ transitions \in Seq(Transition) /\ receipts \in Seq(Receipt)

Hand == {main.event} \ {0}

IInv == Typed /\ Good(co, Busy, Hand) /\ Actor /\ Loop /\ Ending /\ Left

-----------------------------------------------------------------------------
(* Data *)

(* A set of numbers that is not empty has a least one. *)
LEMMA Least ==
  ASSUME NEW S \in SUBSET Nat, S # {}
  PROVE  \E x \in S : \A y \in S : x <= y
<1>1. PICK x \in S : \A y \in S : ~ (<<y, x>> \in OpToRel(<, Nat))
  BY ZenonT(30), NatLessThanWellFounded, WFMin
<1>2. ASSUME NEW y \in S PROVE x <= y
  <2>1. ~ (y < x)
    BY <1>1 DEF OpToRel
  <2>2. x \in Nat /\ y \in Nat
    OBVIOUS
  <2> QED
    BY <2>1, <2>2
<1> QED
  BY <1>2

LEMMA MinIs ==
  ASSUME NEW S \in SUBSET Nat, S # {}
  PROVE  Min(S) \in S /\ \A y \in S : Min(S) <= y
BY Least DEF Min

LEMMA EventIs ==
  ASSUME NEW c \in Records, NEW e \in DOMAIN c.events
  PROVE  /\ c.events[e] \in Event /\ e \in Nat /\ e >= 1 /\ e <= Len(c.events)
         /\ c.events[e].kind \in Kinds /\ c.events[e].deadline \in Nat
         /\ c.events[e].fate \in Fates
<1>1. c.events \in Seq(Event)
  BY DEF Records
<1>2. c.events[e] \in Event /\ e \in Nat /\ e >= 1 /\ e <= Len(c.events)
  BY SMTT(30), <1>1
<1> QED
  BY <1>2 DEF Event

LEMMA PrioIs ==
  ASSUME NEW c \in Records, NEW e \in DOMAIN c.events
  PROVE  Prio(c, e) \in 0..200
<1> DEFINE k == c.events[e].kind
<1>1. k \in Kinds
  BY EventIs
<1> HIDE DEF k
<1>2. Priority[k] \in 0..200
  <2>1. /\ Priority["start"] = 50 /\ Priority["review"] = 50 /\ Priority["forecast"] = 80
        /\ Priority["feedback"] = 90 /\ Priority["alarm"] = 100 /\ Priority["warning"] = 200
    BY DEF Priority
  <2> HIDE DEF Priority
  <2> QED
    BY <1>1, <2>1 DEF Kinds, Alarms
<1> QED
  BY <1>2 DEF Prio, k

(* Of some events one comes first. *)
LEMMA FirstIs ==
  ASSUME NEW c \in Records, NEW S \in SUBSET DOMAIN c.events, S # {}
  PROVE  First(c, S) \in S
<1> DEFINE Rest == {200 - Prio(c, e) : e \in S}
<1>1. Rest \in SUBSET Nat /\ Rest # {}
  BY PrioIs
<1>2. PICK r \in Rest : \A q \in Rest : r <= q
  <2> HIDE DEF Rest
  <2> QED
    BY <1>1, Least
<1> DEFINE Top == {e \in S : 200 - Prio(c, e) = r}
<1>3. Top \in SUBSET Nat /\ Top # {}
  BY EventIs
<1>4. PICK e \in Top : \A f \in Top : e <= f
  <2> HIDE DEF Top
  <2> QED
    BY <1>3, Least
<1>5. \A f \in S \ {e} : Before(c, e, f)
  <2> SUFFICES ASSUME NEW f \in S, f # e PROVE Before(c, e, f)
    OBVIOUS
  <2>1. Prio(c, e) \in 0..200 /\ Prio(c, f) \in 0..200
    BY PrioIs
  <2>2. Prio(c, f) <= Prio(c, e)
    <3>1. 200 - Prio(c, f) \in Rest /\ 200 - Prio(c, e) = r
      BY <1>4
    <3>2. 200 - Prio(c, e) <= 200 - Prio(c, f)
      BY <1>2, <3>1
    <3> QED
      BY SMTT(30), <2>1, <3>2
  <2>3. Prio(c, f) = Prio(c, e) => e < f
    <3>1. ASSUME Prio(c, f) = Prio(c, e) PROVE f \in Top
      BY <1>4, <3>1
    <3> QED
      BY <1>3, <1>4, <3>1
  <2> QED
    BY SMTT(30), <2>1, <2>2, <2>3 DEF Before
<1> QED
  BY <1>5 DEF First

-----------------------------------------------------------------------------
(* Operators that leave the turns alone *)

Kept(c, d) ==
  /\ d.turns = c.turns /\ d.current = c.current /\ d.awaiting = c.awaiting
  /\ d.accept = c.accept /\ d.line = c.line

LEMMA KeptGood ==
  ASSUME NEW c, NEW d, NEW b, NEW X, Kept(c, d), Good(c, b, X)
  PROVE  Transaction(d) /\ InLine(d, b) /\ World(d, b)
BY DEF Kept, Good, Transaction, InLine, World, InPlay

LEMMA MarkIs ==
  ASSUME NEW c \in Records, NEW S, NEW fate \in Fates
  PROVE  LET d == Mark(c, S, fate) IN
         /\ d \in Records /\ Kept(c, d) /\ d.pending = c.pending
         /\ DOMAIN d.events = DOMAIN c.events
         /\ \A e \in DOMAIN c.events :
              /\ d.events[e].kind = c.events[e].kind
              /\ d.events[e].deadline = c.events[e].deadline
              /\ d.events[e].fate = IF e \in S THEN fate ELSE c.events[e].fate
<1> DEFINE es == [e \in DOMAIN c.events |-> IF e \in S THEN [c.events[e] EXCEPT !.fate = fate]
                                                     ELSE c.events[e]]
<1>1. Mark(c, S, fate) = [c EXCEPT !.events = es]
  BY DEF Mark
<1>2. \A e \in DOMAIN c.events :
        /\ es[e] \in Event
        /\ es[e].kind = c.events[e].kind
        /\ es[e].deadline = c.events[e].deadline
        /\ es[e].fate = IF e \in S THEN fate ELSE c.events[e].fate
  BY EventIs DEF Event
<1>3. es \in Seq(Event)
  BY SMTT(30), <1>2 DEF Records
<1>4. DOMAIN es = DOMAIN c.events
  OBVIOUS
<1> HIDE DEF es
<1> QED
  BY <1>1, <1>2, <1>3, <1>4 DEF Records, Kept

LEMMA QueueAllIs ==
  ASSUME NEW c \in Records, Linked(c), NEW S \in SUBSET DOMAIN c.events
  PROVE  LET d == QueueAll(c, S) IN
         /\ d \in Records /\ Kept(c, d)
         /\ DOMAIN d.events = DOMAIN c.events
         /\ \A e \in DOMAIN c.events : d.events[e].kind = c.events[e].kind
         /\ \A e \in DOMAIN c.events : d.events[e].deadline <= c.events[e].deadline
         /\ \E R \in SUBSET c.pending :
              /\ d.pending = (c.pending \ R) \cup S
              /\ \A e \in DOMAIN c.events :
                   d.events[e].fate = IF e \in S THEN "open"
                                      ELSE IF e \in R THEN "merged" ELSE c.events[e].fate
<1> DEFINE equal(e) == {p \in c.pending : SameKey(c, p, e)}
           R == UNION {equal(e) : e \in S}
           due(e) == Min({c.events[p].deadline : p \in equal(e) \cup {e}})
           es == [p \in DOMAIN c.events |->
                   IF p \in S THEN [c.events[p] EXCEPT !.fate = "open", !.deadline = due(p)]
                   ELSE IF p \in R THEN [c.events[p] EXCEPT !.fate = "merged"]
                   ELSE c.events[p]]
<1>1. QueueAll(c, S) = [c EXCEPT !.pending = (c.pending \ R) \cup S, !.events = es]
  BY DEF QueueAll
<1>2. R \in SUBSET c.pending /\ c.pending \subseteq DOMAIN c.events /\ c.pending \in SUBSET Nat
  BY DEF Linked, Records
<1>3. ASSUME NEW e \in S PROVE due(e) \in Nat /\ due(e) <= c.events[e].deadline
  <2> DEFINE D == {c.events[p].deadline : p \in equal(e) \cup {e}}
  <2>1. D \in SUBSET Nat /\ D # {} /\ c.events[e].deadline \in D
    BY <1>2, EventIs
  <2> HIDE DEF D
  <2>2. Min(D) \in D /\ Min(D) <= c.events[e].deadline
    BY <2>1, MinIs
  <2> QED
    BY <2>1, <2>2 DEF D
<1> HIDE DEF due, R
<1>4. ASSUME NEW e \in DOMAIN c.events
      PROVE  /\ es[e] \in Event /\ es[e].kind = c.events[e].kind
             /\ es[e].deadline <= c.events[e].deadline
             /\ es[e].fate = IF e \in S THEN "open"
                             ELSE IF e \in R THEN "merged" ELSE c.events[e].fate
  <2>1. /\ c.events[e] \in Event /\ c.events[e].deadline \in Nat
    BY EventIs
  <2>2. CASE e \in S
    BY ZenonT(30), <1>3, <2>1, <2>2 DEF Event, Fates
  <2>3. CASE e \in R \ S
    <3>1. es[e] = [c.events[e] EXCEPT !.fate = "merged"]
      BY ZenonT(30), <2>3
    <3> HIDE DEF es
    <3> QED
      BY <2>1, <2>3, <3>1 DEF Event, Fates
  <2>4. CASE e \notin R \cup S
    <3>1. es[e] = c.events[e]
      BY ZenonT(30), <2>4
    <3> HIDE DEF es
    <3> QED
      BY <2>1, <2>4, <3>1
  <2> QED
    BY ZenonT(30), <2>2, <2>3, <2>4
<1>6. DOMAIN es = DOMAIN c.events /\ es = [e \in DOMAIN c.events |-> es[e]]
  BY ZenonT(30)
<1>5. es \in Seq(Event)
  <2> HIDE DEF es
  <2> QED
    BY <1>4, <1>6 DEF Records
<1>7. S \in SUBSET Nat
  BY EventIs
<1> HIDE DEF es
<1>8. /\ (c.pending \ R) \cup S \in SUBSET Nat
  BY <1>2, <1>7
<1> DEFINE d == [c EXCEPT !.pending = (c.pending \ R) \cup S, !.events = es]
<1>9. /\ d \in Records /\ Kept(c, d) /\ d.events = es /\ d.pending = (c.pending \ R) \cup S
  BY <1>5, <1>8 DEF Records, Kept
<1> HIDE DEF d
<1> QED
  BY <1>1, <1>2, <1>4, <1>6, <1>9 DEF d

(* Only events and pending ones change: what is left to show is about them. *)
LEMMA EventsGood ==
  ASSUME NEW c, NEW d \in Records, NEW b, NEW X, NEW Y, Kept(c, d), Good(c, b, X),
         DOMAIN c.events \subseteq DOMAIN d.events, d.pending \subseteq DOMAIN d.events,
         Events(d, Y)
  PROVE  Good(d, b, Y)
<1>1. Linked(d)
  BY DEF Good, Linked, Kept
<1> QED
  BY <1>1, KeptGood DEF Good

(* Events that are open get another fate, and are no longer pending; others *)
(* that are no longer pending are in the hands of who took them.            *)
LEMMA MarkGood ==
  ASSUME NEW c, NEW b, NEW X, Good(c, b, X), NEW S \in SUBSET (c.pending \cup X),
         NEW fate \in Fates \ {"open"}, NEW P \in SUBSET c.pending, P \cap S = {}
  PROVE  LET d == [Mark(c, S, fate) EXCEPT !.pending = P] IN
         /\ Good(d, b, (X \cup (c.pending \ P)) \ S)
         /\ d \in Records /\ Kept(c, d) /\ d.pending = P
<1> DEFINE m == Mark(c, S, fate)
           d == [m EXCEPT !.pending = P]
           Y == (X \cup (c.pending \ P)) \ S
<1>1. /\ c \in Records /\ Linked(c) /\ Events(c, X)
  BY DEF Good
<1>2. /\ m \in Records /\ Kept(c, m) /\ DOMAIN m.events = DOMAIN c.events
      /\ \A e \in DOMAIN c.events :
           m.events[e].fate = IF e \in S THEN fate ELSE c.events[e].fate
  BY <1>1, MarkIs
<1> HIDE DEF m
<1>3. /\ d \in Records /\ Kept(c, d) /\ d.pending = P /\ d.events = m.events
  BY <1>1, <1>2 DEF Records, Kept
<1> HIDE DEF d
<1>4. Events(d, Y)
  <2>1. ASSUME c.current # 0
        PROVE  /\ c.turns[c.current].event \in DOMAIN c.events
               /\ c.turns[c.current].event \notin S
    <3>1. c.current \in DOMAIN c.turns
      BY <1>1, <2>1 DEF Linked, Records
    <3> QED
      BY <1>1, <2>1, <3>1 DEF Linked, Events
  <2>2. Y \cap P = {} /\ Y \subseteq DOMAIN c.events
    BY <1>1 DEF Events, Linked
  <2>3. c.pending \cup X = S \cup P \cup Y
    OBVIOUS
  <2>4. S \cap (P \cup Y) = {}
    OBVIOUS
  <2> HIDE DEF Y
  <2>5. \A e \in DOMAIN d.events : d.events[e].fate = "open" <=> e \in d.pending \cup Y
    BY <1>1, <1>2, <1>3, <2>3, <2>4 DEF Events
  <2> QED
    BY <1>1, <1>2, <1>3, <2>1, <2>2, <2>5 DEF Events, Kept
<1>5. Good(d, b, Y)
  <2> HIDE DEF Y
  <2> QED
    BY <1>1, <1>2, <1>3, <1>4, EventsGood DEF Linked
<1> QED
  BY <1>3, <1>5 DEF d, m

(* An event that is queued leaves the hands of the main loop, or comes back *)
(* from a turn.                                                             *)
LEMMA QueueGood ==
  ASSUME NEW c, NEW b, NEW X, NEW Y, Good(c, b, X), NEW S \in SUBSET DOMAIN c.events,
         Y = X \ S,
         c.current # 0 => c.turns[c.current].event \notin S
  PROVE  Good(QueueAll(c, S), b, Y)
<1> DEFINE d == QueueAll(c, S)
<1>1. /\ c \in Records /\ Linked(c) /\ Events(c, X)
  BY DEF Good
<1>2. /\ d \in Records /\ Kept(c, d) /\ DOMAIN d.events = DOMAIN c.events
      /\ \E R \in SUBSET c.pending :
              /\ d.pending = (c.pending \ R) \cup S
              /\ \A e \in DOMAIN c.events :
                   d.events[e].fate = IF e \in S THEN "open"
                                      ELSE IF e \in R THEN "merged" ELSE c.events[e].fate
  BY <1>1, QueueAllIs
<1> HIDE DEF d
<1>3. PICK R \in SUBSET c.pending :
              /\ d.pending = (c.pending \ R) \cup S
              /\ \A e \in DOMAIN c.events :
                   d.events[e].fate = IF e \in S THEN "open"
                                      ELSE IF e \in R THEN "merged" ELSE c.events[e].fate
  BY <1>2
<1>4. ASSUME c.current # 0
      PROVE  /\ c.turns[c.current].event \in DOMAIN c.events
             /\ c.turns[c.current].event \notin S \cup R
             /\ c.events[c.turns[c.current].event].fate = "delivered"
  <2>1. c.current \in DOMAIN c.turns
    BY <1>1, <1>4 DEF Linked, Records
  <2> QED
    BY <1>1, <1>4, <2>1 DEF Linked, Events
<1>5. Events(d, Y)
  <2>1. Y \subseteq DOMAIN d.events /\ Y \cap d.pending = {}
    BY <1>1, <1>2, <1>3 DEF Events
  <2>2. \A e \in DOMAIN d.events : d.events[e].fate = "open" <=> e \in d.pending \cup Y
    BY <1>1, <1>2, <1>3 DEF Events
  <2>3. d.current # 0 => d.events[d.turns[d.current].event].fate = "delivered"
    BY <1>2, <1>3, <1>4 DEF Kept
  <2> QED
    BY <2>1, <2>2, <2>3 DEF Events
<1> QED
  BY <1>1, <1>2, <1>3, <1>5, EventsGood DEF Linked, d

(* A new event is in the hands of who made it. *)
LEMMA NewEventGood ==
  ASSUME NEW c, NEW b, NEW X, Good(c, b, X), NEW kind \in Kinds, NEW deadline \in Nat
  PROVE  LET d == NewEvent(c, kind, deadline) IN
         /\ Good(d, b, X \cup {Len(c.events) + 1}) /\ Len(c.events) + 1 \notin X
         /\ Kept(c, d) /\ Len(d.events) = Len(c.events) + 1 /\ d.pending = c.pending
<1> DEFINE new == [kind |-> kind, deadline |-> deadline, fate |-> "open"]
           d == NewEvent(c, kind, deadline)
           n == Len(c.events) + 1
<1>1. /\ c \in Records /\ Linked(c) /\ Events(c, X)
  BY DEF Good
<1>2. new \in Event
  BY DEF Event, Fates
<1>3. c.events \in Seq(Event)
  BY <1>1 DEF Records
<1>4. /\ d \in Records /\ Kept(c, d) /\ d.pending = c.pending /\ d.events = Append(c.events, new)
  <2>1. Append(c.events, new) \in Seq(Event)
    BY <1>2, <1>3
  <2>2. d = [c EXCEPT !.events = Append(c.events, new)]
    BY DEF NewEvent
  <2> HIDE DEF new, d
  <2> QED
    BY <1>1, <2>1, <2>2 DEF Records, Kept
<1> HIDE DEF d
<1>5. /\ Len(d.events) = n /\ DOMAIN d.events = 1..n /\ DOMAIN c.events = 1..Len(c.events)
      /\ \A e \in DOMAIN c.events : d.events[e] = c.events[e]
      /\ d.events[n].fate = "open" /\ n \notin DOMAIN c.events /\ n \in DOMAIN d.events
      /\ DOMAIN c.events \subseteq DOMAIN d.events /\ DOMAIN d.events = DOMAIN c.events \cup {n}
  BY <1>2, <1>3, <1>4
<1>6. c.current # 0 => c.turns[c.current].event \in DOMAIN c.events
  BY <1>1 DEF Linked, Records
<1>7. n \notin X /\ n \notin c.pending
  BY <1>1, <1>5 DEF Events, Linked
<1>8. Events(d, X \cup {n})
  <2> HIDE DEF n
  <2> QED
    BY <1>1, <1>4, <1>5, <1>6, <1>7 DEF Events, Kept, Linked
<1>9. d.pending \subseteq DOMAIN d.events
  BY <1>1, <1>4, <1>5 DEF Linked
<1>10. Good(d, b, X \cup {n})
  <2> HIDE DEF n
  <2> QED
    BY <1>4, <1>5, <1>8, <1>9, EventsGood
<1> QED
  BY <1>4, <1>5, <1>7, <1>10 DEF d

LEMMA EndPlanGood ==
  ASSUME NEW c, NEW b, NEW X, Good(c, b, X), NEW e
  PROVE  /\ Good(EndPlan(c, e), b, X) /\ Kept(c, EndPlan(c, e))
         /\ EndPlan(c, e).events = c.events /\ EndPlan(c, e).pending = c.pending
<1> DEFINE d == EndPlan(c, e)
<1>1. /\ c \in Records /\ Linked(c) /\ Events(c, X)
  BY DEF Good
<1>2. d \in Records /\ Kept(c, d) /\ d.events = c.events /\ d.pending = c.pending
  BY <1>1 DEF EndPlan, Records, Kept
<1> HIDE DEF d
<1>3. Events(d, X)
  BY <1>1, <1>2 DEF Events, Kept
<1>4. Good(d, b, X)
  BY <1>1, <1>2, <1>3, EventsGood DEF Linked
<1> QED
  BY <1>2, <1>4 DEF d

(* Work without a turn may be added to the line. *)
LEMMA LineGood ==
  ASSUME NEW c, NEW d \in Records, NEW b, NEW X, Good(c, b, X),
         d.events = c.events, d.pending = c.pending, d.turns = c.turns,
         d.current = c.current, d.awaiting = c.awaiting, d.accept = c.accept,
         NEW s \in Seq(Work), d.line = c.line \o s, \A i \in DOMAIN s : s[i].turn = 0
  PROVE  Good(d, b, X)
<1>1. c.line \in Seq(Work)
  BY DEF Good, Records
<1>2. /\ \A i \in DOMAIN d.line :
           \/ i \in DOMAIN c.line /\ d.line[i] = c.line[i]
           \/ i \notin DOMAIN c.line /\ d.line[i].turn = 0
      /\ DOMAIN c.line \subseteq DOMAIN d.line
      /\ \A i \in DOMAIN c.line : d.line[i] = c.line[i]
  BY <1>1
<1>3. Linked(d)
  BY SMTT(30), <1>2 DEF Good, Linked, Records
<1>4. Transaction(d) /\ Events(d, X)
  BY DEF Good, Transaction, Events
<1>5. InLine(d, b)
  <2>1. InLine(c, b)
    BY DEF Good
  <2>2. \A i \in DOMAIN d.line : d.line[i].turn = b => b = 0
    BY <1>2, <2>1 DEF InLine
  <2>3. ASSUME NEW i \in DOMAIN d.line, NEW j \in DOMAIN d.line,
               d.line[i].turn = d.line[j].turn, d.line[i].turn # 0
        PROVE  i = j
    BY ZenonT(30), <1>2, <2>1, <2>3 DEF InLine
  <2> QED
    BY <2>1, <2>2, <2>3 DEF InLine
<1>6. InPlay(d, b) \subseteq InPlay(c, b)
  BY <1>2 DEF InPlay
<1>7. World(d, b)
  BY <1>6 DEF Good, World
<1> QED
  BY <1>3, <1>4, <1>5, <1>7 DEF Good

LEMMA FlushGood ==
  ASSUME NEW c, NEW b, NEW X, Good(c, b, X)
  PROVE  /\ Good(Flush(c), b, X)
         /\ Flush(c).turns = c.turns /\ Flush(c).current = c.current
         /\ Flush(c).awaiting = c.awaiting /\ Flush(c).accept = c.accept
         /\ Flush(c).events = c.events /\ Flush(c).pending = c.pending
<1> DEFINE s == [i \in DOMAIN c.deferred |-> Seen(c.deferred[i])]
           d == [c EXCEPT !.line = @ \o s,
                          !.ingesting = @ \cup ToSet(c.deferred),
                          !.deferred = <<>>, !.flushing = FALSE]
<1>1. CASE ~Free(c)
  BY <1>1 DEF Flush
<1>2. CASE Free(c)
  <2>1. c \in Records /\ c.deferred \in Seq(Nat) /\ c.line \in Seq(Work)
    BY DEF Good, Records
  <2>2. s \in Seq(Work) /\ \A i \in DOMAIN s : s[i].turn = 0
    <3>1. \A i \in DOMAIN c.deferred : c.deferred[i] \in Nat
      BY <2>1
    <3>2. \A i \in DOMAIN s : s[i] \in Work /\ s[i].turn = 0
      BY <3>1 DEF Seen, Work
    <3>3. Len(c.deferred) \in Nat /\ DOMAIN c.deferred = 1..Len(c.deferred)
      BY <2>1
    <3>4. s = [i \in 1..Len(c.deferred) |-> s[i]] /\ DOMAIN s = 1..Len(c.deferred)
      BY <3>3
    <3> HIDE DEF s
    <3>5. s \in [1..Len(c.deferred) -> Work]
      BY <3>2, <3>4
    <3> QED
      BY <3>2, <3>3, <3>5
  <2>3. ToSet(c.deferred) \in SUBSET Nat
    BY <2>1 DEF ToSet
  <2> HIDE DEF s
  <2>4. c.line \o s \in Seq(Work)
    BY <2>1, <2>2
  <2>5. /\ d \in Records /\ d.line = c.line \o s
        /\ d.events = c.events /\ d.pending = c.pending /\ d.turns = c.turns
        /\ d.current = c.current /\ d.awaiting = c.awaiting /\ d.accept = c.accept
    <3> DEFINE line == c.line \o s
               ingesting == c.ingesting \cup ToSet(c.deferred)
               none == <<>>
    <3>1. line \in Seq(Work) /\ ingesting \in SUBSET Nat /\ none \in Seq(Nat)
      BY <2>1, <2>3, <2>4 DEF Records
    <3>2. d = [c EXCEPT !.line = line, !.ingesting = ingesting, !.deferred = none,
                           !.flushing = FALSE]
      OBVIOUS
    <3> HIDE DEF none
    <3> HIDE DEF d
    <3>3. d.line = line
      BY <2>1, <3>2 DEF Records
    <3> HIDE DEF line, ingesting
    <3>4. /\ d \in Records
          /\ d.events = c.events /\ d.pending = c.pending /\ d.turns = c.turns
          /\ d.current = c.current /\ d.awaiting = c.awaiting /\ d.accept = c.accept
      BY <2>1, <3>1, <3>2 DEF Records
    <3> QED
      BY <3>3, <3>4 DEF line
  <2>6. Flush(c) = d
    BY <1>2 DEF Flush, s
  <2> HIDE DEF d
  <2>7. Good(d, b, X)
    BY <2>2, <2>5, LineGood
  <2> QED
    BY <2>5, <2>6, <2>7
<1> QED
  BY <1>1, <1>2

-----------------------------------------------------------------------------
(* Turns *)

(* The turns stay as many, and no other becomes the current one; or one is   *)
(* opened, between ticks, and is the current one.                           *)
Stays(c, d) == Len(d.turns) = Len(c.turns) /\ d.current \in {0, c.current}

Opens(c, d) ==
  /\ Len(d.turns) = Len(c.turns) + 1 /\ d.current = Len(d.turns)
  /\ clock.at = "idle" /\ ~clock.stop

(* No turn is opened when the end is near, where the pending events stay as  *)
(* they are; the awaiting turn keeps waiting.                               *)
Admits(c, d) ==
  /\ Stays(c, d) \/ Opens(c, d)
  /\ (d.accept <=> c.accept) /\ d.awaiting = c.awaiting
  /\ ~c.accept => d.pending = c.pending

LEMMA AdmitsKept ==
  ASSUME NEW c \in Records, NEW d, Kept(c, d), c.accept \/ d.pending = c.pending
  PROVE  Admits(c, d)
BY DEF Kept, Admits, Stays

ClockOk ==
  /\ clock.at \in {"idle", "dispatch", "done", "stopped"}
  /\ clock.at = "stopped" => clock.stop

(* A turn that may still be answered is undecided or was taken back, and the *)
(* actor has not heard of it.                                               *)
LEMMA InPlayIs ==
  ASSUME NEW c, NEW b, NEW X, Good(c, b, X), NEW t \in InPlay(c, b)
  PROVE  /\ t \in DOMAIN c.turns /\ t \in Nat /\ t # 0 /\ t <= Len(c.turns)
         /\ t \notin Known /\ t # c.awaiting
<1>1. c.turns \in Seq(TurnRecord) /\ c.line \in Seq(Work) /\ c.current \in Nat
  BY DEF Good, Records
<1>2. t \in Nat /\ t # 0 /\ t <= Len(c.turns)
  <2>1. CASE t = b
    BY <1>1, <2>1 DEF Good, InLine, InPlay
  <2>2. CASE t = c.current
    BY <1>1, <2>2 DEF Good, Linked, InPlay
  <2>3. ASSUME NEW i \in DOMAIN c.line, t = c.line[i].turn PROVE t \in Nat /\ t <= Len(c.turns)
    <3>1. c.line[i] \in Work
      BY <1>1
    <3> QED
      BY <2>3, <3>1 DEF Good, Linked, Work
  <2> QED
    BY <2>1, <2>2, <2>3 DEF InPlay
<1>3. t \notin Known
  BY DEF Good, World
<1>4. t # c.awaiting
  BY <1>2, <1>3 DEF Good, World, Known
<1> QED
  BY <1>1, <1>2, <1>3, <1>4

(* A turn in play is closed without effect, and its writes are taken back.  *)
LEMMA ClosedGood ==
  ASSUME NEW c, NEW d \in Records, NEW b, NEW X, Good(c, b, X), NEW t \in InPlay(c, b),
         d.events = c.events, d.pending = c.pending, d.awaiting = c.awaiting,
         d.accept = c.accept, d.line = c.line,
         d.current = IF c.current = t THEN 0 ELSE c.current,
         DOMAIN d.turns = DOMAIN c.turns,
         \A u \in DOMAIN c.turns \ {t} : d.turns[u] = c.turns[u],
         d.turns[t].event = c.turns[t].event,
         d.turns[t].held = "rolled_back",
         d.turns[t].status \in {"superseded", "completed", "failed"}
  PROVE  Good(d, b, X)
<1>1. /\ c \in Records /\ Linked(c) /\ Transaction(c) /\ InLine(c, b) /\ World(c, b)
      /\ Events(c, X)
  BY DEF Good
<1>2. t \in DOMAIN c.turns /\ t \in Nat /\ t # 0 /\ t \notin Known /\ t # c.awaiting
  BY InPlayIs
<1>3. Len(d.turns) = Len(c.turns)
  BY <1>1 DEF Records
<1>4. Linked(d)
  BY <1>1, <1>2, <1>3 DEF Linked
<1>5. Transaction(d)
  <2>1. DOMAIN c.turns \subseteq Nat \ {0}
    BY SMTT(30), <1>1 DEF Records
  <2>2. d.current = 0 \/ d.awaiting = 0
    BY <1>1 DEF Transaction
  <2>3. d.current # 0 => d.accept
    BY <1>1 DEF Transaction
  <2>4. ASSUME NEW u \in DOMAIN c.turns \ {t}
        PROVE  /\ d.turns[u].status = "in_flight" <=> u = d.current
               /\ d.turns[u].status = "awaiting" <=> u = d.awaiting
               /\ d.turns[u].held = "open" <=> u \in {d.current, d.awaiting}
    BY <1>1, <2>1 DEF Transaction
  <2>5. t # d.current /\ t # d.awaiting
    BY <1>2
  <2> QED
    BY <2>2, <2>3, <2>4, <2>5 DEF Transaction
<1>6. InLine(d, b)
  BY <1>1, <1>3 DEF InLine
<1>7. World(d, b)
  <2>1. InPlay(d, b) \subseteq InPlay(c, b)
    BY DEF InPlay
  <2> QED
    BY <1>1, <1>2, <2>1 DEF World, Known
<1>8. Events(d, X)
  <2>1. d.current # 0 => d.turns[d.current] = c.turns[c.current]
    BY <1>1 DEF Linked, Records
  <2> QED
    BY <1>1, <2>1 DEF Events
<1> QED
  BY <1>4, <1>5, <1>6, <1>7, <1>8 DEF Good

(* An event is given to a new turn. *)
LEMMA OpenedGood ==
  ASSUME NEW c, NEW b, NEW X, NEW e, e \notin X, Good(c, b, X \cup {e}), Free(c), c.accept
  PROVE  /\ Good(Opened(c, e), b, X) /\ Len(Opened(c, e).turns) = Len(c.turns) + 1
         /\ Opened(c, e).current = Len(c.turns) + 1
         /\ (Opened(c, e).accept <=> c.accept) /\ Opened(c, e).awaiting = c.awaiting
<1> DEFINE t == Len(c.turns) + 1
           m == Mark(c, {e}, "delivered")
           new == [event |-> e, deadline |-> c.events[e].deadline,
                   status |-> "in_flight", held |-> "open"]
           turns == Append(c.turns, new)
           line == Append(c.line, Turn(t))
           d == Opened(c, e)
<1>1. /\ c \in Records /\ Linked(c) /\ Transaction(c) /\ InLine(c, b) /\ World(c, b)
      /\ Events(c, X \cup {e})
  BY DEF Good
<1>2. e \in DOMAIN c.events /\ e \notin c.pending /\ e \in Nat /\ c.events[e].deadline \in Nat
  BY <1>1, EventIs DEF Events
<1>3. /\ m \in Records /\ Kept(c, m) /\ m.pending = c.pending
      /\ DOMAIN m.events = DOMAIN c.events
      /\ \A f \in DOMAIN c.events :
           m.events[f].fate = IF f \in {e} THEN "delivered" ELSE c.events[f].fate
  BY <1>1, MarkIs DEF Fates
<1>4. /\ c.turns \in Seq(TurnRecord) /\ c.line \in Seq(Work) /\ t \in Nat
  BY <1>1 DEF Records
<1>5. new \in TurnRecord /\ Turn(t) \in Work
  BY <1>2, <1>4 DEF TurnRecord, Work, Turn
<1>6. turns \in Seq(TurnRecord) /\ line \in Seq(Work)
  BY <1>4, <1>5
<1>7. d = [m EXCEPT !.turns = turns, !.current = t, !.line = line]
  BY <1>3 DEF Opened, Kept
<1>8. /\ DOMAIN turns = DOMAIN c.turns \cup {t} /\ t \notin DOMAIN c.turns
      /\ DOMAIN c.turns \subseteq Nat \ {0} /\ Len(turns) = t
      /\ \A u \in DOMAIN c.turns : turns[u] = c.turns[u]
      /\ turns[t] = new
  BY <1>4, <1>5
<1>9. /\ \A i \in DOMAIN line :
           \/ i \in DOMAIN c.line /\ line[i] = c.line[i]
           \/ i \notin DOMAIN c.line /\ i = Len(c.line) + 1 /\ line[i] = Turn(t)
      /\ \A i \in DOMAIN c.line : c.line[i].turn \in Nat /\ c.line[i].turn <= Len(c.turns)
  <2>1. \A i \in DOMAIN c.line : c.line[i] \in Work
    BY <1>4
  <2> QED
    BY SMTT(30), <1>1, <1>4, <1>5, <2>1 DEF Linked, Work
<1>10. /\ new.event = e /\ new.status = "in_flight" /\ new.held = "open" /\ Turn(t).turn = t
  BY DEF Turn
<1> HIDE DEF d, m, turns, line, new
<1>11. /\ d \in Records /\ d.turns = turns /\ d.current = t /\ d.line = line
       /\ d.awaiting = c.awaiting /\ d.accept = c.accept
       /\ d.events = m.events /\ d.pending = c.pending
  BY <1>3, <1>4, <1>6, <1>7 DEF Records, Kept
<1>12. c.current = 0 /\ c.awaiting = 0
  BY DEF Free
<1>19. Len(d.turns) = Len(c.turns) + 1 /\ Len(c.turns) \in Nat
  <2>1. Len(d.turns) = t
    BY <1>8, <1>11
  <2>2. Len(c.turns) \in Nat
    BY <1>4
  <2> QED
    BY <2>1, <2>2
<1>13. Linked(d)
  <2>1. d.pending \subseteq DOMAIN d.events
    BY <1>1, <1>3, <1>11 DEF Linked
  <2>2. \A u \in DOMAIN d.turns : d.turns[u].event \in DOMAIN d.events
    BY <1>1, <1>2, <1>3, <1>8, <1>10, <1>11 DEF Linked
  <2>3. {d.current, d.awaiting} \subseteq 0..Len(d.turns)
    BY <1>11, <1>12, <1>19
  <2>4. \A i \in DOMAIN d.line : d.line[i].turn <= Len(d.turns)
    BY <1>9, <1>10, <1>11, <1>19
  <2> QED
    BY <2>1, <2>2, <2>3, <2>4 DEF Linked
<1>14. Transaction(d)
  BY <1>1, <1>8, <1>10, <1>11, <1>12 DEF Transaction
<1>15. InLine(d, b)
  <2>1. b \in 0..Len(d.turns) /\ b # t
    BY <1>1, <1>19 DEF InLine
  <2>2. \A i \in DOMAIN d.line : d.line[i].turn = b => b = 0
    BY <1>1, <1>9, <1>10, <1>11, <2>1 DEF InLine
  <2>3. ASSUME NEW i \in DOMAIN d.line, NEW j \in DOMAIN d.line,
               d.line[i].turn = d.line[j].turn, d.line[i].turn # 0
        PROVE  i = j
    <3>1. CASE i \in DOMAIN c.line /\ j \in DOMAIN c.line
      BY <1>1, <1>9, <1>11, <2>3, <3>1 DEF InLine
    <3>2. CASE i \notin DOMAIN c.line /\ j \notin DOMAIN c.line
      BY <1>9, <1>11, <3>2
    <3>3. \A k \in DOMAIN c.line : c.line[k].turn # t
      BY <1>4, <1>9
    <3> QED
      BY <1>9, <1>10, <1>11, <2>3, <3>1, <3>2, <3>3
  <2> QED
    BY <2>1, <2>2, <2>3 DEF InLine
<1>16. World(d, b)
  <2>1. InPlay(d, b) \subseteq InPlay(c, b) \cup {t}
    BY <1>9, <1>10, <1>11 DEF InPlay
  <2>2. t \notin Known
    BY <1>1, <1>8 DEF World
  <2>3. Known \subseteq DOMAIN d.turns /\ InPlay(d, b) \cap Known = {}
    BY <1>1, <1>8, <1>11, <2>1, <2>2 DEF World
  <2>4. \A u \in DOMAIN d.turns :
          /\ d.turns[u].held = "committed" => u \in won
          /\ d.turns[u].held = "rolled_back" => u \notin won \ failed \/ u = main.abandoned
    BY <1>1, <1>8, <1>10, <1>11 DEF World
  <2> QED
    BY <1>1, <1>11, <2>3, <2>4 DEF World
<1>17. Events(d, X)
  BY <1>1, <1>2, <1>3, <1>8, <1>10, <1>11 DEF Events
<1>18. Good(d, b, X)
  BY <1>11, <1>13, <1>14, <1>15, <1>16, <1>17 DEF Good
<1> QED
  BY <1>8, <1>11, <1>18 DEF d

(* An event in hand is queued, or suppressed. *)
LEMMA QueuedGood ==
  ASSUME NEW c, NEW b, NEW X, NEW e, e \notin X, Good(c, b, X \cup {e})
  PROVE  Good(Queue(c, e), b, X) /\ Kept(c, Queue(c, e))
<1>1. /\ c \in Records /\ Events(c, X \cup {e}) /\ e \in DOMAIN c.events /\ Linked(c)
  BY DEF Good, Events
<1>2. c.current # 0 => c.turns[c.current].event \notin {e}
  BY <1>1 DEF Events
<1>3. X = (X \cup {e}) \ {e} /\ {e} \in SUBSET DOMAIN c.events
  BY <1>1
<1>4. Good(QueueAll(c, {e}), b, X)
  BY <1>2, <1>3, QueueGood
<1>5. Kept(c, QueueAll(c, {e}))
  BY <1>1, <1>3, QueueAllIs
<1> QED
  BY <1>4, <1>5 DEF Queue

LEMMA SuppressedGood ==
  ASSUME NEW c, NEW b, NEW X, NEW e, e \notin X, Good(c, b, X \cup {e})
  PROVE  LET m == Mark(c, {e}, "suppressed") IN
         Good(m, b, X) /\ Kept(c, m) /\ m.pending = c.pending
<1>1. c \in Records /\ Events(c, X \cup {e}) /\ e \in DOMAIN c.events /\ e \notin c.pending
  BY DEF Good, Events
<1> DEFINE m == Mark(c, {e}, "suppressed")
<1>2. m \in Records /\ Kept(c, m) /\ m.pending = c.pending
  BY <1>1, MarkIs DEF Fates
<1>3. [m EXCEPT !.pending = c.pending] = m
  <2> HIDE DEF m
  <2> QED
    BY <1>2 DEF Records
<1>4. Good([m EXCEPT !.pending = c.pending], b,
           ((X \cup {e}) \cup (c.pending \ c.pending)) \ {e})
  <2>1. /\ {e} \in SUBSET (c.pending \cup (X \cup {e})) /\ c.pending \in SUBSET c.pending
        /\ c.pending \cap {e} = {} /\ "suppressed" \in Fates \ {"open"}
    BY <1>1 DEF Fates
  <2> HIDE DEF m
  <2> QED
    BY <2>1, MarkGood DEF m
<1>5. ((X \cup {e}) \cup (c.pending \ c.pending)) \ {e} = X
  OBVIOUS
<1> QED
  BY <1>2, <1>3, <1>4, <1>5

(* _start_turn: the event is delivered, queued, or suppressed. *)
LEMMA StartGood ==
  ASSUME NEW c, NEW b, NEW X, NEW e, e \notin X, Good(c, b, X \cup {e}),
         c.current = 0, c.accept, ClockOk
  PROVE  Good(Start(c, e), b, X) /\ Admits(c, Start(c, e))
<1>1. /\ c \in Records /\ Events(c, X \cup {e}) /\ e \in DOMAIN c.events /\ e \notin c.pending
      /\ Len(c.turns) \in Nat /\ Linked(c)
  BY DEF Good, Events, Records
<1>2. Good(Queue(c, e), b, X) /\ Admits(c, Queue(c, e))
  BY <1>1, QueuedGood, AdmitsKept
<1>3. Good(Mark(c, {e}, "suppressed"), b, X) /\ Admits(c, Mark(c, {e}, "suppressed"))
  BY <1>1, SuppressedGood, AdmitsKept
<1>4. CASE c.awaiting # 0 \/ c.ingesting # {}
  <2>1. Start(c, e) = Queue(c, e)
    BY <1>4 DEF Start
  <2> QED
    BY <1>2, <2>1
<1>5. CASE c.awaiting = 0 /\ c.ingesting = {}
  <2>1. CASE clock.at = "done" \/ clock.stop
    <3>1. Start(c, e) = Mark(c, {e}, "suppressed")
      BY <1>5, <2>1 DEF Start
    <3> QED
      BY <1>3, <3>1
  <2>2. CASE clock.at = "dispatch" /\ ~clock.stop
    <3>1. Start(c, e) = Queue(c, e)
      BY <1>5, <2>2 DEF Start
    <3> QED
      BY <1>2, <3>1
  <2>3. CASE clock.at \notin {"done", "dispatch"} /\ ~clock.stop
    <3>1. Start(c, e) = Opened(c, e)
      BY <1>5, <2>3 DEF Start
    <3>2. clock.at = "idle"
      BY <2>3 DEF ClockOk
    <3>3. Free(c)
      BY <1>5 DEF Free
    <3>4. /\ Good(Opened(c, e), b, X) /\ Len(Opened(c, e).turns) = Len(c.turns) + 1
          /\ Opened(c, e).current = Len(c.turns) + 1
          /\ (Opened(c, e).accept <=> c.accept) /\ Opened(c, e).awaiting = c.awaiting
      BY <3>3, OpenedGood
    <3> QED
      BY <1>1, <2>3, <3>1, <3>2, <3>4 DEF Admits, Opens
  <2> QED
    BY <2>1, <2>2, <2>3
<1> QED
  BY <1>4, <1>5

LEMMA DispatchGood ==
  ASSUME NEW c, NEW b, NEW X, Good(c, b, X), ClockOk
  PROVE  Good(Dispatch(c), b, X) /\ Admits(c, Dispatch(c))
<1> DEFINE late == {e \in c.pending : c.events[e].deadline < tick}
           inTime == c.pending \ late
           e == First(c, inTime)
           gone == {f \in late : Before(c, f, e)}
<1>1. /\ c \in Records /\ Events(c, X) /\ Linked(c) /\ Len(c.turns) \in Nat
      /\ c.pending \subseteq DOMAIN c.events
  BY SMTT(30) DEF Good, Records, Linked
<1>2. CASE ~c.accept \/ ~Free(c) \/ c.ingesting # {} \/ c.pending = {}
  BY <1>1, <1>2 DEF Dispatch, Admits, Stays
<1>3. ASSUME NEW S \in SUBSET c.pending, NEW P \in SUBSET c.pending, NEW fate \in Fates \ {"open"},
             P = c.pending \ S, c.accept
      PROVE  /\ Good([Mark(c, S, fate) EXCEPT !.pending = P], b, X)
             /\ Admits(c, [Mark(c, S, fate) EXCEPT !.pending = P])
  <2> DEFINE d == [Mark(c, S, fate) EXCEPT !.pending = P]
         Y == (X \cup (c.pending \ P)) \ S
  <2>1. Good(d, b, Y) /\ Kept(c, d)
    BY <1>3, MarkGood
  <2>2. Y = X
    BY <1>1, <1>3 DEF Events
  <2> HIDE DEF d, Y
  <2>3. Good(d, b, X) /\ Admits(c, d)
    BY <1>1, <1>3, <2>1, <2>2, AdmitsKept
  <2> QED
    BY <2>3 DEF d
<1>4. CASE c.accept /\ Free(c) /\ c.ingesting = {} /\ c.pending # {}
  <2>1. CASE clock.at = "done"
    <3>1. Dispatch(c) = [Mark(c, c.pending, "suppressed") EXCEPT !.pending = {}]
      BY <1>4, <2>1 DEF Dispatch
    <3>2. /\ c.pending \in SUBSET c.pending /\ {} \in SUBSET c.pending
          /\ {} = c.pending \ c.pending /\ "suppressed" \in Fates \ {"open"}
      BY DEF Fates
    <3>3. /\ Good([Mark(c, c.pending, "suppressed") EXCEPT !.pending = {}], b, X)
          /\ Admits(c, [Mark(c, c.pending, "suppressed") EXCEPT !.pending = {}])
      BY <1>3, <1>4, <3>2
    <3> QED
      BY <3>1, <3>3
  <2>2. CASE clock.at # "done" /\ inTime = {}
    <3>1. Dispatch(c) = [Mark(c, late, "expired") EXCEPT !.pending = {}]
      BY <1>4, <2>2 DEF Dispatch
    <3>2. /\ late \in SUBSET c.pending /\ {} = c.pending \ late
          /\ {} \in SUBSET c.pending /\ "expired" \in Fates \ {"open"}
      BY <2>2 DEF Fates
    <3> HIDE DEF late
    <3>3. /\ Good([Mark(c, late, "expired") EXCEPT !.pending = {}], b, X)
          /\ Admits(c, [Mark(c, late, "expired") EXCEPT !.pending = {}])
      BY <1>3, <1>4, <3>2
    <3> QED
      BY <3>1, <3>3
  <2>3. CASE clock.at # "done" /\ inTime # {}
    <3> DEFINE P == c.pending \ (gone \cup {e})
               d == [Mark(c, gone, "expired") EXCEPT !.pending = P]
    <3>1. e \in inTime
      <4>1. inTime \in SUBSET DOMAIN c.events
        BY <1>1
      <4> HIDE DEF inTime
      <4> QED
        BY <1>1, <2>3, <4>1, FirstIs
    <3>2. [Mark(c, gone, "expired") EXCEPT !.pending = @ \ (gone \cup {e})] = d
      <4>1. Mark(c, gone, "expired").pending = c.pending
        BY <1>1, MarkIs DEF Fates
      <4> HIDE DEF gone, e
      <4> QED
        BY <4>1
    <3>3. Dispatch(c) = Start(d, e)
      BY <1>4, <2>3, <3>2 DEF Dispatch
    <3>4. /\ gone \in SUBSET c.pending /\ e \in c.pending /\ e \notin gone
          /\ P \in SUBSET c.pending /\ P \cap gone = {}
      BY <3>1
    <3>5. (X \cup (c.pending \ P)) \ gone = X \cup {e} /\ e \notin X
      <4>1. X \cap c.pending = {}
        BY <1>1 DEF Events
      <4> HIDE DEF e, gone
      <4> QED
        BY <3>4, <4>1
    <3> HIDE DEF P, e, gone
    <3>6. Good(d, b, (X \cup (c.pending \ P)) \ gone) /\ Kept(c, d)
      BY <3>4, MarkGood DEF Fates
    <3>7. /\ Good(d, b, X \cup {e}) /\ d.current = 0 /\ d.accept /\ Len(d.turns) = Len(c.turns)
          /\ d.awaiting = c.awaiting
      BY <1>4, <3>5, <3>6 DEF Kept, Free
    <3> HIDE DEF d
    <3>8. Good(Start(d, e), b, X) /\ Admits(d, Start(d, e))
      BY <3>5, <3>7, StartGood
    <3> QED
      BY <1>4, <3>3, <3>7, <3>8 DEF Admits, Stays, Opens, Free
  <2> QED
    BY <2>1, <2>2, <2>3
<1> QED
  BY <1>2, <1>4

(* A turn in play that is closed, as a record. *)
Closed(c, t, status) ==
  [c EXCEPT !.turns[t] = [@ EXCEPT !.held = "rolled_back", !.status = status],
            !.current = IF @ = t THEN 0 ELSE @]

LEMMA ClosedIs ==
  ASSUME NEW c, NEW b, NEW X, Good(c, b, X), NEW t \in InPlay(c, b),
         NEW status \in {"superseded", "completed", "failed"}
  PROVE  LET d == Closed(c, t, status) IN
         /\ Good(d, b, X) /\ Len(d.turns) = Len(c.turns)
         /\ d.current = (IF c.current = t THEN 0 ELSE c.current)
         /\ (d.accept <=> c.accept) /\ d.awaiting = c.awaiting
         /\ d.events = c.events /\ d.pending = c.pending
<1> DEFINE d == Closed(c, t, status)
           new == [c.turns[t] EXCEPT !.held = "rolled_back", !.status = status]
           turns == [c.turns EXCEPT ![t] = new]
           inFlight == IF c.current = t THEN 0 ELSE c.current
<1>1. c \in Records /\ c.turns \in Seq(TurnRecord) /\ t \in DOMAIN c.turns
  BY InPlayIs DEF Good, Records
<1>2. c.turns[t] \in TurnRecord
  BY <1>1
<1>3. /\ new \in TurnRecord /\ new.event = c.turns[t].event /\ new.held = "rolled_back"
      /\ new.status = status
  BY <1>2 DEF TurnRecord
<1>4. d = [c EXCEPT !.turns = turns, !.current = inFlight]
  BY DEF Closed
<1> HIDE DEF d, new, inFlight
<1>5. /\ turns \in Seq(TurnRecord) /\ DOMAIN turns = DOMAIN c.turns
      /\ Len(turns) = Len(c.turns)
      /\ \A u \in DOMAIN c.turns \ {t} : turns[u] = c.turns[u]
      /\ turns[t] = new
  BY <1>1, <1>3
<1>6. inFlight \in Nat
  BY <1>1 DEF Records, inFlight
<1> HIDE DEF turns
<1>7. /\ d \in Records /\ d.turns = turns /\ d.current = inFlight
      /\ d.events = c.events /\ d.pending = c.pending /\ d.awaiting = c.awaiting
      /\ d.accept = c.accept /\ d.line = c.line
  BY <1>1, <1>4, <1>5, <1>6 DEF Records
<1>8. Good(d, b, X)
  BY <1>3, <1>5, <1>7, ClosedGood DEF inFlight
<1> QED
  BY <1>5, <1>7, <1>8 DEF d, inFlight

(* The turn that is interrupted is taken back. *)
LEMMA CanceledGood ==
  ASSUME NEW c, NEW b, NEW X, Good(c, b, X), c.current # 0
  PROVE  LET d == [Canceled(c, c.current) EXCEPT !.current = 0] IN
         /\ Good(d, b, X) /\ Len(d.turns) = Len(c.turns)
         /\ d.current = 0 /\ (d.accept <=> c.accept) /\ d.awaiting = c.awaiting
         /\ d.events = c.events /\ d.pending = c.pending
<1>1. c \in Records /\ c.turns \in Seq(TurnRecord) /\ c.current \in InPlay(c, b)
  BY DEF Good, Records, InPlay
<1>2. c.current \in DOMAIN c.turns
  BY <1>1, InPlayIs
<1>3. c.turns[c.current] \in TurnRecord
  BY <1>1, <1>2
<1>4. [Canceled(c, c.current) EXCEPT !.current = 0] = Closed(c, c.current, "superseded")
  BY ZenonT(30), <1>1, <1>2, <1>3 DEF Canceled, RolledBack, Closed, Records, TurnRecord
<1> DEFINE d == Closed(c, c.current, "superseded")
<1>5. /\ Good(d, b, X) /\ Len(d.turns) = Len(c.turns)
      /\ d.current = (IF c.current = c.current THEN 0 ELSE c.current)
      /\ (d.accept <=> c.accept) /\ d.awaiting = c.awaiting
      /\ d.events = c.events /\ d.pending = c.pending
  BY <1>1, ClosedIs
<1> HIDE DEF d
<1> QED
  BY <1>4, <1>5 DEF d

(* A more urgent event takes the place of a running turn. *)
LEMMA SupersedeGood ==
  ASSUME NEW c, NEW b, NEW X, NEW e, e \notin X, Good(c, b, X \cup {e}),
         c.current # 0, c.accept, ClockOk
  PROVE  Good(Supersede(c, e), b, X) /\ Admits(c, Supersede(c, e))
<1> DEFINE t == c.current
           old == c.turns[t].event
           freed == [Canceled(c, t) EXCEPT !.current = 0]
           requeued == IF c.events[old].kind = "start" \/ old \in c.pending
                       THEN freed ELSE Queue(freed, old)
           flushed == Flush(requeued)
<1>1. /\ c \in Records /\ Events(c, X \cup {e}) /\ Linked(c) /\ Len(c.turns) \in Nat
      /\ t \in DOMAIN c.turns
  <2>1. t \in InPlay(c, b)
    BY DEF InPlay
  <2> QED
    BY SMTT(30), <2>1, InPlayIs DEF Good, Records
<1>2. old \in DOMAIN c.events /\ c.events[old].fate = "delivered"
  BY <1>1 DEF Linked, Events
<1>3. old \notin X \cup {e}
  BY <1>1, <1>2 DEF Events
<1>4. /\ Good(freed, b, X \cup {e}) /\ Len(freed.turns) = Len(c.turns)
      /\ freed.current = 0 /\ (freed.accept <=> c.accept) /\ freed.awaiting = c.awaiting
      /\ freed.events = c.events /\ freed.pending = c.pending
  BY CanceledGood
<1> HIDE DEF freed, old
<1>5. /\ Good(Queue(freed, old), b, X \cup {e}) /\ Kept(freed, Queue(freed, old))
  <2>1. freed \in Records /\ Linked(freed) /\ {old} \in SUBSET DOMAIN freed.events
    BY <1>2, <1>4 DEF Good
  <2>2. X \cup {e} = (X \cup {e}) \ {old}
    BY <1>3
  <2> DEFINE Y == X \cup {e}
  <2> HIDE DEF Y
  <2>3. Good(QueueAll(freed, {old}), b, Y)
    BY <1>4, <2>1, <2>2, QueueGood DEF Y
  <2>4. Kept(freed, QueueAll(freed, {old}))
    BY <2>1, QueueAllIs
  <2> QED
    BY <2>3, <2>4 DEF Queue, Y
<1>6. /\ Good(requeued, b, X \cup {e}) /\ Len(requeued.turns) = Len(c.turns)
      /\ requeued.current = 0 /\ (requeued.accept <=> c.accept) /\ requeued.awaiting = c.awaiting
  BY <1>4, <1>5 DEF Kept
<1> HIDE DEF requeued
<1>7. /\ Good(flushed, b, X \cup {e}) /\ Len(flushed.turns) = Len(c.turns)
      /\ flushed.current = 0 /\ flushed.accept /\ flushed.awaiting = c.awaiting
  BY <1>6, FlushGood
<1> HIDE DEF flushed
<1>8. Good(Start(flushed, e), b, X) /\ Admits(flushed, Start(flushed, e))
  BY <1>7, StartGood
<1>9. Supersede(c, e) = Start(flushed, e)
  BY DEF Supersede, flushed, requeued, freed, old
<1> QED
  BY <1>7, <1>8, <1>9 DEF Admits, Stays, Opens

(* _interrupt_or_steer: an event in hand is started, queued or suppressed.  *)
LEMMA InterruptGood ==
  ASSUME NEW c, NEW b, NEW X, NEW e, e \notin X, Good(c, b, X \cup {e}), ClockOk
  PROVE  Good(Interrupt(c, e), b, X) /\ Admits(c, Interrupt(c, e))
<1>1. /\ c \in Records /\ Events(c, X \cup {e}) /\ e \in DOMAIN c.events /\ e \notin c.pending
      /\ Len(c.turns) \in Nat /\ Linked(c)
  BY DEF Good, Events, Records
<1>2. CASE ~c.accept
  <2>1. Interrupt(c, e) = Mark(c, {e}, "suppressed")
    BY <1>2 DEF Interrupt
  <2> QED
    BY SMTT(30), <1>1, <2>1, SuppressedGood, AdmitsKept
<1>3. CASE c.accept /\ c.current = 0
  BY <1>3, StartGood DEF Interrupt
<1>4. CASE c.accept /\ c.current # 0 /\ Prio(c, e) <= Prio(c, c.turns[c.current].event)
  <2>1. Interrupt(c, e) = Queue(c, e)
    BY <1>4 DEF Interrupt
  <2> QED
    BY <1>1, <1>4, <2>1, QueuedGood, AdmitsKept
<1>5. CASE c.accept /\ c.current # 0 /\ ~ (Prio(c, e) <= Prio(c, c.turns[c.current].event))
  <2>1. Interrupt(c, e) = Supersede(c, e)
    BY <1>5 DEF Interrupt
  <2> QED
    BY <1>5, <2>1, SupersedeGood
<1> QED
  BY <1>2, <1>3, <1>4, <1>5

(* The turn that awaits its receipt is settled: its memory is kept when its *)
(* action won, and taken back when it did not.                              *)
LEMMA SettleGood ==
  ASSUME NEW c, NEW b, NEW X, Good(c, b, X), NEW t, t = c.awaiting, t # 0,
         NEW commit \in BOOLEAN, commit => t \in won, ~commit => t \notin won \ failed,
         t \notin AtActor
  PROVE  LET d == Settle(c, t, commit) IN
         /\ Good(d, b, X) /\ Len(d.turns) = Len(c.turns)
         /\ d.awaiting = 0 /\ d.current = 0 /\ (d.accept <=> c.accept)
         /\ d.pending = c.pending
<1> DEFINE d == Settle(c, t, commit)
           held == IF commit THEN "committed" ELSE "rolled_back"
           turns == [c.turns EXCEPT ![t] = [@ EXCEPT !.held = held, !.status = "completed"]]
<1>1. /\ c \in Records /\ c.turns \in Seq(TurnRecord)
      /\ Linked(c) /\ Transaction(c) /\ InLine(c, b) /\ World(c, b) /\ Events(c, X)
  BY DEF Good, Records
<1>2. t \in DOMAIN c.turns /\ t \in Nat
  BY <1>1 DEF Linked
<1>3. /\ c.turns[t] \in TurnRecord /\ c.current = 0
      /\ c.turns[t].status = "awaiting" /\ c.turns[t].held = "open"
  BY <1>1, <1>2 DEF Transaction
<1>4. /\ [c.turns[t] EXCEPT !.held = held, !.status = "completed"] \in TurnRecord
      /\ turns \in Seq(TurnRecord)
  <2>1. [c.turns[t] EXCEPT !.held = held, !.status = "completed"] \in TurnRecord
    BY <1>3 DEF TurnRecord
  <2> HIDE DEF held
  <2> QED
    BY <1>1, <1>2, <2>1
<1>5. /\ DOMAIN turns = DOMAIN c.turns /\ Len(turns) = Len(c.turns)
      /\ \A u \in DOMAIN c.turns \ {t} : turns[u] = c.turns[u]
      /\ turns[t].event = c.turns[t].event /\ turns[t].held = held
      /\ turns[t].status = "completed"
  <2> HIDE DEF held
  <2>1. turns[t] = [c.turns[t] EXCEPT !.held = held, !.status = "completed"]
    BY <1>2
  <2>2. DOMAIN turns = DOMAIN c.turns /\ \A u \in DOMAIN c.turns \ {t} : turns[u] = c.turns[u]
    OBVIOUS
  <2> HIDE DEF turns
  <2>3. /\ turns[t].event = c.turns[t].event /\ turns[t].held = held
        /\ turns[t].status = "completed"
    BY <1>3, <2>1 DEF TurnRecord
  <2>4. Len(turns) = Len(c.turns)
    BY <1>1, <1>4, <2>2
  <2> QED
    BY <2>2, <2>3, <2>4
<1>6. d = [c EXCEPT !.awaiting = 0, !.turns = turns]
  <2>1. (commit /\ c.turns[t].held # "rolled_back") = commit
    BY <1>3
  <2>2. d = [c EXCEPT !.awaiting = 0, !.turns[t].held = held, !.turns[t].status = "completed"]
    BY <1>3, <2>1 DEF Settle
  <2> HIDE DEF d, held
  <2> QED
    BY ZenonT(40), <1>1, <1>2, <1>3, <2>2 DEF Records, TurnRecord
<1> HIDE DEF d, turns
<1>7. /\ d \in Records /\ d.turns = turns /\ d.current = 0 /\ d.awaiting = 0
      /\ d.events = c.events /\ d.pending = c.pending
      /\ d.accept = c.accept /\ d.line = c.line
  BY <1>1, <1>3, <1>4, <1>6 DEF Records
<1>8. Linked(d)
  BY <1>1, <1>5, <1>7, <1>2 DEF Linked
<1>9. Transaction(d)
  <2>1. DOMAIN c.turns \subseteq Nat \ {0}
    BY <1>1
  <2> QED
    BY <1>1, <1>3, <1>5, <1>7, <2>1 DEF Transaction
<1>10. InLine(d, b) /\ Events(d, X)
  BY <1>1, <1>3, <1>5, <1>7 DEF InLine, Events
<1>11. World(d, b)
  <2>1. InPlay(d, b) = InPlay(c, b)
    BY <1>3, <1>7 DEF InPlay
  <2>2. AtActor \subseteq {main.abandoned}
    BY <1>1 DEF World
  <2> QED
    BY <1>1, <1>2, <1>5, <1>7, <2>1, <2>2 DEF World
<1> QED
  BY <1>5, <1>7, <1>8, <1>9, <1>10, <1>11 DEF Good, d

(* The coordinator accepts no more: the current turn is taken back, and     *)
(* with ~defer the one that stop left awaiting.                             *)
LEMMA InvalidateGood ==
  ASSUME NEW c, NEW b, NEW X, Good(c, b, X), NEW defer \in BOOLEAN,
         defer \/ c.awaiting \in {0, main.abandoned}
  PROVE  LET d == InvalidateAll(c, defer) IN
         /\ Good(d, b, X) /\ Len(d.turns) = Len(c.turns)
         /\ ~d.accept /\ d.current = 0 /\ d.awaiting = (IF defer THEN c.awaiting ELSE 0)
         /\ d.pending = c.pending
<1> DEFINE d == InvalidateAll(c, defer)
           awaiting == IF defer THEN c.awaiting ELSE 0
           lost == {t \in DOMAIN c.turns : c.turns[t].status = "in_flight"
                                      \/ (c.turns[t].status = "awaiting" /\ ~defer)}
           turns == [t \in DOMAIN c.turns |->
                      IF t \in lost
                      THEN [c.turns[t] EXCEPT !.status = "superseded", !.held = "rolled_back"]
                      ELSE c.turns[t]]
<1>1. /\ c \in Records /\ c.turns \in Seq(TurnRecord)
      /\ Linked(c) /\ Transaction(c) /\ InLine(c, b) /\ World(c, b) /\ Events(c, X)
  BY DEF Good, Records
<1>2. lost = ({c.current} \cup (IF defer THEN {} ELSE {c.awaiting})) \ {0}
  <2>1. {c.current, c.awaiting} \ {0} \subseteq DOMAIN c.turns /\ 0 \notin DOMAIN c.turns
    BY <1>1 DEF Linked, Records
  <2> QED
    BY <1>1, <2>1 DEF Transaction
<1>3. ASSUME NEW t \in DOMAIN c.turns
      PROVE  /\ turns[t] \in TurnRecord /\ turns[t].event = c.turns[t].event
             /\ t \in lost => turns[t].status = "superseded" /\ turns[t].held = "rolled_back"
             /\ t \notin lost => turns[t] = c.turns[t]
  <2>1. c.turns[t] \in TurnRecord
    BY <1>1
  <2> HIDE DEF lost
  <2>2. CASE t \in lost
    <3>1. turns[t] = [c.turns[t] EXCEPT !.status = "superseded", !.held = "rolled_back"]
      BY ZenonT(30), <2>2
    <3> QED
      BY ZenonT(30), <2>1, <2>2, <3>1 DEF TurnRecord
  <2>3. CASE t \notin lost
    BY ZenonT(30), <2>1, <2>3
  <2> QED
    BY ZenonT(30), <2>2, <2>3
<1>4. DOMAIN turns = DOMAIN c.turns
  OBVIOUS
<1>5. d = [c EXCEPT !.accept = FALSE, !.current = 0, !.awaiting = awaiting, !.turns = turns]
  BY DEF InvalidateAll
<1>6. turns = [t \in DOMAIN c.turns |-> turns[t]]
  BY ZenonT(30)
<1> HIDE DEF d, turns, lost, awaiting
<1>7. turns \in Seq(TurnRecord) /\ Len(turns) = Len(c.turns)
  <2>1. DOMAIN c.turns = 1..Len(c.turns) /\ Len(c.turns) \in Nat
    BY <1>1
  <2>2. turns \in [1..Len(c.turns) -> TurnRecord]
    BY <1>3, <1>6, <2>1
  <2> QED
    BY <2>1, <2>2
<1>13. awaiting \in Nat /\ awaiting \in {0, c.awaiting} /\ (awaiting # 0 => defer)
  BY <1>1 DEF awaiting, Records
<1>8. /\ d \in Records /\ d.turns = turns /\ d.current = 0 /\ d.awaiting = awaiting
      /\ d.events = c.events /\ d.pending = c.pending
      /\ ~d.accept /\ d.line = c.line
  BY <1>1, <1>5, <1>7, <1>13 DEF Records
<1>9. Linked(d)
  BY <1>1, <1>3, <1>4, <1>7, <1>8, <1>13 DEF Linked
<1>10. Transaction(d)
  <2>1. DOMAIN c.turns \subseteq Nat \ {0}
    BY <1>1
  <2>2. ASSUME NEW t \in DOMAIN d.turns
        PROVE  /\ d.turns[t].status = "in_flight" <=> t = d.current
               /\ d.turns[t].status = "awaiting" <=> t = d.awaiting
               /\ d.turns[t].held = "open" <=> t \in {d.current, d.awaiting}
    <3>1. t \in DOMAIN c.turns /\ t # 0
      BY <1>4, <1>8, <2>1
    <3>2. CASE t \in lost
      BY <1>1, <1>2, <1>3, <1>8, <1>13, <3>1, <3>2 DEF Transaction
    <3>3. CASE t \notin lost
      BY <1>1, <1>2, <1>3, <1>8, <3>1, <3>3 DEF Transaction, awaiting
    <3> QED
      BY <3>2, <3>3
  <2> QED
    BY <1>8, <2>2 DEF Transaction
<1>11. InLine(d, b) /\ Events(d, X)
  BY <1>1, <1>7, <1>8 DEF InLine, Events
<1>12. World(d, b)
  <2>1. InPlay(d, b) \subseteq InPlay(c, b)
    BY <1>8 DEF InPlay
  <2>2. /\ lost \subseteq InPlay(c, b) \cup {main.abandoned}
        /\ AtActor \subseteq {awaiting, main.abandoned}
    BY <1>1, <1>2 DEF InPlay, World, awaiting
  <2> QED
    BY <1>1, <1>3, <1>4, <1>8, <1>13, <2>1, <2>2 DEF World, Known
<1> QED
  BY <1>7, <1>8, <1>9, <1>10, <1>11, <1>12 DEF Good, d, awaiting

(* Marking what is ingested, deferred, planned or flushed changes nothing.  *)
LEMMA SameGood ==
  ASSUME NEW c, NEW d \in Records, NEW b, NEW X, Good(c, b, X), Kept(c, d),
         d.events = c.events, d.pending = c.pending
  PROVE  Good(d, b, X)
<1>1. Events(d, X) /\ d.pending \subseteq DOMAIN d.events
  BY DEF Good, Events, Kept, Linked
<1> QED
  BY <1>1, EventsGood

(* The worker is through with its turn. *)
LEMMA LeaveGood ==
  ASSUME NEW c, NEW b, NEW X, Good(c, b, X)
  PROVE  Good(c, 0, X)
<1>1. InLine(c, 0) /\ InPlay(c, 0) \subseteq InPlay(c, b)
  BY DEF Good, InLine, InPlay, Records
<1> QED
  BY <1>1 DEF Good, World

LEMMA TailIs ==
  ASSUME NEW S, NEW q \in Seq(S), q # <<>>
  PROVE  /\ Len(q) \in Nat \ {0} /\ 1 \in DOMAIN q /\ Head(q) = q[1] /\ Head(q) \in S
         /\ Tail(q) \in Seq(S) /\ Len(Tail(q)) = Len(q) - 1
         /\ \A i \in DOMAIN Tail(q) : /\ i \in Nat \ {0} /\ i + 1 \in DOMAIN q
                                     /\ Tail(q)[i] = q[i + 1]
         /\ \A i \in DOMAIN q : i = 1 \/ (i - 1 \in DOMAIN Tail(q) /\ q[i] = Tail(q)[i - 1])
<1>1. Len(q) \in Nat /\ Len(q) # 0 /\ DOMAIN q = 1..Len(q) /\ Head(q) = q[1]
  OBVIOUS
<1>2. 1 \in DOMAIN q /\ Head(q) \in S
  BY <1>1
<1>3. /\ Tail(q) \in Seq(S) /\ Len(Tail(q)) = Len(q) - 1
      /\ DOMAIN Tail(q) = 1..(Len(q) - 1)
  BY <1>1
<1>4. \A i \in 1..(Len(q) - 1) : Tail(q)[i] = q[i + 1]
  BY <1>1
<1> DEFINE rest == Tail(q)
<1>5. \A i \in DOMAIN rest : i \in Nat \ {0} /\ i + 1 \in DOMAIN q /\ rest[i] = q[i + 1]
  <2> HIDE DEF rest
  <2> QED
    BY <1>1, <1>3, <1>4 DEF rest
<1>6. \A i \in DOMAIN q : i = 1 \/ (i - 1 \in DOMAIN rest /\ q[i] = rest[i - 1])
  <2> HIDE DEF rest
  <2> SUFFICES ASSUME NEW i \in DOMAIN q, i # 1
               PROVE  i - 1 \in DOMAIN rest /\ q[i] = rest[i - 1]
    OBVIOUS
  <2>1. i - 1 \in 1..(Len(q) - 1) /\ (i - 1) + 1 = i
    BY <1>1
  <2> QED
    BY <1>3, <1>4, <2>1 DEF rest
<1> QED
  BY <1>1, <1>2, <1>3, <1>5, <1>6

(* The first of the line is taken, or passed over. *)
LEMMA TakenGood ==
  ASSUME NEW c, NEW X, Good(c, 0, X), c.line # <<>>
  PROVE  LET d == [c EXCEPT !.line = Tail(@)] IN
         /\ Head(c.line) \in Work
         /\ Good(d, 0, X) /\ Good(d, Head(c.line).turn, X)
<1> DEFINE w == Head(c.line)
           line == Tail(c.line)
           d == [c EXCEPT !.line = line]
<1>1. /\ c \in Records /\ c.line \in Seq(Work)
      /\ Linked(c) /\ InLine(c, 0) /\ World(c, 0)
  BY DEF Good, Records
<1>2. /\ 1 \in DOMAIN c.line /\ w = c.line[1] /\ w \in Work /\ w.turn \in Nat
      /\ line \in Seq(Work)
      /\ \A i \in DOMAIN line : /\ i \in Nat \ {0} /\ i + 1 \in DOMAIN c.line
                                /\ line[i] = c.line[i + 1]
  <2>1. /\ 1 \in DOMAIN c.line /\ w = c.line[1] /\ w \in Work /\ line \in Seq(Work)
        /\ \A i \in DOMAIN line : /\ i \in Nat \ {0} /\ i + 1 \in DOMAIN c.line
                                  /\ line[i] = c.line[i + 1]
    BY <1>1, TailIs
  <2> HIDE DEF w, line
  <2> QED
    BY <2>1 DEF Work
<1> HIDE DEF w, line
<1>3. /\ d \in Records /\ d.line = line
      /\ d.turns = c.turns /\ d.current = c.current /\ d.awaiting = c.awaiting
      /\ d.events = c.events /\ d.pending = c.pending /\ d.accept = c.accept
  BY <1>1, <1>2 DEF Records
<1> HIDE DEF d
<1>4. Linked(d)
  BY <1>1, <1>2, <1>3 DEF Linked
<1>5. Transaction(d) /\ Events(d, X)
  BY <1>3 DEF Good, Transaction, Events
<1>6. InLine(d, 0) /\ InLine(d, w.turn)
  <2>1. ASSUME NEW i \in DOMAIN d.line, NEW j \in DOMAIN d.line,
               d.line[i].turn = d.line[j].turn, d.line[i].turn # 0
        PROVE  i = j
    <3>1. /\ i + 1 \in DOMAIN c.line /\ j + 1 \in DOMAIN c.line
          /\ c.line[i + 1].turn = c.line[j + 1].turn /\ c.line[i + 1].turn # 0
      BY <1>2, <1>3, <2>1
    <3>2. i + 1 = j + 1
      BY <1>1, <3>1 DEF InLine
    <3> QED
      BY <1>2, <1>3, <3>2
  <2>2. ASSUME NEW i \in DOMAIN d.line, d.line[i].turn = w.turn PROVE w.turn = 0
    <3>1. /\ i + 1 \in DOMAIN c.line /\ c.line[i + 1].turn = c.line[1].turn
          /\ 1 \in DOMAIN c.line /\ i + 1 # 1
      BY <1>2, <1>3, <2>2
    <3> QED
      BY <1>1, <1>2, <3>1 DEF InLine
  <2>3. w.turn \in 0..Len(d.turns) /\ 0 \in 0..Len(d.turns)
    <3>1. w.turn <= Len(c.turns) /\ Len(c.turns) \in Nat
      BY <1>1, <1>2 DEF Linked, Records
    <3> QED
      BY <1>2, <1>3, <3>1
  <2> QED
    BY <2>1, <2>2, <2>3 DEF InLine
<1>7. InPlay(d, 0) \subseteq InPlay(c, 0) /\ InPlay(d, w.turn) \subseteq InPlay(c, 0)
  BY <1>2, <1>3 DEF InPlay
<1>8. World(d, 0) /\ World(d, w.turn)
  BY <1>1, <1>3, <1>7 DEF World
<1> QED
  BY <1>2, <1>3, <1>4, <1>5, <1>6, <1>8 DEF Good, d, w, line

(* What the coordinator keeps is as good after a step of the actor when it  *)
(* still agrees with what the actor says.                                   *)
LEMMA WorldFrame ==
  ASSUME NEW c, NEW b, NEW X, Good(c, b, X), World(c, b)'
  PROVE  Good(c, b, X)'
<1>1. (c \in Records)' /\ Linked(c)' /\ Transaction(c)' /\ InLine(c, b)' /\ Events(c, X)'
  BY DEF Good, Linked, Records, Transaction, InLine, Events
<1> QED
  BY <1>1 DEF Good

LEMMA GoodFrame ==
  ASSUME NEW c, NEW b, NEW X, Good(c, b, X), UNCHANGED actor,
         main'.abandoned = main.abandoned
  PROVE  Good(c, b, X)'
<1>1. World(c, b) /\ owed' = owed /\ won' = won /\ failed' = failed
  BY DEF Good, actor
<1>2. AtActor' = AtActor /\ Answered' = Answered /\ Recorded' = Recorded
  BY DEF AtActor, Answered, Recorded, actor
<1>3. Known' = Known
  BY <1>1, <1>2 DEF Known
<1>4. InPlay(c, b)' = InPlay(c, b)
  BY DEF InPlay
<1>5. World(c, b)'
  BY <1>1, <1>2, <1>3, <1>4 DEF World
<1> QED
  BY <1>5, WorldFrame

-----------------------------------------------------------------------------
(* The end of a turn *)

LEMMA OverIs ==
  ASSUME NEW c, NEW b, NEW X, Good(c, b, X), NEW t \in InPlay(c, b),
         NEW status \in {"superseded", "completed", "failed"}
  PROVE  Over(RolledBack(Status(c, t, status), t), t) = Closed(c, t, status)
<1>1. c \in Records /\ c.turns \in Seq(TurnRecord) /\ t \in DOMAIN c.turns
  BY InPlayIs DEF Good, Records
<1>2. c.turns[t] \in TurnRecord
  BY <1>1
<1> QED
  BY ZenonT(40), <1>1, <1>2 DEF Over, RolledBack, Status, Closed, Records, TurnRecord

(* A turn that is no longer the current one has been taken back.            *)
LEMMA StaleIs ==
  ASSUME NEW c, NEW b, NEW X, Good(c, b, X), NEW t \in InPlay(c, b), t # c.current
  PROVE  RolledBack(c, t) = c /\ Over(RolledBack(c, t), t) = c
<1>1. /\ c \in Records /\ c.turns \in Seq(TurnRecord) /\ t \in DOMAIN c.turns
      /\ t \notin Known /\ t # c.awaiting
  BY InPlayIs DEF Good, Records
<1>2. c.turns[t] \in TurnRecord
  BY <1>1
<1>3. c.turns[t].held = "rolled_back"
  <2>1. c.turns[t].held # "open"
    BY <1>1 DEF Good, Transaction
  <2>2. c.turns[t].held # "committed"
    BY <1>1 DEF Good, World, Known
  <2> QED
    BY <1>2, <2>1, <2>2 DEF TurnRecord
<1>4. RolledBack(c, t) = c
  BY <1>1, <1>2, <1>3 DEF RolledBack, Records, TurnRecord
<1> QED
  BY <1>1, <1>4 DEF Over, Records

LEMMA AdmitsTrans ==
  ASSUME NEW c, NEW d, NEW e, Stays(c, d) \/ e = d, Admits(c, d), Admits(d, e)
  PROVE  Admits(c, e)
BY DEF Admits, Stays, Opens

(* Many calls end with both of these. *)
LEMMA FlushDispatchGood ==
  ASSUME NEW c, NEW b, NEW X, Good(c, b, X), ClockOk
  PROVE  Good(Dispatch(Flush(c)), b, X) /\ Admits(c, Dispatch(Flush(c)))
<1>1. /\ Good(Flush(c), b, X) /\ Flush(c).turns = c.turns /\ Flush(c).awaiting = c.awaiting
      /\ Flush(c).accept = c.accept /\ Flush(c).pending = c.pending
      /\ Flush(c).current = c.current
  BY FlushGood
<1>2. Good(Dispatch(Flush(c)), b, X) /\ Admits(Flush(c), Dispatch(Flush(c)))
  BY <1>1, DispatchGood
<1> QED
  BY <1>1, <1>2 DEF Admits, Stays, Opens

LEMMA ClosedDispatchGood ==
  ASSUME NEW c, NEW b, NEW X, Good(c, b, X), NEW t \in InPlay(c, b), ClockOk,
         NEW status \in {"superseded", "completed", "failed"}
  PROVE  LET d == Dispatch(Flush(Over(RolledBack(Status(c, t, status), t), t))) IN
         Good(d, b, X) /\ Admits(c, d)
<1> DEFINE m == Over(RolledBack(Status(c, t, status), t), t)
<1>1. m = Closed(c, t, status)
  BY OverIs
<1>2. /\ Good(m, b, X) /\ Len(m.turns) = Len(c.turns)
      /\ (m.accept <=> c.accept) /\ m.awaiting = c.awaiting /\ m.pending = c.pending
      /\ m.current \in {0, c.current}
  BY <1>1, ClosedIs
<1> HIDE DEF m
<1>3. Good(Dispatch(Flush(m)), b, X) /\ Admits(m, Dispatch(Flush(m)))
  BY <1>2, FlushDispatchGood
<1>4. Admits(c, Dispatch(Flush(m)))
  BY <1>2, <1>3 DEF Admits, Stays, Opens
<1> QED
  BY <1>3, <1>4 DEF m

(* The provider failed. *)
LEMMA FailedGood ==
  ASSUME NEW b, NEW X, Good(co, b, X), NEW t \in InPlay(co, b), ClockOk
  PROVE  Good(Failed(t), b, X) /\ Admits(co, Failed(t))
<1>1. CASE co.turns[t].status = "superseded"
  <2>1. t # co.current
    <3>1. t \in DOMAIN co.turns
      BY InPlayIs
    <3> QED
      BY <1>1, <3>1 DEF Good, Transaction
  <2>2. Failed(t) = Dispatch(Flush(co))
    BY <1>1, <2>1, StaleIs DEF Failed
  <2> QED
    BY <2>2, FlushDispatchGood
<1>2. CASE co.turns[t].status # "superseded"
  <2>1. Failed(t) = Dispatch(Flush(Over(RolledBack(Status(co, t, "failed"), t), t)))
    BY <1>2 DEF Failed
  <2> HIDE DEF Failed
  <2> QED
    BY <2>1, ClosedDispatchGood
<1> QED
  BY <1>1, <1>2

(* The answer does not count: it is none, or it came too late.              *)
LEMMA UnusedGood ==
  ASSUME NEW b, NEW X, Good(co, b, X), NEW t \in InPlay(co, b), ClockOk
  PROVE  Good(Unused(t), b, X) /\ Admits(co, Unused(t))
BY ClosedDispatchGood DEF Unused

LEMMA LateGood ==
  ASSUME NEW b, NEW X, Good(co, b, X), NEW t \in InPlay(co, b), Late(t), ClockOk
  PROVE  Good(Dispatch(RolledBack(co, t)), b, X) /\ Admits(co, Dispatch(RolledBack(co, t)))
<1>1. t \in DOMAIN co.turns /\ t # 0
  BY InPlayIs
<1>2. t # co.current
  BY <1>1 DEF Late, Good, Transaction
<1>3. RolledBack(co, t) = co
  BY <1>2, StaleIs
<1> QED
  BY <1>3, DispatchGood

LEMMA MissedGood ==
  ASSUME NEW b, NEW X, Good(co, b, X), NEW t \in InPlay(co, b), co.accept, ClockOk
  PROVE  Good(Missed(t), b, X) /\ Admits(co, Missed(t))
<1> DEFINE m == Over(RolledBack(Status(co, t, "superseded"), t), t)
           n == NewEvent(m, "feedback", None)
           e == Len(n.events)
           f == Flush(n)
           p == EndPlan(f, e)
           i == Interrupt(p, e)
<1>1. m = Closed(co, t, "superseded")
  BY OverIs
<1>2. /\ Good(m, b, X) /\ Len(m.turns) = Len(co.turns) /\ m.accept /\ m.awaiting = co.awaiting
      /\ m.current \in {0, co.current}
  BY <1>1, ClosedIs
<1> HIDE DEF m
<1>3. None \in Nat /\ "feedback" \in Kinds
  BY CoordinatorAssumption DEF None, Kinds
<1>4. /\ Good(n, b, X \cup {Len(m.events) + 1}) /\ Len(m.events) + 1 \notin X
      /\ Kept(m, n) /\ Len(n.events) = Len(m.events) + 1
  BY ZenonT(30), <1>2, <1>3, NewEventGood
<1> HIDE DEF n
<1>5. Good(n, b, X \cup {e}) /\ e \notin X
  BY <1>4
<1> HIDE DEF e
<1>6. /\ Good(f, b, X \cup {e}) /\ f.turns = n.turns /\ f.awaiting = n.awaiting
      /\ f.accept = n.accept /\ f.current = n.current
  BY <1>5, FlushGood
<1> HIDE DEF f
<1>7. Good(p, b, X \cup {e}) /\ Kept(f, p)
  BY <1>6, EndPlanGood
<1> HIDE DEF p
<1>8. Good(i, b, X) /\ Admits(p, i)
  BY <1>5, <1>7, InterruptGood
<1> HIDE DEF i
<1>9. Good(Dispatch(i), b, X) /\ Admits(i, Dispatch(i))
  BY <1>8, DispatchGood
<1>10. Admits(p, Dispatch(i))
  <2>1. CASE Stays(p, i)
    BY <1>8, <1>9, <2>1, AdmitsTrans
  <2>2. CASE Opens(p, i)
    <3>1. Len(p.turns) \in Nat
      BY <1>7 DEF Good, Records
    <3>2. i.current # 0
      BY <2>2, <3>1 DEF Opens
    <3>3. Dispatch(i) = i
      BY <3>2 DEF Dispatch, Free
    <3> QED
      BY <1>8, <3>3
  <2> QED
    BY <1>8, <2>1, <2>2 DEF Admits
<1>11. /\ Len(p.turns) = Len(co.turns) /\ p.accept /\ p.awaiting = co.awaiting
       /\ p.current \in {0, co.current}
  BY <1>2, <1>4, <1>6, <1>7 DEF Kept
<1>12. Admits(co, Dispatch(i))
  BY <1>10, <1>11 DEF Admits, Stays, Opens
<1>13. Missed(t) = Dispatch(i)
  BY DEF Missed, i, p, f, e, n, m
<1> QED
  BY <1>9, <1>12, <1>13

(* The turn's action goes to the actor: what is left is what the actor is   *)
(* told of it.                                                              *)
LEMMA AwaitsIs ==
  ASSUME NEW b, NEW X, Good(co, b, X), b # 0, co.current = b
  PROVE  LET d == Awaits(b) IN
         /\ d \in Records /\ Linked(d) /\ Transaction(d) /\ InLine(d, 0) /\ Events(d, X)
         /\ DOMAIN d.turns = DOMAIN co.turns /\ Len(d.turns) = Len(co.turns)
         /\ \A u \in DOMAIN co.turns : d.turns[u].held = co.turns[u].held
         /\ d.awaiting = b /\ (d.accept <=> co.accept) /\ d.pending = co.pending /\ d.current = 0
         /\ InPlay(d, 0) \subseteq InPlay(co, b) \ {b}
<1> DEFINE d == Awaits(b)
           new == [co.turns[b] EXCEPT !.status = "awaiting"]
           turns == [co.turns EXCEPT ![b] = new]
<1>1. /\ co \in Records /\ co.turns \in Seq(TurnRecord)
      /\ Linked(co) /\ Transaction(co) /\ InLine(co, b) /\ Events(co, X)
      /\ b \in InPlay(co, b)
  BY DEF Good, Records, InPlay
<1>2. b \in DOMAIN co.turns /\ b \in Nat
  BY <1>1, InPlayIs
<1>3. co.turns[b] \in TurnRecord
  BY <1>1, <1>2
<1>4. /\ new \in TurnRecord /\ new.event = co.turns[b].event /\ new.held = co.turns[b].held
      /\ new.status = "awaiting"
  BY <1>3 DEF TurnRecord
<1>5. d = [co EXCEPT !.turns = turns, !.current = 0, !.awaiting = b]
  BY <1>1, <1>2, <1>3 DEF Awaits, Over, Status, Records, TurnRecord
<1> HIDE DEF d, new
<1>6. /\ turns \in Seq(TurnRecord) /\ DOMAIN turns = DOMAIN co.turns
      /\ Len(turns) = Len(co.turns)
      /\ \A u \in DOMAIN co.turns \ {b} : turns[u] = co.turns[u]
      /\ turns[b] = new
  BY <1>1, <1>2, <1>4
<1> HIDE DEF turns
<1>7. /\ d \in Records /\ d.turns = turns /\ d.current = 0 /\ d.awaiting = b
      /\ d.events = co.events /\ d.pending = co.pending
      /\ d.accept = co.accept /\ d.line = co.line
  BY <1>1, <1>2, <1>5, <1>6 DEF Records
<1>8. Linked(d)
  BY <1>1, <1>2, <1>4, <1>6, <1>7 DEF Linked
<1>9. Transaction(d)
  <2>1. DOMAIN co.turns \subseteq Nat \ {0} /\ co.awaiting = 0
    BY <1>1 DEF Transaction
  <2>2. ASSUME NEW u \in DOMAIN d.turns
        PROVE  /\ d.turns[u].status = "in_flight" <=> u = d.current
               /\ d.turns[u].status = "awaiting" <=> u = d.awaiting
               /\ d.turns[u].held = "open" <=> u \in {d.current, d.awaiting}
    <3>1. CASE u = b
      BY <1>1, <1>2, <1>4, <1>6, <1>7, <3>1 DEF Transaction
    <3>2. CASE u # b
      BY <1>1, <1>6, <1>7, <2>1, <3>2 DEF Transaction
    <3> QED
      BY <3>1, <3>2
  <2> QED
    BY <1>7, <2>2 DEF Transaction
<1>10. InLine(d, 0) /\ Events(d, X)
  BY <1>1, <1>6, <1>7 DEF InLine, Events
<1>11. InPlay(d, 0) \subseteq InPlay(co, b) \ {b}
  BY <1>1, <1>7 DEF InPlay, InLine
<1> QED
  BY <1>4, <1>6, <1>7, <1>8, <1>9, <1>10, <1>11 DEF d

-----------------------------------------------------------------------------
(* Steps *)

Admitted == Stays(co, co') \/ Opens(co, co')

LEMMA Facts ==
  ASSUME IInv
  PROVE  /\ ClockOk /\ co \in Records /\ Linked(co) /\ Transaction(co)
         /\ main \in Loops /\ worker \in Workers /\ clock \in Clocks
         /\ tick \in Nat /\ main.seen \in Nat /\ main.upto \in Nat /\ main.event \in Nat
         /\ co.current \in Nat /\ co.awaiting \in Nat
         /\ transitions \in Seq(Transition) /\ receipts \in Seq(Receipt)
<1>1. /\ co \in Records /\ Linked(co) /\ Transaction(co) /\ Actor
      /\ main \in Loops /\ worker \in Workers /\ clock \in Clocks /\ tick \in Nat
      /\ transitions \in Seq(Transition) /\ receipts \in Seq(Receipt)
  BY CoordinatorAssumption DEF IInv, Good, Typed
<1>2. ClockOk
  BY <1>1 DEF Actor, ClockOk, Clocks
<1>3. main.seen \in Nat /\ main.upto \in Nat /\ main.event \in Nat
  BY <1>1 DEF Loops
<1>4. co.current \in Nat /\ co.awaiting \in Nat
  BY <1>1 DEF Records
<1> QED
  BY <1>1, <1>2, <1>3, <1>4

LEMMA ActorFrame ==
  ASSUME Actor, UNCHANGED actor
  PROVE  Actor'
BY DEF Actor, AtActor, Answered, Recorded, actor

(* What stop left with the actor may become less. *)
LEMMA LeftFrame ==
  ASSUME Left, main'.closing = main.closing, main'.abandoned = main.abandoned,
         co'.awaiting \in {0, co.awaiting}, AtActor' \subseteq AtActor, Answered \subseteq Answered'
  PROVE  Left'
BY DEF Left

LEMMA AdmitsSame ==
  ASSUME NEW c
  PROVE  Admits(c, c)
BY DEF Admits, Stays

(* The main loop's steps that only it and the coordinator take part in.     *)
LEMMA MainFrame ==
  ASSUME IInv, UNCHANGED <<worker, actor>>, main' \in Loops, Good(co', Busy, Hand'),
         Loop', Ending', main'.closing = main.closing, main'.abandoned = main.abandoned,
         co'.awaiting \in {0, co.awaiting}
  PROVE  IInv'
<1>1. Busy' = Busy
  BY DEF Busy
<1>2. Good(co, Busy, Hand)'
  <2>1. Good(co', Busy', Hand')
    BY <1>1
  <2> QED
    BY <2>1, GoodFrame
<1>3. Actor'
  BY ActorFrame DEF IInv
<1>4. Typed'
  BY DEF IInv, Typed, actor
<1>5. Left'
  <2>1. AtActor' = AtActor /\ Answered' = Answered
    BY DEF AtActor, Answered, actor
  <2> QED
    BY <2>1, LeftFrame DEF IInv
<1> QED
  BY <1>2, <1>3, <1>4, <1>5 DEF IInv

LEMMA NoTurn ==
  ASSUME Len(co'.turns) = Len(co.turns), co'.current \in {0, co.current}
  PROVE  Admitted
BY DEF Admitted, Stays

LEMMA BeginStep ==
  ASSUME IInv, Begin
  PROVE  IInv' /\ Admitted
<1> DEFINE d == NewEvent(co, "start", None)
<1>1. /\ main.at = "begin" /\ main' = [main EXCEPT !.at = "loop"] /\ co' = Start(d, 1)
      /\ UNCHANGED <<worker, actor>>
  BY DEF Begin, At, Goes
<1>2. /\ Good(co, Busy, Hand) /\ Hand = {} /\ co.events = <<>> /\ co.turns = <<>> /\ co.accept
      /\ co.current = 0 /\ ~main.closing
  BY <1>1, Facts DEF IInv, Loop, Ending, Hand, Linked
<1>3. None \in Nat /\ "start" \in Kinds
  BY CoordinatorAssumption DEF None, Kinds
<1>4. Good(d, Busy, {} \cup {1}) /\ Kept(co, d)
  <2>1. Len(co.events) + 1 = 1
    BY <1>2
  <2> QED
    BY <1>2, <1>3, <2>1, NewEventGood
<1> HIDE DEF d
<1>5. Good(co', Busy, {}) /\ Admits(d, co')
  BY <1>1, <1>2, <1>4, Facts, StartGood DEF Kept
<1>6. Admits(co, co')
  BY <1>2, <1>4, <1>5 DEF Kept, Admits, Stays, Opens
<1>7. main' \in Loops /\ main'.event = 0 /\ main'.seen = main.seen /\ main'.upto = main.upto
      /\ main'.at = "loop" /\ main'.closing = main.closing /\ main'.abandoned = main.abandoned
  BY <1>1, <1>2, Facts DEF Loops, Stages, IInv, Loop
<1>8. Loop'
  BY <1>1, <1>7, Facts DEF IInv, Loop, InTransition, Consumed, Submitting, actor
<1>9. Ending'
  BY <1>1, <1>2, <1>7 DEF Ending, Finishing, Submitting
<1> QED
  BY <1>1, <1>5, <1>6, <1>7, <1>8, <1>9, MainFrame DEF Hand, Admits, Admitted

LEMMA GoesIs ==
  ASSUME main \in Loops, NEW s \in Stages, main' = Goes(s)
  PROVE  /\ main' \in Loops /\ main'.at = s
         /\ main'.seen = main.seen /\ main'.upto = main.upto /\ main'.out = main.out
         /\ main'.event = main.event
         /\ main'.closing = main.closing /\ main'.abandoned = main.abandoned
         /\ main'.back = main.back /\ main'.then = main.then
BY DEF Loops, Goes

LEMMA NextIs ==
  ASSUME NEW m \in Loops
  PROVE  LET n == NextTransition(m) IN
         /\ n \in Loops /\ n.at = (IF m.seen < m.upto THEN "settle" ELSE "drain")
         /\ n.seen = m.seen /\ n.upto = m.upto /\ n.event = m.event
         /\ n.closing = m.closing /\ n.abandoned = m.abandoned
         /\ n.then = m.then
<1>1. /\ m.seen \in Nat /\ m.upto \in Nat
  BY DEF Loops
<1> QED
  BY <1>1 DEF Loops, NextTransition, Stages

LEMMA ReadStep ==
  ASSUME IInv, Read
  PROVE  IInv' /\ Admitted
<1> DEFINE m == [main EXCEPT !.upto = tick]
<1>1. /\ main.at = "loop" /\ main' = NextTransition(m) /\ UNCHANGED <<co, worker, actor>>
  BY DEF Read, At
<1>2. /\ m \in Loops /\ m.upto = tick /\ m.seen = main.seen /\ m.event = main.event
      /\ m.closing = main.closing /\ m.abandoned = main.abandoned
  BY Facts DEF Loops
<1> HIDE DEF m
<1>3. /\ main' \in Loops /\ main'.at \in {"settle", "drain"}
      /\ main'.at = "settle" => main.seen < tick
      /\ main'.seen = main.seen /\ main'.upto = tick /\ main'.event = main.event
      /\ main'.closing = main.closing /\ main'.abandoned = main.abandoned
  BY <1>1, <1>2, NextIs, Facts
<1>4. Loop'
  BY <1>1, <1>3, Facts DEF IInv, Loop, InTransition, Consumed, Submitting, actor
<1>5. Ending'
  BY <1>1, <1>3 DEF IInv, Ending, Finishing, Submitting, actor
<1>6. Good(co', Busy, Hand')
  BY <1>1, <1>3 DEF IInv, Hand
<1> QED
  BY <1>1, <1>3, <1>4, <1>5, <1>6, MainFrame, NoTurn, Facts

LEMMA LeaveStep ==
  ASSUME IInv, Leave
  PROVE  IInv' /\ Admitted
<1>1. /\ main.at = "loop" /\ main' = Goes("stop") /\ co' = InvalidateAll(co, TRUE)
      /\ UNCHANGED <<worker, actor>>
  BY DEF Leave, At
<1>2. /\ main' \in Loops /\ main'.at = "stop" /\ main'.seen = main.seen /\ main'.upto = main.upto
      /\ main'.event = main.event
      /\ main'.closing = main.closing /\ main'.abandoned = main.abandoned
  BY <1>1, GoesIs, Facts DEF Stages
<1>3. /\ Good(co', Busy, Hand') /\ Len(co'.turns) = Len(co.turns) /\ ~co'.accept
      /\ co'.awaiting = co.awaiting /\ co'.pending = co.pending /\ co'.current = 0
  BY <1>1, <1>2, InvalidateGood DEF IInv, Hand
<1>4. Loop'
  BY <1>1, <1>2, Facts DEF IInv, Loop, InTransition, Consumed, Submitting, actor
<1>5. Ending'
  BY <1>1, <1>2, <1>3 DEF IInv, Ending, Finishing, Submitting, actor
<1> QED
  BY <1>1, <1>2, <1>3, <1>4, <1>5, MainFrame, NoTurn, Facts

LEMMA JoinStep ==
  ASSUME IInv, Join
  PROVE  IInv' /\ Admitted
<1>1. PICK left \in IF ActorOver THEN {0} ELSE {co.awaiting} :
         main' = NextTransition([main EXCEPT !.closing = TRUE, !.upto = tick,
                                             !.abandoned = left])
  BY DEF Join
<1>2. /\ main.at = "join" /\ ~main.closing /\ main.abandoned = 0 /\ left \in {0, co.awaiting}
      /\ UNCHANGED <<co, worker, actor>>
  BY DEF Join, At, IInv, Ending, Left
<1> DEFINE m == [main EXCEPT !.closing = TRUE, !.upto = tick, !.abandoned = left]
<1>3. /\ m \in Loops /\ m.upto = tick /\ m.seen = main.seen /\ m.event = main.event
      /\ m.closing /\ m.abandoned = left /\ main' = NextTransition(m)
  BY <1>1, <1>2, Facts DEF Loops
<1> HIDE DEF m
<1>4. /\ main' \in Loops /\ main'.at \in {"settle", "drain"}
      /\ main'.at = "settle" => main.seen < tick
      /\ main'.seen = main.seen /\ main'.upto = tick /\ main'.event = main.event
      /\ main'.closing /\ main'.abandoned = left
  BY <1>3, NextIs, Facts
<1>5. /\ AtActor' = AtActor /\ Answered' = Answered /\ Recorded' = Recorded
      /\ Busy' = Busy /\ Hand' = Hand
  BY <1>2, <1>4 DEF AtActor, Answered, Recorded, actor, Busy, Hand
<1>6. World(co, Busy) /\ AtActor \subseteq {co.awaiting} /\ 0 \notin DOMAIN co.turns
  <2>1. World(co, Busy) /\ 0 \notin AtActor
    BY DEF IInv, Good, AtActor
  <2>2. AtActor \subseteq {co.awaiting}
    BY <1>2, <2>1 DEF World
  <2>3. 0 \notin DOMAIN co.turns
    BY Facts DEF Records
  <2> QED
    BY <2>1, <2>2, <2>3
<1>7. World(co, Busy)'
  <2>1. Known' = Known /\ InPlay(co, Busy)' = InPlay(co, Busy)
    BY <1>2, <1>5 DEF Known, InPlay, actor
  <2> QED
    BY <1>2, <1>4, <1>5, <1>6, <2>1 DEF World, actor
<1>8. Good(co, Busy, Hand)'
  <2>1. Good(co', Busy', Hand')
    BY <1>2, <1>5 DEF IInv
  <2> QED
    BY <1>7, <2>1, WorldFrame
<1>9. Left'
  <2>1. CASE ActorOver
    <3>1. submitted = 0 /\ owed = {} /\ clock.held = 0
      BY <2>1 DEF ActorOver, IInv, Actor
    <3>2. AtActor = {}
      BY <3>1 DEF AtActor
    <3>3. co.awaiting \in {0} \cup Answered
      BY <1>6, <3>1, <3>2 DEF World
    <3> QED
      BY <1>2, <1>4, <1>5, <3>2, <3>3 DEF Left
  <2>2. CASE ~ActorOver
    <3>1. left = co.awaiting
      BY <2>2
    <3> QED
      BY <1>2, <1>4, <1>5, <1>6, <3>1 DEF Left
  <2> QED
    BY <2>1, <2>2
<1>10. Actor' /\ Typed'
  BY <1>2, <1>4, ActorFrame DEF IInv, Typed, actor
<1>11. Loop'
  BY SMTT(30), <1>2, <1>4, Facts DEF IInv, Loop, InTransition, Consumed, Submitting, actor
<1>12. Ending'
  BY <1>2, <1>4 DEF IInv, Ending, Finishing, Submitting
<1> QED
  BY <1>2, <1>8, <1>9, <1>10, <1>11, <1>12, NoTurn, Facts DEF IInv

(* The main loop is about to give away what was deferred.                   *)
LEMMA FlushesIs ==
  ASSUME main \in Loops,
         NEW back \in {"ingest", "feedback", "dispatch", "suppress"},
         NEW then \in {"next", "drain"},
         main' = Flushes(back, then)
  PROVE  /\ main' \in Loops /\ main'.at = "flush" /\ main'.back = back /\ main'.then = then
         /\ main'.seen = main.seen /\ main'.upto = main.upto /\ main'.event = main.event
         /\ main'.closing = main.closing /\ main'.abandoned = main.abandoned
BY DEF Loops, Stages, Flushes

LEMMA ReleaseStep ==
  ASSUME IInv, Release
  PROVE  IInv' /\ Admitted
<1>1. main.at = "flush" /\ UNCHANGED <<worker, actor>> /\ Good(co, Busy, Hand)
  BY DEF Release, At, IInv
<1>2. main.back \in {"ingest", "emit", "feedback", "dispatch", "suppress"}
  BY <1>1, Facts DEF IInv, Loop, Loops
<1>3. /\ co' \in Records /\ Kept(co, co') /\ co'.events = co.events /\ co'.pending = co.pending
      /\ main' \in Loops /\ main'.at \in {"submit", main.back}
      /\ main'.seen = main.seen /\ main'.upto = main.upto /\ main'.event = main.event
      /\ main'.closing = main.closing /\ main'.abandoned = main.abandoned
      /\ main'.back = main.back /\ main'.then = main.then
  <2>1. CASE Free(co)
    <3> DEFINE none == <<>>
               out == co.deferred
    <3>1. /\ co' = [co EXCEPT !.deferred = none, !.flushing = TRUE]
          /\ main' = [main EXCEPT !.at = "submit", !.out = out]
      BY <2>1 DEF Release
    <3>2. none \in Seq(Nat) /\ out \in Seq(Nat)
      BY Facts DEF Records
    <3> HIDE DEF none, out
    <3>3. /\ co' \in Records /\ Kept(co, co') /\ co'.events = co.events
          /\ co'.pending = co.pending
      BY <3>1, <3>2, Facts DEF Records, Kept
    <3>4. /\ main' \in Loops /\ main'.at = "submit"
          /\ main'.seen = main.seen /\ main'.upto = main.upto /\ main'.event = main.event
          /\ main'.closing = main.closing /\ main'.abandoned = main.abandoned
          /\ main'.back = main.back /\ main'.then = main.then
      BY <3>1, <3>2, Facts DEF Loops, Stages
    <3> QED
      BY <3>3, <3>4
  <2>2. CASE ~Free(co)
    <3>1. main' = Goes(main.back) /\ co' = co
      BY <2>2 DEF Release
    <3> QED
      BY <1>2, <3>1, GoesIs, Facts DEF Stages, Kept
  <2> QED
    BY <2>1, <2>2
<1>4. Good(co', Busy, Hand')
  <2>1. Good(co', Busy, Hand)
    BY <1>1, <1>3, SameGood
  <2> QED
    BY <1>3, <2>1 DEF Hand
<1>5. Loop'
  BY <1>1, <1>2, <1>3, Facts DEF IInv, Loop, InTransition, Consumed, Submitting, actor
<1>6. Ending'
  BY <1>1, <1>2, <1>3 DEF IInv, Loop, Ending, Finishing, Submitting, actor, Kept
<1>7. Len(co'.turns) = Len(co.turns) /\ co'.current = co.current /\ co'.awaiting = co.awaiting
  BY <1>3 DEF Kept
<1> QED
  BY <1>1, <1>3, <1>4, <1>5, <1>6, <1>7, MainFrame, NoTurn, Facts

LEMMA SettleTransitionStep ==
  ASSUME IInv, SettleTransition
  PROVE  IInv' /\ Admitted
<1>1. main.at = "settle" /\ UNCHANGED <<worker, actor>>
  BY DEF SettleTransition, At
<1>2. /\ Good(co, Busy, Hand) /\ Len(transitions) > 0 /\ main.seen < main.upto
      /\ co \in Records
  BY <1>1, Facts DEF IInv, Loop, InTransition, Consumed
<1>3. current = transitions[1] /\ 1 \in DOMAIN transitions /\ current \in Transition
  BY <1>2, Facts DEF current
<1>4. CASE current.turn # 0 /\ current.turn = co.awaiting
  <2> DEFINE t == current.turn
             wins == current.wins
  <2>1. co' = Settle(co, t, wins) /\ main' = Flushes("ingest", "next")
    BY <1>4 DEF SettleTransition
  <2>2. /\ wins \in BOOLEAN /\ (wins => t \in won) /\ (~wins => t \notin won \ failed)
        /\ t \notin AtActor /\ t = co.awaiting /\ t # 0
    BY <1>3, <1>4 DEF IInv, Actor, Transition, Recorded
  <2> HIDE DEF t, wins
  <2>3. /\ Good(co', Busy, Hand) /\ Len(co'.turns) = Len(co.turns) /\ co'.awaiting = 0
        /\ (co'.accept <=> co.accept) /\ co'.pending = co.pending /\ co'.current = 0
    BY <1>2, <2>1, <2>2, SettleGood
  <2>4. /\ main' \in Loops /\ main'.at = "flush" /\ main'.back = "ingest" /\ main'.then = "next"
        /\ main'.seen = main.seen /\ main'.upto = main.upto /\ main'.event = main.event
        /\ main'.closing = main.closing /\ main'.abandoned = main.abandoned
    BY <2>1, Facts, FlushesIs
  <2>5. Loop'
    BY <1>1, <1>2, <2>4, Facts DEF IInv, Loop, InTransition, Consumed, Submitting, actor
  <2>6. Ending'
    BY <1>1, <2>3, <2>4 DEF IInv, Ending, Finishing, Submitting, actor
  <2>7. Good(co', Busy, Hand')
    BY <2>3, <2>4 DEF Hand
  <2> QED
    BY <1>1, <2>3, <2>4, <2>5, <2>6, <2>7, MainFrame, NoTurn, Facts
<1>5. CASE ~ (current.turn # 0 /\ current.turn = co.awaiting)
  <2>1. main' = Goes("ingest") /\ UNCHANGED co
    BY <1>5 DEF SettleTransition
  <2>2. /\ main' \in Loops /\ main'.at = "ingest" /\ main'.seen = main.seen
        /\ main'.upto = main.upto /\ main'.event = main.event
        /\ main'.closing = main.closing /\ main'.abandoned = main.abandoned
    BY <2>1, GoesIs, Facts DEF Stages
  <2>3. Loop'
    BY <1>1, <1>2, <2>2, Facts DEF IInv, Loop, InTransition, Consumed, Submitting, actor
  <2>4. Ending'
    BY <1>1, <2>1, <2>2 DEF IInv, Ending, Finishing, Submitting, actor
  <2>5. Good(co', Busy, Hand') /\ Len(co'.turns) = Len(co.turns) /\ co'.current = co.current
        /\ co'.awaiting = co.awaiting
    BY <1>2, <2>1, <2>2 DEF Hand
  <2> QED
    BY <1>1, <2>2, <2>3, <2>4, <2>5, MainFrame, NoTurn, Facts
<1> QED
  BY <1>4, <1>5

LEMMA IngestTransitionStep ==
  ASSUME IInv, IngestTransition
  PROVE  IInv' /\ Admitted
<1> DEFINE i == main.seen + 1
<1>1. main.at = "ingest" /\ UNCHANGED <<worker, actor>>
  BY DEF IngestTransition, At
<1>2. /\ Good(co, Busy, Hand) /\ main.seen < main.upto /\ co \in Records /\ i \in Nat
      /\ co.deferred \in Seq(Nat)
  BY SMTT(30), <1>1, Facts DEF IInv, Loop, InTransition, Records
<1>3. /\ co' \in Records /\ Kept(co, co') /\ co'.events = co.events /\ co'.pending = co.pending
      /\ main' \in Loops /\ main'.closing = main.closing /\ main'.abandoned = main.abandoned
      /\ main'.seen = main.seen /\ main'.upto = main.upto /\ main'.event = main.event
      /\ \/ main'.at = "submit" /\ main'.back = "emit" /\ main'.out # <<>>
         \/ main'.at = "emit"
  <2>1. CASE Free(co)
    <3> DEFINE out == <<i>>
    <3>1. main' = [main EXCEPT !.at = "submit", !.out = out, !.back = "emit"] /\ co' = co
      BY <2>1 DEF IngestTransition
    <3>2. out \in Seq(Nat) /\ out # <<>>
      BY <1>2
    <3> HIDE DEF out
    <3> QED
      BY <1>2, <3>1, <3>2, Facts DEF Loops, Stages, Kept
  <2>2. CASE ~Free(co)
    <3> DEFINE deferred == Append(co.deferred, i)
    <3>1. co' = [co EXCEPT !.deferred = deferred] /\ main' = Goes("emit")
      BY <2>2 DEF IngestTransition
    <3>2. deferred \in Seq(Nat)
      BY <1>2
    <3> HIDE DEF deferred
    <3>3. /\ co' \in Records /\ Kept(co, co') /\ co'.events = co.events
          /\ co'.pending = co.pending
      BY <1>2, <3>1, <3>2 DEF Records, Kept
    <3> QED
      BY <3>1, <3>3, GoesIs, Facts DEF Stages
  <2> QED
    BY <2>1, <2>2
<1>4. Good(co', Busy, Hand')
  <2>1. Good(co', Busy, Hand)
    BY <1>2, <1>3, SameGood
  <2> QED
    BY <1>3, <2>1 DEF Hand
<1>5. Loop'
  BY <1>1, <1>2, <1>3, Facts DEF IInv, Loop, InTransition, Consumed, Submitting, actor
<1>6. Ending'
  BY <1>1, <1>3 DEF IInv, Ending, Finishing, Submitting, actor, Kept
<1>7. Len(co'.turns) = Len(co.turns) /\ co'.current = co.current /\ co'.awaiting = co.awaiting
  BY <1>3 DEF Kept
<1> QED
  BY <1>1, <1>3, <1>4, <1>5, <1>6, <1>7, MainFrame, NoTurn, Facts

LEMMA SubmitObservationStep ==
  ASSUME IInv, SubmitObservation
  PROVE  IInv' /\ Admitted
<1> DEFINE w == Seen(Head(main.out))
           s == <<w>>
           line == co.line \o s
<1>1. /\ main.at = "submit" /\ main.out # <<>> /\ UNCHANGED <<worker, actor>>
      /\ main' = Goes("track")
  BY DEF SubmitObservation, At
<1>2. /\ main' \in Loops /\ main'.at = "track" /\ main'.out = main.out
      /\ main'.seen = main.seen /\ main'.upto = main.upto /\ main'.event = main.event
      /\ main'.closing = main.closing /\ main'.abandoned = main.abandoned
      /\ main'.back = main.back /\ main'.then = main.then
  BY <1>1, GoesIs, Facts DEF Stages
<1>3. co \in Records /\ co.line \in Seq(Work) /\ main.out \in Seq(Nat)
  BY Facts DEF Records, Loops
<1>4. w \in Work /\ w.turn = 0
  <2>1. Head(main.out) \in Nat
    BY <1>1, <1>3, TailIs
  <2> QED
    BY <2>1 DEF Seen, Work
<1>5. co' = [co EXCEPT !.line = Append(co.line, w)]
  BY DEF SubmitObservation
<1> HIDE DEF w
<1>6. s \in Seq(Work) /\ line \in Seq(Work) /\ line = Append(co.line, w)
      /\ \A i \in DOMAIN s : s[i].turn = 0
  BY <1>3, <1>4
<1> HIDE DEF s
<1>7. co' = [co EXCEPT !.line = line]
  BY <1>5, <1>6
<1> HIDE DEF line
<1>8. /\ co' \in Records /\ co'.line = line
      /\ co'.events = co.events /\ co'.pending = co.pending /\ co'.turns = co.turns
      /\ co'.current = co.current /\ co'.awaiting = co.awaiting /\ co'.accept = co.accept
  BY <1>3, <1>6, <1>7 DEF Records
<1>9. Good(co', Busy, Hand')
  <2>1. Good(co', Busy, Hand)
    BY <1>6, <1>8, LineGood DEF IInv, line
  <2> QED
    BY <1>2, <2>1 DEF Hand
<1>10. Loop'
  BY <1>1, <1>2, Facts DEF IInv, Loop, InTransition, Consumed, Submitting, actor
<1>11. Ending'
  BY <1>1, <1>2, <1>8 DEF IInv, Ending, Finishing, Submitting, actor
<1> QED
  BY <1>1, <1>2, <1>8, <1>9, <1>10, <1>11, MainFrame, NoTurn, Facts

LEMMA TrackObservationStep ==
  ASSUME IInv, TrackObservation
  PROVE  IInv' /\ Admitted
<1> DEFINE i == Head(main.out)
           out == Tail(main.out)
<1>1. /\ main.at = "track" /\ main.out # <<>> /\ UNCHANGED <<worker, actor>>
      /\ main' = [main EXCEPT !.at = "submit", !.out = out]
      /\ co' = IF Absorbed(i) THEN co ELSE [co EXCEPT !.ingesting = @ \cup {i}]
  BY DEF TrackObservation, At, IInv, Loop
<1>2. i \in Nat /\ out \in Seq(Nat)
  BY <1>1, TailIs, Facts DEF Loops
<1> HIDE DEF i, out
<1>3. /\ main' \in Loops /\ main'.at = "submit"
      /\ main'.seen = main.seen /\ main'.upto = main.upto /\ main'.event = main.event
      /\ main'.closing = main.closing /\ main'.abandoned = main.abandoned
      /\ main'.back = main.back /\ main'.then = main.then
  BY <1>1, <1>2, Facts DEF Loops, Stages
<1>4. /\ co' \in Records /\ Kept(co, co') /\ co'.events = co.events /\ co'.pending = co.pending
  BY <1>1, <1>2, Facts DEF Records, Kept
<1>5. Good(co', Busy, Hand')
  <2>1. Good(co', Busy, Hand)
    BY <1>4, SameGood DEF IInv
  <2> QED
    BY <1>3, <2>1 DEF Hand
<1>6. Loop'
  BY <1>1, <1>3, Facts DEF IInv, Loop, InTransition, Consumed, Submitting, actor
<1>7. Ending'
  BY <1>1, <1>3, <1>4 DEF IInv, Ending, Finishing, Submitting, actor, Kept
<1>8. Len(co'.turns) = Len(co.turns)
  BY <1>4 DEF Kept
<1> QED
  BY <1>1, <1>3, <1>5, <1>6, <1>7, <1>8, MainFrame, NoTurn, Facts

LEMMA EndFlushStep ==
  ASSUME IInv, EndFlush
  PROVE  IInv' /\ Admitted
<1>1. /\ main.at = "submit" /\ UNCHANGED <<worker, actor>>
      /\ main' = Goes(main.back) /\ co' = [co EXCEPT !.flushing = FALSE]
  BY DEF EndFlush, At
<1>2. main.back \in {"ingest", "emit", "feedback", "dispatch", "suppress"}
  BY <1>1, Facts DEF IInv, Loop, Loops
<1>3. /\ main' \in Loops /\ main'.at = main.back
      /\ main'.seen = main.seen /\ main'.upto = main.upto /\ main'.event = main.event
      /\ main'.closing = main.closing /\ main'.abandoned = main.abandoned
      /\ main'.back = main.back /\ main'.then = main.then
  BY <1>1, <1>2, GoesIs, Facts DEF Stages
<1>4. /\ co' \in Records /\ Kept(co, co') /\ co'.events = co.events /\ co'.pending = co.pending
  BY <1>1, Facts DEF Records, Kept
<1>5. Good(co', Busy, Hand')
  <2>1. Good(co', Busy, Hand)
    BY <1>4, SameGood DEF IInv
  <2> QED
    BY <1>3, <2>1 DEF Hand
<1>6. Loop'
  BY <1>1, <1>2, <1>3, Facts DEF IInv, Loop, InTransition, Consumed, Submitting, actor
<1>7. Ending'
  BY <1>1, <1>2, <1>3, <1>4 DEF IInv, Loop, Ending, Finishing, Submitting, actor, Kept
<1>8. Len(co'.turns) = Len(co.turns)
  BY <1>4 DEF Kept
<1> QED
  BY <1>1, <1>3, <1>5, <1>6, <1>7, <1>8, MainFrame, NoTurn, Facts

LEMMA InterruptStepStep ==
  ASSUME IInv, InterruptStep
  PROVE  IInv' /\ Admitted
<1> DEFINE e == main.event
<1>1. /\ main.at = "interrupt" /\ UNCHANGED <<worker, actor>>
      /\ main' = [main EXCEPT !.at = "dispatch", !.event = 0] /\ co' = Interrupt(co, e)
  BY DEF InterruptStep, At
<1>2. /\ main' \in Loops /\ main'.at = "dispatch" /\ main'.event = 0
      /\ main'.seen = main.seen /\ main'.upto = main.upto
      /\ main'.closing = main.closing /\ main'.abandoned = main.abandoned
      /\ main'.back = main.back /\ main'.then = main.then
  BY <1>1, Facts DEF Loops, Stages
<1>3. Good(co, Busy, {} \cup {e}) /\ e \notin {}
  <2>1. Hand = {} \cup {e}
    BY <1>1 DEF Hand, IInv, Loop
  <2> QED
    BY <2>1 DEF IInv
<1> HIDE DEF e
<1>4. Good(co', Busy, {}) /\ Admits(co, co')
  <2>1. Good(Interrupt(co, e), Busy, {}) /\ Admits(co, Interrupt(co, e))
    BY <1>3, InterruptGood, Facts
  <2> QED
    BY <1>1, <2>1
<1>5. Good(co', Busy, Hand')
  BY <1>2, <1>4 DEF Hand
<1>6. Loop'
  BY <1>1, <1>2, Facts DEF IInv, Loop, InTransition, Consumed, Submitting, actor
<1>7. Ending'
  BY <1>1, <1>2, <1>4 DEF IInv, Ending, Finishing, Submitting, actor, Admits
<1> QED
  BY <1>1, <1>2, <1>4, <1>5, <1>6, <1>7, MainFrame DEF Admits, Admitted

LEMMA DispatchStepStep ==
  ASSUME IInv, DispatchStep
  PROVE  IInv' /\ Admitted
<1> DEFINE m == [main EXCEPT !.seen = @ + 1]
<1>1. /\ main.at = "dispatch" /\ UNCHANGED <<worker, actor>>
      /\ co' = Dispatch(co)
  BY DEF DispatchStep, At
<1>2. Good(co', Busy, Hand) /\ Admits(co, co')
  BY <1>1, DispatchGood, Facts DEF IInv
<1>3. /\ main' \in Loops /\ main'.upto = main.upto /\ main'.event = main.event
      /\ main'.closing = main.closing /\ main'.abandoned = main.abandoned
      /\ IF main.then = "next"
         THEN /\ main'.seen = main.seen + 1
              /\ main'.at = IF main'.seen < main.upto THEN "settle" ELSE "drain"
         ELSE /\ main'.seen = main.seen /\ main'.at \in {"loop", "drain"}
              /\ main'.at = main.then
  <2>1. CASE main.then = "next"
    <3>1. main' = NextTransition(m)
      BY <2>1 DEF DispatchStep
    <3>2. /\ m \in Loops /\ m.upto = main.upto /\ m.seen = main.seen + 1
          /\ m.event = main.event /\ m.closing = main.closing /\ m.abandoned = main.abandoned
      <4> DEFINE k == main.seen + 1
      <4>1. k \in Nat /\ m = [main EXCEPT !.seen = k]
        BY Facts
      <4> HIDE DEF k, m
      <4>2. /\ m \in Loops /\ m.upto = main.upto /\ m.seen = k
            /\ m.event = main.event /\ m.closing = main.closing /\ m.abandoned = main.abandoned
        BY <4>1, Facts DEF Loops
      <4> QED
        BY <4>2 DEF k
    <3> HIDE DEF m
    <3> QED
      BY <2>1, <3>1, <3>2, NextIs
  <2>2. CASE main.then # "next"
    <3>1. main' = Goes(main.then)
      BY <2>2 DEF DispatchStep
    <3>2. main.then \in {"loop", "drain"}
      BY <2>2, Facts DEF Loops
    <3> QED
      BY <2>2, <3>1, <3>2, GoesIs, Facts DEF Stages
  <2> QED
    BY <2>1, <2>2
<1>4. Good(co', Busy, Hand')
  BY <1>2, <1>3 DEF Hand
<1>5. Loop'
  <2>1. CASE main.then = "next"
    <3>1. /\ main.seen < main.upto /\ main.upto <= tick /\ main.event = 0
          /\ Len(transitions) = tick - main.seen - 1
      BY <1>1, <2>1 DEF IInv, Loop, InTransition, Consumed
    <3>2. /\ main'.seen = main.seen + 1 /\ main'.at \in {"settle", "drain"}
          /\ main'.at = "settle" => main'.seen < main.upto
          /\ main'.upto = main.upto /\ main'.event = 0
      BY <1>3, <2>1, <3>1
    <3>3. Len(transitions') = tick' - main'.seen /\ tick' = tick
      BY <1>1, <3>1, <3>2, Facts DEF actor
    <3>4. main'.seen <= main'.upto /\ main'.upto <= tick'
      BY <3>1, <3>2, <3>3, Facts
    <3> QED
      BY SMTT(30), <3>2, <3>3, <3>4, Facts DEF Loop, InTransition, Consumed, Submitting
  <2>2. CASE main.then # "next"
    BY <1>1, <1>3, <2>2, Facts DEF IInv, Loop, InTransition, Consumed, Submitting, actor
  <2> QED
    BY <2>1, <2>2
<1>6. Ending'
  BY <1>1, <1>2, <1>3 DEF IInv, Ending, Finishing, Submitting, actor, Admits
<1> QED
  BY <1>1, <1>2, <1>3, <1>4, <1>5, <1>6, MainFrame DEF Admits, Admitted

LEMMA FeedbackStep ==
  ASSUME IInv, Feedback
  PROVE  IInv' /\ Admitted
<1> DEFINE c == NewEvent(co, "feedback", None)
           e == Len(c.events)
<1>1. /\ main.at = "feedback" /\ UNCHANGED <<worker, actor>>
      /\ co' = EndPlan(c, e) /\ main' = [main EXCEPT !.at = "interrupt", !.event = e]
  BY DEF Feedback, At
<1>2. Good(co, Busy, {}) /\ main.event = 0 /\ co \in Records /\ Len(co.events) \in Nat
  <2>1. main.event = 0
    BY <1>1 DEF IInv, Loop
  <2>2. Hand = {}
    BY <2>1 DEF Hand
  <2> QED
    BY <2>1, <2>2, Facts DEF IInv, Records
<1>3. None \in Nat /\ "feedback" \in Kinds
  BY CoordinatorAssumption DEF None, Kinds
<1>4. Good(c, Busy, {e}) /\ Kept(co, c) /\ e \in Nat /\ e # 0 /\ c.pending = co.pending
  <2>1. /\ Good(c, Busy, {} \cup {Len(co.events) + 1}) /\ Kept(co, c)
        /\ Len(c.events) = Len(co.events) + 1 /\ c.pending = co.pending
    BY ZenonT(30), <1>2, <1>3, NewEventGood
  <2> HIDE DEF c
  <2>2. {} \cup {Len(co.events) + 1} = {e}
    BY <2>1
  <2> QED
    BY <1>2, <2>1, <2>2
<1> HIDE DEF c, e
<1>5. Good(co', Busy, {e}) /\ Kept(c, co') /\ co'.pending = c.pending
  BY <1>1, <1>4, EndPlanGood
<1>6. /\ main' \in Loops /\ main'.at = "interrupt" /\ main'.event = e
      /\ main'.seen = main.seen /\ main'.upto = main.upto
      /\ main'.closing = main.closing /\ main'.abandoned = main.abandoned
      /\ main'.back = main.back /\ main'.then = main.then
  BY <1>1, <1>4, Facts DEF Loops, Stages
<1>7. Good(co', Busy, Hand')
  <2>1. Hand' = {e}
    BY <1>4, <1>6 DEF Hand
  <2> QED
    BY <1>5, <2>1
<1>8. Loop'
  BY <1>1, <1>4, <1>6, Facts DEF IInv, Loop, InTransition, Consumed, Submitting, actor
<1>9. Ending'
  BY <1>1, <1>4, <1>5, <1>6 DEF IInv, Loop, Ending, Finishing, Submitting, actor, Kept
<1>10. Len(co'.turns) = Len(co.turns) /\ co'.current = co.current /\ co'.awaiting = co.awaiting
  BY <1>4, <1>5 DEF Kept
<1> QED
  BY <1>1, <1>6, <1>7, <1>8, <1>9, <1>10, MainFrame, NoTurn, Facts

(* When the last receipt is drained, no turn awaits one but the one that    *)
(* stop left with the actor.                                                *)
LEMMA DrainedStep ==
  ASSUME IInv, Drained
  PROVE  IInv' /\ Admitted
<1>1. /\ main.at = "drain" /\ receipts = <<>> /\ UNCHANGED <<co, worker, actor>>
  BY DEF Drained, At
<1>2. /\ main' \in Loops
      /\ main'.seen = main.seen /\ main'.upto = main.upto /\ main'.event = main.event
      /\ main'.closing = main.closing /\ main'.abandoned = main.abandoned
      /\ IF main.closing THEN main'.at = "invalidate"
         ELSE main'.at = "dispatch" /\ main'.then = "loop"
  <2>1. CASE main.closing
    <3>1. main' = Goes("invalidate")
      BY <2>1 DEF Drained
    <3> QED
      BY <2>1, <3>1, GoesIs, Facts DEF Stages
  <2>2. CASE ~main.closing
    <3>1. main' = [main EXCEPT !.at = "dispatch", !.then = "loop"]
      BY <2>2 DEF Drained
    <3> QED
      BY <2>2, <3>1, Facts DEF Loops, Stages
  <2> QED
    BY <2>1, <2>2
<1>3. Good(co', Busy, Hand')
  BY <1>1, <1>2 DEF IInv, Hand
<1>4. Loop'
  BY <1>1, <1>2, Facts DEF IInv, Loop, InTransition, Consumed, Submitting, actor
<1>5. main.closing => co.awaiting \in {0, main.abandoned}
  <2>1. Answered = {}
    BY <1>1 DEF Answered
  <2> QED
    BY <2>1 DEF IInv, Left
<1>6. Ending'
  BY <1>1, <1>2, <1>5 DEF IInv, Ending, Finishing, Submitting, actor
<1> QED
  BY <1>1, <1>2, <1>3, <1>4, <1>6, MainFrame, NoTurn, Facts

LEMMA InvalidateStep ==
  ASSUME IInv, Invalidate
  PROVE  IInv' /\ Admitted
<1> DEFINE defer == FALSE
<1>1. /\ main.at = "invalidate" /\ UNCHANGED <<worker, actor>>
      /\ co' = InvalidateAll(co, defer) /\ main' = Flushes("suppress", "next")
  BY DEF Invalidate, At
<1>2. co.awaiting \in {0, main.abandoned} /\ main.closing /\ Good(co, Busy, Hand)
      /\ ~defer /\ defer \in BOOLEAN
  BY <1>1 DEF IInv, Ending, Finishing
<1> HIDE DEF defer
<1>3. /\ Good(co', Busy, Hand) /\ Len(co'.turns) = Len(co.turns) /\ ~co'.accept
      /\ co'.awaiting = 0 /\ co'.pending = co.pending /\ co'.current = 0
  BY <1>1, <1>2, InvalidateGood
<1>4. /\ main' \in Loops /\ main'.at = "flush" /\ main'.back = "suppress" /\ main'.then = "next"
      /\ main'.seen = main.seen /\ main'.upto = main.upto /\ main'.event = main.event
      /\ main'.closing = main.closing /\ main'.abandoned = main.abandoned
  BY <1>1, Facts, FlushesIs
<1>5. Good(co', Busy, Hand')
  BY <1>3, <1>4 DEF Hand
<1>6. Loop'
  BY <1>1, <1>4, Facts DEF IInv, Loop, InTransition, Consumed, Submitting, actor
<1>7. Ending'
  BY <1>1, <1>2, <1>3, <1>4 DEF IInv, Ending, Finishing, Submitting, actor
<1> QED
  BY <1>1, <1>3, <1>4, <1>5, <1>6, <1>7, MainFrame, NoTurn, Facts

LEMMA SuppressStep ==
  ASSUME IInv, Suppress
  PROVE  IInv' /\ Admitted
<1>1. /\ main.at = "suppress" /\ UNCHANGED <<worker, actor>> /\ main' = Goes("wait")
      /\ co' = [Mark(co, co.pending, "suppressed") EXCEPT !.pending = {}]
  BY DEF Suppress, At
<1>2. /\ main' \in Loops /\ main'.at = "wait"
      /\ main'.seen = main.seen /\ main'.upto = main.upto /\ main'.event = main.event
      /\ main'.closing = main.closing /\ main'.abandoned = main.abandoned
  BY <1>1, GoesIs, Facts DEF Stages
<1>3. Good(co, Busy, {}) /\ main.event = 0
  <2>1. main.event = 0
    BY <1>1 DEF IInv, Loop
  <2>2. Hand = {}
    BY <2>1 DEF Hand
  <2> QED
    BY <2>1, <2>2 DEF IInv
<1>4. Good(co', Busy, {}) /\ Kept(co, co') /\ co'.pending = {}
  <2> DEFINE none == {}
             d == [Mark(co, co.pending, "suppressed") EXCEPT !.pending = none]
  <2>1. /\ co.pending \in SUBSET (co.pending \cup none) /\ none \in SUBSET co.pending
        /\ none \cap co.pending = {} /\ "suppressed" \in Fates \ {"open"}
        /\ (none \cup (co.pending \ none)) \ co.pending = none
    BY DEF Fates
  <2>2. Good(co, Busy, none) /\ co' = d
    BY <1>1, <1>3
  <2> HIDE DEF none
  <2> DEFINE S == co.pending
             rest == (none \cup (co.pending \ none)) \ S
  <2>3. /\ S \in SUBSET (co.pending \cup none) /\ none \cap S = {} /\ rest = none
    BY <2>1
  <2> HIDE DEF S
  <2>4. /\ Good([Mark(co, S, "suppressed") EXCEPT !.pending = none], Busy, rest)
        /\ Kept(co, [Mark(co, S, "suppressed") EXCEPT !.pending = none])
    BY <2>1, <2>2, <2>3, MarkGood
  <2> HIDE DEF rest
  <2>5. d = [Mark(co, S, "suppressed") EXCEPT !.pending = none]
    BY DEF S
  <2>7. d.pending = none
    <3> DEFINE m == Mark(co, S, "suppressed")
    <3>1. m \in Records
      BY MarkIs, Facts DEF Fates
    <3> HIDE DEF m
    <3>2. [m EXCEPT !.pending = none].pending = none
      BY <3>1 DEF Records
    <3> QED
      BY <2>5, <3>2 DEF m
  <2> HIDE DEF d
  <2>6. Good(d, Busy, none) /\ Kept(co, d) /\ d.pending = none
    BY <2>3, <2>4, <2>5, <2>7
  <2> QED
    BY <2>2, <2>6 DEF none
<1>5. Good(co', Busy, Hand')
  BY <1>2, <1>3, <1>4 DEF Hand
<1>6. Loop'
  BY <1>1, <1>2, Facts DEF IInv, Loop, InTransition, Consumed, Submitting, actor
<1>7. Ending'
  BY <1>1, <1>2, <1>4 DEF IInv, Ending, Finishing, Submitting, actor, Kept
<1>8. Len(co'.turns) = Len(co.turns) /\ co'.current = co.current /\ co'.awaiting = co.awaiting
  BY <1>4 DEF Kept
<1> QED
  BY <1>1, <1>2, <1>5, <1>6, <1>7, <1>8, MainFrame, NoTurn, Facts

LEMMA CloseDriverStep ==
  ASSUME IInv, CloseDriver
  PROVE  IInv' /\ Admitted
<1> DEFINE none == <<>>
           ingesting == co.ingesting \ {w.seen : w \in ToSet(co.line)}
<1>1. /\ main.at = "wait" /\ UNCHANGED <<worker, actor>> /\ main' = Goes("ended")
      /\ co' = [co EXCEPT !.line = none, !.ingesting = ingesting]
  BY DEF CloseDriver, At
<1>2. /\ main' \in Loops /\ main'.at = "ended"
      /\ main'.seen = main.seen /\ main'.upto = main.upto /\ main'.event = main.event
      /\ main'.closing = main.closing /\ main'.abandoned = main.abandoned
  BY <1>1, GoesIs, Facts DEF Stages
<1>3. none \in Seq(Work) /\ ingesting \in SUBSET Nat /\ DOMAIN none = {}
  BY Facts DEF Records
<1> HIDE DEF none, ingesting
<1>4. /\ co' \in Records /\ co'.line = none
      /\ co'.events = co.events /\ co'.pending = co.pending /\ co'.turns = co.turns
      /\ co'.current = co.current /\ co'.awaiting = co.awaiting /\ co'.accept = co.accept
  BY <1>1, <1>3, Facts DEF Records
<1>5. Good(co', Busy, Hand)
  <2>1. Good(co, Busy, Hand)
    BY DEF IInv
  <2>2. Linked(co') /\ Transaction(co') /\ InLine(co', Busy) /\ Events(co', Hand)
    BY <1>3, <1>4, <2>1 DEF Good, Linked, Transaction, InLine, Events
  <2>3. InPlay(co', Busy) \subseteq InPlay(co, Busy)
    BY <1>3, <1>4 DEF InPlay
  <2>4. World(co', Busy)
    BY <1>4, <2>1, <2>3 DEF Good, World
  <2> QED
    BY <1>4, <2>2, <2>4 DEF Good
<1>6. Good(co', Busy, Hand')
  BY <1>2, <1>5 DEF Hand
<1>7. Loop'
  BY <1>1, <1>2, Facts DEF IInv, Loop, InTransition, Consumed, Submitting, actor
<1>8. Ending'
  BY <1>1, <1>2, <1>4 DEF IInv, Ending, Finishing, Submitting, actor
<1> QED
  BY <1>1, <1>2, <1>4, <1>6, <1>7, <1>8, MainFrame, NoTurn, Facts

LEMMA StopActorStep ==
  ASSUME IInv, StopActor
  PROVE  IInv' /\ Admitted
<1>1. /\ main.at = "stop" /\ main' = Goes("join") /\ clock' = [clock EXCEPT !.stop = TRUE]
      /\ UNCHANGED <<co, worker, tick, transitions, submitted, owed, receipts, won, failed>>
  BY DEF StopActor, At
<1>2. /\ main' \in Loops /\ main'.at = "join"
      /\ main'.seen = main.seen /\ main'.upto = main.upto /\ main'.event = main.event
      /\ main'.closing = main.closing /\ main'.abandoned = main.abandoned
  BY <1>1, GoesIs, Facts DEF Stages
<1>3. clock' \in Clocks /\ clock'.stop /\ clock'.at = clock.at /\ clock'.held = clock.held
  BY <1>1, Facts DEF Clocks
<1>4. AtActor' = AtActor /\ Answered' = Answered /\ Recorded' = Recorded
  BY <1>1, <1>3 DEF AtActor, Answered, Recorded
<1>5. Known' = Known
  BY <1>1, <1>4 DEF Known
<1>6. Good(co, Busy, Hand)'
  <2>1. World(co, Busy)'
    <3>1. InPlay(co, Busy)' = InPlay(co, Busy)
      BY <1>1 DEF InPlay, Busy
    <3> QED
      BY <1>1, <1>2, <1>4, <1>5, <3>1 DEF IInv, Good, World
  <2>2. Good(co', Busy', Hand')
    BY <1>1, <1>2 DEF IInv, Busy, Hand
  <2> QED
    BY <2>1, <2>2, WorldFrame
<1>7. Actor'
  BY <1>1, <1>3, <1>4 DEF IInv, Actor
<1>8. Loop'
  BY <1>1, <1>2, Facts DEF IInv, Loop, InTransition, Consumed, Submitting
<1>9. Ending'
  BY <1>1, <1>2, <1>3 DEF IInv, Ending, Finishing, Submitting
<1>10. Typed'
  BY <1>1, <1>2, <1>3 DEF IInv, Typed
<1>11. Left'
  BY <1>1, <1>2, <1>4, LeftFrame DEF IInv
<1> QED
  BY <1>11, <1>1, <1>6, <1>7, <1>8, <1>9, <1>10, NoTurn, Facts DEF IInv

(* The worker's steps that only it and the coordinator take part in.        *)
LEMMA WorkerFrame ==
  ASSUME IInv, UNCHANGED <<main, actor>>, worker' \in Workers, Good(co', Busy', Hand),
         Admits(co, co'), main.at # "begin"
  PROVE  IInv' /\ Admitted
<1>1. Good(co, Busy, Hand)'
  <2>1. Good(co', Busy', Hand')
    BY DEF Hand
  <2> QED
    BY <2>1, GoodFrame
<1>2. Actor'
  BY ActorFrame DEF IInv
<1>3. Typed'
  BY DEF IInv, Typed, actor
<1>4. Loop'
  BY DEF IInv, Loop, InTransition, Consumed, Submitting, actor
<1>5. Ending'
  BY DEF IInv, Ending, Finishing, Submitting, actor, Admits
<1>6. Left'
  <2>1. AtActor' = AtActor /\ Answered' = Answered /\ co'.awaiting = co.awaiting
    BY DEF AtActor, Answered, actor, Admits
  <2> QED
    BY <2>1, LeftFrame DEF IInv
<1> QED
  BY <1>1, <1>2, <1>3, <1>4, <1>5, <1>6 DEF IInv, Admits, Admitted

LEMMA TakeStep ==
  ASSUME IInv, Take
  PROVE  IInv' /\ Admitted
<1> DEFINE w == Head(co.line)
           d == [co EXCEPT !.line = Tail(@)]
<1>1. /\ worker.at = "idle" /\ co.line # <<>> /\ UNCHANGED <<main, actor>>
      /\ worker' = [worker EXCEPT !.at = "run", !.job = w] /\ co' = d
  BY DEF Take
<1>2. Busy = 0 /\ main.at # "begin"
  BY <1>1 DEF Busy, IInv, Ending
<1>3. w \in Work /\ Good(d, w.turn, Hand)
  BY <1>1, <1>2, TakenGood DEF IInv
<1>4. Len(d.turns) = Len(co.turns) /\ Admits(co, d)
  BY Facts, AdmitsSame DEF Records, Admits, Stays
<1> HIDE DEF w, d
<1>5. worker' \in Workers /\ Busy' = w.turn
  BY <1>1, <1>3, Facts DEF Workers, Busy
<1> QED
  BY <1>1, <1>2, <1>3, <1>4, <1>5, WorkerFrame

LEMMA SkipStep ==
  ASSUME IInv, Skip
  PROVE  IInv' /\ Admitted
<1> DEFINE d == [co EXCEPT !.line = Tail(@)]
<1>1. /\ worker.at = "idle" /\ co.line # <<>> /\ UNCHANGED <<main, worker, actor>>
      /\ co' = d
  BY DEF Skip
<1>2. Busy = 0 /\ main.at # "begin" /\ Busy' = 0
  BY <1>1 DEF Busy, IInv, Ending
<1>3. Good(d, 0, Hand)
  BY <1>1, <1>2, TakenGood DEF IInv
<1>4. Len(d.turns) = Len(co.turns) /\ Admits(co, d)
  BY Facts, AdmitsSame DEF Records, Admits, Stays
<1> HIDE DEF d
<1> QED
  BY <1>1, <1>2, <1>3, <1>4, WorkerFrame, Facts

LEMMA ReplyStep ==
  ASSUME IInv, Reply
  PROVE  IInv' /\ Admitted
<1>1. /\ worker.at = "run" /\ UNCHANGED <<co, main, actor>>
      /\ \E r \in {"seen", "action", "nothing", "error"} :
           worker' = [worker EXCEPT !.at = "callback", !.result = r]
  BY DEF Reply
<1>2. worker' \in Workers /\ Busy' = Busy /\ main.at # "begin"
  BY <1>1, Facts DEF Workers, Busy, IInv, Ending
<1> QED
  BY <1>1, <1>2, WorkerFrame, AdmitsSame, Facts DEF IInv

LEMMA IngestSettledStep ==
  ASSUME IInv, IngestSettled
  PROVE  IInv' /\ Admitted
<1> DEFINE ingesting == co.ingesting \ {worker.job.seen}
<1>1. /\ worker.at = "callback" /\ worker.job.turn = 0 /\ UNCHANGED <<main, actor>>
      /\ co' = [co EXCEPT !.ingesting = ingesting]
      /\ worker' = [worker EXCEPT !.at = IF co.flushing THEN "idle" ELSE "dispatch"]
  BY DEF IngestSettled
<1>2. ingesting \in SUBSET Nat
  BY Facts DEF Records
<1> HIDE DEF ingesting
<1>3. /\ co' \in Records /\ Kept(co, co') /\ co'.events = co.events /\ co'.pending = co.pending
  BY <1>1, <1>2, Facts DEF Records, Kept
<1>4. worker' \in Workers /\ Busy' = 0 /\ Busy = 0 /\ main.at # "begin"
  BY <1>1, Facts DEF Workers, Busy, IInv, Ending
<1>5. Good(co', Busy', Hand)
  BY <1>3, <1>4, SameGood DEF IInv
<1> QED
  BY <1>1, <1>3, <1>4, <1>5, WorkerFrame, AdmitsKept, Facts

LEMMA WorkerDispatchesStep ==
  ASSUME IInv, WorkerDispatches
  PROVE  IInv' /\ Admitted
<1>1. /\ worker.at = "dispatch" /\ UNCHANGED <<main, actor>>
      /\ co' = Dispatch(co) /\ worker' = [worker EXCEPT !.at = "idle"]
  BY DEF WorkerDispatches
<1>2. worker' \in Workers /\ Busy' = 0 /\ Busy = 0 /\ main.at # "begin"
  BY <1>1, Facts DEF Workers, Busy, IInv, Ending
<1>3. Good(co', Busy', Hand) /\ Admits(co, co')
  BY <1>1, <1>2, DispatchGood, Facts DEF IInv
<1> QED
  BY <1>1, <1>2, <1>3, WorkerFrame

(* The answer of the provider is an action, and it goes to the actor, which *)
(* takes it or answers that it is closed.                                   *)
LEMMA AwaitsStep ==
  ASSUME IInv, worker.at = "callback", NEW t, t = worker.job.turn, t # 0, ~Late(t),
         co' = Awaits(t), worker' = [worker EXCEPT !.at = "idle"],
         UNCHANGED <<main, clock, tick, transitions, owed, won, failed>>,
         \/ receipts' = Append(receipts, Answer(t, "rejected")) /\ UNCHANGED submitted
         \/ submitted' = t /\ UNCHANGED receipts
  PROVE  IInv' /\ Admitted
<1>1. /\ Busy = t /\ co.current = t /\ co.accept /\ Good(co, t, Hand) /\ main.at # "begin"
      /\ t \in InPlay(co, t)
  BY DEF Busy, Late, IInv, Ending, InPlay
<1>2. t \in DOMAIN co.turns /\ t \in Nat /\ t \notin Known /\ co.awaiting = 0 /\ co.turns \in Seq(TurnRecord)
  BY <1>1, InPlayIs, Facts DEF Transaction, Records
<1>3. worker' \in Workers /\ Busy' = 0
  BY Facts DEF Workers, Busy
<1>4. /\ co' \in Records /\ Linked(co') /\ Transaction(co') /\ InLine(co', 0) /\ Events(co', Hand)
      /\ DOMAIN co'.turns = DOMAIN co.turns /\ Len(co'.turns) = Len(co.turns)
      /\ \A u \in DOMAIN co.turns : co'.turns[u].held = co.turns[u].held
      /\ co'.awaiting = t /\ (co'.accept <=> co.accept) /\ co'.pending = co.pending
      /\ co'.current = 0 /\ InPlay(co', 0) \subseteq InPlay(co, t) \ {t}
  BY <1>1, AwaitsIs
<1>5. /\ receipts' \in Seq(Receipt)
      /\ Answered' = Answered \/ (Answered' = Answered \cup {t} /\ submitted' = submitted)
      /\ submitted' = t \/ t \in Answered'
      /\ \A i \in DOMAIN receipts' :
            \/ i \in DOMAIN receipts /\ receipts'[i] = receipts[i]
            \/ receipts'[i].turn = t /\ receipts'[i].status \notin Commits
  <2>1. CASE receipts' = Append(receipts, Answer(t, "rejected")) /\ submitted' = submitted
    <3> DEFINE r == Answer(t, "rejected")
    <3>1. r \in Receipt /\ r.turn = t /\ r.status \notin Commits
      BY <1>2 DEF Receipt, Answer, Answers, Commits
    <3> HIDE DEF r
    <3>2. receipts \in Seq(Receipt) /\ receipts' = Append(receipts, r)
      BY <2>1, Facts DEF r
    <3>3. /\ receipts' \in Seq(Receipt) /\ DOMAIN receipts' = DOMAIN receipts \cup {Len(receipts) + 1}
          /\ \A i \in DOMAIN receipts : receipts'[i] = receipts[i]
          /\ receipts'[Len(receipts) + 1] = r
      BY <3>1, <3>2
    <3>4. Answered' = Answered \cup {t}
      BY <3>1, <3>3 DEF Answered
    <3> QED
      BY <2>1, <3>1, <3>3, <3>4
  <2>2. CASE submitted' = t /\ receipts' = receipts
    BY <2>2, Facts DEF Answered
  <2> QED
    BY <2>1, <2>2
<1>14. ~main.closing /\ main.abandoned = 0
  BY <1>1 DEF IInv, Ending, Left
<1>6. AtActor = {} /\ submitted = 0 /\ clock.held = 0
  BY <1>1, <1>2, <1>14 DEF Good, World, AtActor
<1>7. /\ AtActor' = {submitted'} \ {0} /\ Recorded' = Recorded /\ AtActor' \subseteq {t}
      /\ t \in Answered' => AtActor' = {} \/ Answered' = Answered
  BY <1>5, <1>6 DEF AtActor, Recorded
<1>8. World(co, Busy)'
  <2>1. Known' \subseteq Known \cup {t}
    BY <1>5, <1>7 DEF Known
  <2>2. InPlay(co, t) \cap Known = {} /\ Known \subseteq DOMAIN co.turns
    BY <1>1 DEF Good, World
  <2>3. InPlay(co', 0) \cap Known' = {} /\ Known' \subseteq DOMAIN co'.turns
    BY <1>2, <1>4, <2>1, <2>2
  <2>4. t \in AtActor' \cup owed' \cup Answered'
    BY <1>5, <1>7
  <2>5. \A u \in DOMAIN co'.turns :
          /\ co'.turns[u].held = "committed" => u \in won'
          /\ co'.turns[u].held = "rolled_back" => u \notin won' \ failed' \/ u = main'.abandoned
    BY <1>1, <1>4 DEF Good, World
  <2>6. InPlay(co, Busy)' = InPlay(co', 0)
    BY SMTT(30), <1>3 DEF InPlay
  <2> QED
    BY <1>4, <1>7, <2>3, <2>4, <2>5, <2>6 DEF World
<1>9. Good(co, Busy, Hand)'
  <2>1. Hand' = Hand
    BY DEF Hand
  <2> QED
    BY ZenonT(40), <1>3, <1>4, <1>8, <2>1 DEF Good, Linked, Transaction, InLine, Events, Records
<1>10. Actor'
  <2>1. Actor /\ t \notin won \cup owed \cup Answered \cup Recorded
    BY <1>2 DEF IInv, Known
  <2>2. AtActor' \cap (won' \cup owed' \cup Answered' \cup Recorded') = {}
    BY <1>5, <1>7, <2>1
  <2>3. \A i \in DOMAIN receipts' :
          IF receipts'[i].status \in Commits THEN receipts'[i].turn \in won'
                                             ELSE receipts'[i].turn \notin won' \ failed'
    BY <1>5, <2>1 DEF Actor
  <2> QED
    BY <1>6, <2>1, <2>2, <2>3 DEF Actor
<1>11. Typed'
  BY <1>3, <1>5 DEF IInv, Typed
<1>12. Loop'
  BY DEF IInv, Loop, InTransition, Consumed, Submitting
<1>13. Ending'
  BY <1>1 DEF IInv, Ending, Finishing, Submitting
<1>15. Left'
  BY <1>14 DEF Left
<1> QED
  BY <1>4, <1>9, <1>10, <1>11, <1>12, <1>13, <1>15, NoTurn, Facts DEF IInv

LEMMA FinishTurnStep ==
  ASSUME IInv, FinishTurn
  PROVE  IInv' /\ Admitted
<1> DEFINE t == worker.job.turn
<1>1. /\ worker.at = "callback" /\ t # 0 /\ worker' = [worker EXCEPT !.at = "idle"]
      /\ UNCHANGED <<main, clock, tick, transitions, owed, won, failed>>
  BY DEF FinishTurn
<1>2. /\ Busy = t /\ t \in InPlay(co, Busy) /\ Good(co, Busy, Hand) /\ main.at # "begin"
      /\ worker' \in Workers /\ Busy' = 0
  BY <1>1, Facts DEF Busy, IInv, Ending, InPlay, Workers
<1>3. ASSUME Good(co', Busy, Hand), Admits(co, co'), UNCHANGED <<submitted, receipts>>
      PROVE  IInv' /\ Admitted
  BY <1>1, <1>2, <1>3, WorkerFrame, LeaveGood DEF actor
<1>4. \/ worker.result = "error" /\ co' = Failed(t) /\ UNCHANGED <<submitted, receipts>>
      \/ /\ Late(t) /\ co' = Dispatch(RolledBack(co, t)) /\ UNCHANGED <<submitted, receipts>>
      \/ /\ ~Late(t) /\ co' = Missed(t) /\ UNCHANGED <<submitted, receipts>>
      \/ /\ ~Late(t) /\ co' = Unused(t) /\ UNCHANGED <<submitted, receipts>>
      \/ /\ ~Late(t) /\ co' = Awaits(t)
         /\ \/ receipts' = Append(receipts, Answer(t, "rejected")) /\ UNCHANGED submitted
            \/ submitted' = t /\ UNCHANGED receipts
  BY DEF FinishTurn
<1>5. CASE worker.result = "error" /\ co' = Failed(t) /\ UNCHANGED <<submitted, receipts>>
  BY <1>2, <1>3, <1>5, FailedGood, Facts
<1>6. CASE Late(t) /\ co' = Dispatch(RolledBack(co, t)) /\ UNCHANGED <<submitted, receipts>>
  BY <1>2, <1>3, <1>6, LateGood, Facts
<1>7. CASE ~Late(t) /\ co' = Missed(t) /\ UNCHANGED <<submitted, receipts>>
  <2>1. co.accept
    BY <1>7 DEF Late
  <2> QED
    BY <1>2, <1>3, <1>7, <2>1, MissedGood, Facts
<1>8. CASE ~Late(t) /\ co' = Unused(t) /\ UNCHANGED <<submitted, receipts>>
  BY <1>2, <1>3, <1>8, UnusedGood, Facts
<1>9. CASE /\ ~Late(t) /\ co' = Awaits(t)
           /\ \/ receipts' = Append(receipts, Answer(t, "rejected")) /\ UNCHANGED submitted
              \/ submitted' = t /\ UNCHANGED receipts
  BY <1>1, <1>9, AwaitsStep
<1> QED
  BY <1>4, <1>5, <1>6, <1>7, <1>8, <1>9

-----------------------------------------------------------------------------
(* The actor's answers *)

LEMMA SetToSeqIs ==
  ASSUME NEW S, IsFiniteSet(S)
  PROVE  LET q == SetToSeq(S) IN
         /\ q \in Seq(S)
         /\ \A i \in DOMAIN q : q[i] \in S
         /\ \A x \in S : \E i \in DOMAIN q : q[i] = x
<1> DEFINE n == Cardinality(S)
           q == SetToSeq(S)
<1>1. n \in Nat /\ ExistsBijection(1..n, S)
  BY FS_CardinalityType
<1>2. PICK f \in [1..n -> S] : IsInjective(f)
  BY <1>1 DEF ExistsBijection, Bijection, Injection
<1>3. q \in [1..n -> S] /\ IsInjective(q)
  BY <1>2 DEF SetToSeq
<1> HIDE DEF n, q
<1>4. q \in Injection(1..n, S)
  BY <1>3 DEF Injection
<1>5. Cardinality(1..n) = n
  <2>1. 1 \in Int /\ n \in Int
    BY <1>1
  <2>2. Cardinality(1..n) = IF 1 > n THEN 0 ELSE n - 1 + 1
    BY <2>1, FS_Interval
  <2> QED
    BY <1>1, <2>2
<1>6. q \in Surjection(1..n, S)
  BY <1>4, <1>5, FS_Injection DEF n
<1>7. \A x \in S : \E i \in 1..n : q[i] = x
  BY <1>6 DEF Surjection
<1>8. q \in Seq(S)
  BY <1>1, <1>3
<1> QED
  BY <1>3, <1>7, <1>8 DEF q

LEMMA AnswersIs ==
  ASSUME NEW S \in SUBSET Nat, IsFiniteSet(S), NEW status \in Answers
  PROVE  LET q == AnswerAll(S, status) IN
         /\ q \in Seq(Receipt)
         /\ \A i \in DOMAIN q : q[i].turn \in S /\ q[i].status = status
         /\ \A t \in S : \E i \in DOMAIN q : q[i].turn = t
<1> DEFINE T == {Answer(t, status) : t \in S}
           f == [t \in S |-> Answer(t, status)]
           q == SetToSeq(T)
<1>1. f \in Surjection(S, T)
  BY DEF Surjection
<1>2. IsFiniteSet(T)
  <2> HIDE DEF f, T
  <2> QED
    BY <1>1, FS_Surjection
<1>3. \A x \in T : x \in Receipt /\ x.turn \in S /\ x.status = status
  BY DEF Receipt, Answer
<1>4. ASSUME NEW t \in S PROVE \E x \in T : x.turn = t
  <2>1. Answer(t, status) \in T
    OBVIOUS
  <2>2. Answer(t, status).turn = t
    BY DEF Answer
  <2> HIDE DEF T
  <2> QED
    BY <2>1, <2>2
<1> HIDE DEF T
<1>5. /\ q \in Seq(T)
      /\ \A i \in DOMAIN q : q[i] \in T
      /\ \A x \in T : \E i \in DOMAIN q : q[i] = x
  BY <1>2, SetToSeqIs
<1> HIDE DEF q
<1>6. q \in Seq(Receipt)
  BY <1>3, <1>5
<1>7. AnswerAll(S, status) = q
  BY DEF AnswerAll, q, T
<1> QED
  BY <1>3, <1>4, <1>5, <1>6, <1>7

LEMMA AddedIs ==
  ASSUME NEW S, NEW q \in Seq(S), NEW r \in Seq(S)
  PROVE  q \o r \in Seq(S) /\ ToSet(q \o r) = ToSet(q) \cup ToSet(r)
<1>1. /\ Len(q) \in Nat /\ Len(r) \in Nat /\ DOMAIN q = 1..Len(q) /\ DOMAIN r = 1..Len(r)
      /\ q \o r \in Seq(S) /\ DOMAIN (q \o r) = 1..(Len(q) + Len(r))
  OBVIOUS
<1>2. \A i \in 1..(Len(q) + Len(r)) : (q \o r)[i] = IF i <= Len(q) THEN q[i] ELSE r[i - Len(q)]
  OBVIOUS
<1>3. ASSUME NEW i \in DOMAIN (q \o r)
      PROVE  (q \o r)[i] \in ToSet(q) \cup ToSet(r)
  <2>1. CASE i <= Len(q)
    BY <1>1, <1>2, <2>1 DEF ToSet
  <2>2. CASE ~ (i <= Len(q))
    <3>1. i - Len(q) \in 1..Len(r)
      BY <1>1, <2>2
    <3> QED
      BY <1>1, <1>2, <2>2, <3>1 DEF ToSet
  <2> QED
    BY <2>1, <2>2
<1>4. ASSUME NEW j \in DOMAIN r
      PROVE  r[j] \in ToSet(q \o r)
  <2>1. /\ j + Len(q) \in 1..(Len(q) + Len(r)) /\ ~ (j + Len(q) <= Len(q))
        /\ (j + Len(q)) - Len(q) = j
    BY <1>1
  <2>2. (q \o r)[j + Len(q)] = r[j]
    BY <1>2, <2>1
  <2> QED
    BY <1>1, <2>1, <2>2 DEF ToSet
<1>5. \A i \in DOMAIN q : q[i] \in ToSet(q \o r)
  BY <1>1, <1>2 DEF ToSet
<1> QED
  BY <1>1, <1>3, <1>4, <1>5 DEF ToSet

LEMMA AnsweredIs ==
  ASSUME NEW S \in SUBSET Nat, IsFiniteSet(S), NEW status \in Answers
  PROVE  LET q == AnswerAll(S, status) IN
         /\ q \in Seq(Receipt)
         /\ \A r \in ToSet(q) : r.turn \in S /\ r.status = status
         /\ \A t \in S : \E r \in ToSet(q) : r.turn = t
BY AnswersIs DEF ToSet

LEMMA ReceiptsAre ==
  /\ Answered = {r.turn : r \in ToSet(receipts)}
  /\ Actor => \A r \in ToSet(receipts) :
                IF r.status \in Commits THEN r.turn \in won ELSE r.turn \notin won \ failed
BY DEF Answered, Actor, ToSet

(* The actor owes an answer for finitely many turns. *)
LEMMA OwedIs ==
  ASSUME IInv
  PROVE  /\ owed \cup {submitted, clock.held} \subseteq Nat
         /\ \A S \in SUBSET ((owed \cup {submitted}) \ {0}) : IsFiniteSet(S) /\ S \in SUBSET Nat
<1>1. Known \subseteq DOMAIN co.turns /\ DOMAIN co.turns = 1..Len(co.turns) /\ Len(co.turns) \in Nat
  BY SMTT(30), Facts DEF IInv, Good, World, Records
<1>2. (owed \cup {submitted, clock.held}) \ {0} \subseteq 1..Len(co.turns)
  BY <1>1 DEF Known, AtActor
<1>3. IsFiniteSet(1..Len(co.turns))
  BY <1>1, FS_Interval
<1>4. ASSUME NEW S \in SUBSET ((owed \cup {submitted}) \ {0})
      PROVE  IsFiniteSet(S) /\ S \in SUBSET Nat
  <2>1. S \in SUBSET (1..Len(co.turns))
    BY <1>2
  <2>2. IsFiniteSet(S)
    BY <1>3, <2>1, FS_Subset
  <2>3. S \subseteq Nat
    BY <1>1, <2>1
  <2> QED
    BY <2>2, <2>3
<1> QED
  BY <1>1, <1>2, <1>4

LEMMA BeginTickStep ==
  ASSUME IInv, BeginTick
  PROVE  IInv' /\ Admitted
<1>1. /\ clock.at = "idle" /\ tick < MaxTicks
      /\ clock' = [clock EXCEPT !.at = "dispatch", !.held = submitted] /\ submitted' = 0
      /\ UNCHANGED <<co, main, worker, tick, transitions, owed, receipts, won, failed>>
  BY DEF BeginTick
<1>3. submitted \in Nat /\ clock.held = 0
  BY <1>1, OwedIs DEF IInv, Actor
<1>4. clock' \in Clocks /\ clock'.at = "dispatch" /\ clock'.held = submitted
  BY <1>1, <1>3, Facts DEF Clocks
<1>5. AtActor' = AtActor /\ Answered' = Answered /\ Recorded' = Recorded
  BY <1>1, <1>3, <1>4 DEF AtActor, Answered, Recorded
<1>6. Known' = Known /\ Busy' = Busy /\ Hand' = Hand
  BY <1>1, <1>5 DEF Known, Busy, Hand
<1>7. World(co, Busy)'
  BY <1>1, <1>5, <1>6 DEF IInv, Good, World, InPlay
<1>8. Good(co', Busy', Hand')
  BY <1>1, <1>6 DEF IInv
<1>9. Good(co, Busy, Hand)'
  BY <1>7, <1>8, WorldFrame
<1>10. Actor'
  BY <1>1, <1>3, <1>4, <1>5 DEF IInv, Actor
<1>11. Loop' /\ Ending' /\ Typed'
  BY <1>1, <1>3, <1>4 DEF IInv, Typed, Loop, InTransition, Consumed, Submitting, Ending, Finishing
<1>12. Left'
  BY <1>1, <1>5, LeftFrame DEF IInv
<1> QED
  BY <1>1, <1>9, <1>10, <1>11, <1>12, NoTurn, Facts DEF IInv

(* What holds of the actor's receipts is about the receipts as a set.       *)
LEMMA ReceiptsFrame ==
  ASSUME \A r \in ToSet(receipts') :
           IF r.status \in Commits THEN r.turn \in won' ELSE r.turn \notin won' \ failed'
  PROVE  \A i \in DOMAIN receipts' :
           IF receipts'[i].status \in Commits THEN receipts'[i].turn \in won'
                                              ELSE receipts'[i].turn \notin won' \ failed'
BY DEF ToSet

LEMMA CloseActorStep ==
  ASSUME IInv, CloseActor
  PROVE  IInv' /\ Admitted
<1> DEFINE S == (owed \cup {submitted}) \ {0}
           q == AnswerAll(S, "failed")
<1>1. /\ clock.at = "done" \/ (clock.at = "idle" /\ clock.stop)
      /\ receipts' = receipts \o q
      /\ submitted' = 0 /\ owed' = {} /\ failed' = failed \cup owed
      /\ clock' = [clock EXCEPT !.at = IF @ = "idle" THEN "stopped" ELSE @]
      /\ UNCHANGED <<co, main, worker, tick, transitions, won>>
  BY DEF CloseActor
<1>2. IsFiniteSet(S) /\ S \in SUBSET Nat /\ "failed" \in Answers
  BY OwedIs DEF Answers
<1>3. S = owed \cup ({submitted} \ {0})
  <2>1. 0 \notin owed
    <3>1. Known \subseteq DOMAIN co.turns /\ 0 \notin DOMAIN co.turns
      BY SMTT(30), Facts DEF IInv, Good, World, Records
    <3> QED
      BY <3>1 DEF Known
  <2> QED
    BY <2>1
<1> HIDE DEF S
<1>4. /\ q \in Seq(Receipt)
      /\ \A r \in ToSet(q) : r.turn \in S /\ r.status = "failed"
      /\ \A t \in S : \E r \in ToSet(q) : r.turn = t
  BY <1>2, AnsweredIs
<1> HIDE DEF q
<1>5. receipts' \in Seq(Receipt) /\ ToSet(receipts') = ToSet(receipts) \cup ToSet(q)
  BY <1>1, <1>4, AddedIs, Facts
<1>6. Answered = {r.turn : r \in ToSet(receipts)} /\ Answered' = {r.turn : r \in ToSet(receipts')}
  BY DEF Answered, ToSet
<1>7. Answered' = Answered \cup S
  BY <1>4, <1>5, <1>6
<1>8. clock.held = 0 /\ Actor
  BY <1>1 DEF IInv, Actor
<1>9. /\ clock' \in Clocks /\ clock'.held = 0 /\ clock'.stop = clock.stop
      /\ clock.at = "done" => clock'.at = "done"
      /\ clock.at = "idle" => clock'.at = "stopped"
  BY <1>1, <1>8, Facts DEF Clocks
<1>10. AtActor = {submitted} \ {0} /\ AtActor' = {} /\ Recorded' = Recorded
  BY <1>1, <1>8, <1>9 DEF AtActor, Recorded
<1>11. Known' = Known /\ Busy' = Busy /\ Hand' = Hand /\ InPlay(co, Busy)' = InPlay(co, Busy)
  <2>1. Known' = Known
    BY <1>1, <1>3, <1>7, <1>10 DEF Known
  <2> QED
    BY <1>1, <2>1 DEF Busy, Hand, InPlay
<1>12. AtActor \cup owed \cup Answered \subseteq AtActor' \cup owed' \cup Answered'
  BY <1>3, <1>7, <1>10
<1>13. World(co, Busy)'
  <2>1. World(co, Busy)
    BY DEF IInv, Good
  <2> QED
    BY <1>1, <1>10, <1>11, <1>12, <2>1 DEF World
<1>14. Good(co, Busy, Hand)'
  <2>1. Good(co', Busy', Hand')
    BY <1>1, <1>11 DEF IInv
  <2> QED
    BY <1>13, <2>1, WorldFrame
<1>15. Actor'
  <2>1. \A r \in ToSet(receipts') :
          IF r.status \in Commits THEN r.turn \in won' ELSE r.turn \notin won' \ failed'
    <3> SUFFICES ASSUME NEW r \in ToSet(receipts')
                 PROVE  IF r.status \in Commits THEN r.turn \in won'
                                                ELSE r.turn \notin won' \ failed'
      OBVIOUS
    <3>1. CASE r \in ToSet(receipts)
      BY <1>1, <1>8, <3>1, ReceiptsAre
    <3>2. CASE r \in ToSet(q)
      <4>1. r.turn \in S /\ r.status \notin Commits
        BY <1>4, <3>2 DEF Commits
      <4>2. r.turn \in owed \/ r.turn \notin won
        BY <1>3, <1>8, <1>10, <4>1 DEF Actor
      <4> QED
        BY <1>1, <4>1, <4>2
    <3> QED
      BY <1>5, <3>1, <3>2
  <2>2. \A i \in DOMAIN receipts' :
           IF receipts'[i].status \in Commits THEN receipts'[i].turn \in won'
                                              ELSE receipts'[i].turn \notin won' \ failed'
    BY <2>1, ReceiptsFrame
  <2>3. \A i \in DOMAIN transitions' :
           transitions'[i].turn # 0 => (transitions'[i].wins <=> transitions'[i].turn \in won')
    BY <1>1, <1>8 DEF Actor
  <2>4. clock.at = "done" \/ (clock.at = "idle" /\ clock.stop)
    BY <1>1
  <2> QED
    BY <1>1, <1>9, <1>10, <2>2, <2>3, <2>4 DEF Actor
<1>16. Loop' /\ Typed'
  BY <1>1, <1>5, <1>9 DEF IInv, Typed, Loop, InTransition, Consumed, Submitting
<1>17. Ending'
  BY <1>1, <1>9 DEF IInv, Finishing, Submitting, Ending
<1>18. Left'
  BY <1>1, <1>7, <1>10, LeftFrame DEF IInv
<1> QED
  BY <1>1, <1>14, <1>15, <1>16, <1>17, <1>18, NoTurn, Facts DEF IInv

(* A transition decides the action that the clock holds, and may settle the *)
(* outcomes of delayed tools.                                               *)
LEMMA EndTickStep ==
  ASSUME IInv, EndTick
  PROVE  IInv' /\ Admitted
<1> DEFINE h == clock.held
<1>1. clock.at = "dispatch" /\ UNCHANGED <<co, main, worker, submitted>> /\ tick < MaxTicks
  BY DEF EndTick, IInv, Actor
<1>2. PICK verdict \in IF h = 0 THEN {"none"} ELSE Verdicts,
           news \in {n \in News : Realized + Cardinality(n) <= MaxNews},
           review \in {None} \cup {tick + 1 + r : r \in Reviews},
           ends \in BOOLEAN, settled \in SUBSET owed, fails \in BOOLEAN :
       /\ review # None => verdict = "applied"
       /\ settled = {} => ~fails
       /\ tick' = tick + 1
       /\ transitions' = Append(transitions,
            [turn |-> IF verdict \in {"none", "stale"} THEN 0 ELSE h,
             wins |-> verdict \in Wins, news |-> news, review |-> review, ends |-> ends])
       /\ won' = IF verdict \in Wins THEN won \cup {h} ELSE won
       /\ failed' = IF fails THEN failed \cup settled ELSE failed
       /\ receipts' = receipts \o AnswerAll(settled, IF fails THEN "failed" ELSE "applied")
                      \o (IF verdict \in {"none", "deferred"} THEN <<>>
                          ELSE <<Answer(h, verdict)>>)
       /\ owed' = (owed \ settled) \cup (IF verdict = "deferred" THEN {h} ELSE {})
       /\ clock' = [clock EXCEPT !.at = IF ends THEN "done" ELSE "idle", !.held = 0]
  BY ZenonT(30) DEF EndTick
<1>3. /\ h = 0 => verdict = "none"
      /\ h # 0 => verdict \in {"applied", "deferred", "no_effect", "rejected", "stale"}
  BY <1>2, CoordinatorAssumption
<1> DEFINE status == IF fails THEN "failed" ELSE "applied"
           q == AnswerAll(settled, status)
           last == IF verdict \in {"none", "deferred"} THEN <<>> ELSE <<Answer(h, verdict)>>
           decided == IF verdict \in {"none", "stale"} THEN 0 ELSE h
           new == [turn |-> decided, wins |-> verdict \in Wins, news |-> news,
                   review |-> review, ends |-> ends]
<1>4. h \in Nat /\ settled \in SUBSET Nat /\ IsFiniteSet(settled) /\ status \in Answers
  <2>1. 0 \notin owed
    <3>1. Known \subseteq DOMAIN co.turns /\ 0 \notin DOMAIN co.turns
      BY SMTT(30), Facts DEF IInv, Good, World, Records
    <3> QED
      BY <3>1 DEF Known
  <2>2. settled \in SUBSET ((owed \cup {submitted}) \ {0})
    BY <2>1
  <2> QED
    BY <2>2, OwedIs DEF Answers
<1> HIDE DEF status
<1>5. /\ q \in Seq(Receipt)
      /\ \A r \in ToSet(q) : r.turn \in settled /\ r.status = status
      /\ \A t \in settled : \E r \in ToSet(q) : r.turn = t
  BY <1>4, AnsweredIs
<1> HIDE DEF q
<1>6. /\ last \in Seq(Receipt)
      /\ \A r \in ToSet(last) : /\ r.turn = h /\ r.status = verdict /\ h # 0
                                /\ verdict \in {"applied", "no_effect", "rejected", "stale"}
      /\ h # 0 /\ verdict # "deferred" => \E r \in ToSet(last) : r.turn = h
  <2>1. CASE verdict \in {"none", "deferred"}
    BY <1>3, <2>1 DEF ToSet
  <2>2. CASE verdict \notin {"none", "deferred"}
    <3> DEFINE r == Answer(h, verdict)
    <3>1. h # 0 /\ verdict \in {"applied", "no_effect", "rejected", "stale"}
      BY <1>3, <2>2
    <3>2. r \in Receipt /\ r.turn = h /\ r.status = verdict
      BY <1>4, <3>1 DEF Answer, Receipt, Answers
    <3> HIDE DEF r
    <3>3. last = <<r>>
      BY <2>2 DEF r
    <3> HIDE DEF last
    <3>4. last \in Seq(Receipt) /\ ToSet(last) = {r}
      BY <3>2, <3>3 DEF ToSet
    <3> QED
      BY <3>1, <3>2, <3>4
  <2> QED
    BY <2>1, <2>2
<1> HIDE DEF last
<1>7. /\ receipts' \in Seq(Receipt)
      /\ ToSet(receipts') = ToSet(receipts) \cup ToSet(q) \cup ToSet(last)
  <2>1. receipts' = (receipts \o q) \o last
    BY <1>2 DEF q, last, status
  <2>2. receipts \o q \in Seq(Receipt) /\ ToSet(receipts \o q) = ToSet(receipts) \cup ToSet(q)
    BY <1>5, AddedIs, Facts
  <2> DEFINE p == receipts \o q
  <2>3. p \in Seq(Receipt) /\ ToSet(p) = ToSet(receipts) \cup ToSet(q) /\ receipts' = p \o last
    BY <2>1, <2>2
  <2> HIDE DEF p
  <2>4. last \in Seq(Receipt)
    BY <1>6
  <2>5. p \o last \in Seq(Receipt) /\ ToSet(p \o last) = ToSet(p) \cup ToSet(last)
    BY <2>3, <2>4, AddedIs
  <2> QED
    BY <2>3, <2>5
<1>8. Answered = {r.turn : r \in ToSet(receipts)} /\ Answered' = {r.turn : r \in ToSet(receipts')}
  BY DEF Answered, ToSet
<1>9. /\ Answered' \subseteq Answered \cup settled \cup ({h} \ {0})
      /\ Answered \cup settled \subseteq Answered'
      /\ h # 0 /\ verdict # "deferred" => h \in Answered'
  <2>1. Answered' \subseteq Answered \cup settled \cup ({h} \ {0})
    BY <1>5, <1>6, <1>7, <1>8
  <2>2. Answered \cup settled \subseteq Answered'
    BY <1>5, <1>7, <1>8
  <2>3. h # 0 /\ verdict # "deferred" => h \in Answered'
    BY <1>6, <1>7, <1>8
  <2> QED
    BY <2>1, <2>2, <2>3
<1>10. /\ clock' \in Clocks /\ clock'.held = 0 /\ clock'.stop = clock.stop
       /\ clock'.at \in {"done", "idle"}
  BY <1>2, Facts DEF Clocks
<1>11. new \in Transition
  <2>1. news \in SUBSET Alarms /\ review \in Nat
    BY SMTT(30), <1>2, CoordinatorAssumption, Facts DEF None
  <2>2. decided \in Nat /\ (verdict \in Wins) \in BOOLEAN
    BY <1>4
  <2> HIDE DEF decided
  <2> QED
    BY <2>1, <2>2 DEF Transition
<1>12. /\ transitions' \in Seq(Transition) /\ Len(transitions') = Len(transitions) + 1
       /\ DOMAIN transitions' = DOMAIN transitions \cup {Len(transitions) + 1}
       /\ \A i \in DOMAIN transitions : transitions'[i] = transitions[i]
       /\ transitions'[Len(transitions) + 1] = new
  <2>1. transitions' = Append(transitions, new)
    BY <1>2
  <2> HIDE DEF new
  <2> QED
    BY <1>11, <2>1, Facts
<1>13. new.turn = decided /\ (new.wins <=> verdict \in Wins)
  OBVIOUS
<1> HIDE DEF new
<1>14. Recorded' = Recorded \cup ({decided} \ {0})
  BY <1>12, <1>13 DEF Recorded
<1>15. /\ submitted = 0 \/ h = 0
       /\ AtActor = {submitted, h} \ {0} /\ AtActor' = {submitted} \ {0}
       /\ {decided} \ {0} \subseteq {h} \ {0}
  BY <1>1, <1>10 DEF IInv, Actor, AtActor
<1>16. /\ Actor /\ World(co, Busy)
       /\ h # 0 => h \notin won \cup owed \cup Answered \cup Recorded
  BY <1>15 DEF IInv, Actor, Good
<1>17. h # 0 => /\ h \in DOMAIN co.turns
                /\ h = main.abandoned \/ co.turns[h].held = "open"
  <2>1. ASSUME h # 0 PROVE h \in {co.awaiting, main.abandoned} /\ h \in Known
    BY <1>15, <1>16, <2>1 DEF World, Known
  <2>2. Known \subseteq DOMAIN co.turns
    BY <1>16 DEF World
  <2> QED
    BY <2>1, <2>2, Facts DEF Transaction
<1>18. /\ won \subseteq won' /\ won' \subseteq won \cup ({h} \ {0})
       /\ failed \subseteq failed' /\ failed' \subseteq failed \cup settled
       /\ fails => settled \subseteq failed'
       /\ verdict \in {"rejected", "stale"} => won' = won
       /\ verdict \in {"applied", "no_effect", "deferred"} => h \in won'
  <2>1. h = 0 => verdict \notin Wins
    BY <1>3 DEF Wins
  <2>2. /\ verdict \in {"rejected", "stale"} => verdict \notin Wins
        /\ verdict \in {"applied", "no_effect", "deferred"} => verdict \in Wins
    BY DEF Wins
  <2>3. /\ won' = IF verdict \in Wins THEN won \cup {h} ELSE won
        /\ failed' = IF fails THEN failed \cup settled ELSE failed
    BY <1>2
  <2> HIDE DEF h
  <2> QED
    BY <2>1, <2>2, <2>3
<1>19. /\ owed' \subseteq owed \cup ({h} \ {0}) /\ owed \subseteq owed' \cup settled
       /\ verdict = "deferred" => h \in owed'
       /\ owed' \subseteq won'
  <2>1. owed' = (owed \ settled) \cup (IF verdict = "deferred" THEN {h} ELSE {})
    BY <1>2
  <2>2. owed \subseteq won /\ (h = 0 => verdict # "deferred")
    BY <1>3, <1>16 DEF Actor
  <2> HIDE DEF h
  <2> QED
    BY <1>18, <2>1, <2>2
<1>20. settled \subseteq owed /\ settled \subseteq won
  BY <1>2, <1>16 DEF Actor
<1> HIDE DEF h, decided
<1>21. Known' \subseteq Known
  BY <1>9, <1>14, <1>15, <1>18, <1>19, <1>20 DEF Known
<1>22. /\ Busy' = Busy /\ Hand' = Hand /\ InPlay(co, Busy)' = InPlay(co, Busy)
       /\ AtActor' \subseteq AtActor
  BY <1>1, <1>15 DEF Busy, Hand, InPlay
<1>23. co.awaiting # 0 => co.awaiting \in AtActor' \cup owed' \cup Answered'
  <2>1. co.awaiting # 0 => co.awaiting \in AtActor \cup owed \cup Answered
    BY <1>16 DEF World
  <2>2. AtActor \subseteq AtActor' \cup owed' \cup Answered'
    BY <1>3, <1>9, <1>15, <1>19
  <2>3. owed \subseteq owed' \cup Answered' /\ Answered \subseteq Answered'
    BY <1>9, <1>19
  <2> QED
    BY <2>1, <2>2, <2>3
<1>24. ASSUME NEW t \in DOMAIN co.turns
       PROVE  /\ co.turns[t].held = "committed" => t \in won'
              /\ co.turns[t].held = "rolled_back" => t \notin won' \ failed' \/ t = main.abandoned
  <2>1. /\ co.turns[t].held = "committed" => t \in won
        /\ co.turns[t].held = "rolled_back" => t \notin won \ failed \/ t = main.abandoned
    BY <1>16 DEF World
  <2>2. co.turns[t].held = "rolled_back" => t \notin {h} \ {0} \/ t = main.abandoned
    BY <1>17
  <2> QED
    BY <1>18, <2>1, <2>2
<1>25. World(co, Busy)'
  <2>1. /\ Known \subseteq DOMAIN co.turns /\ InPlay(co, Busy) \cap Known = {}
        /\ AtActor \subseteq {co.awaiting, main.abandoned}
    BY <1>16 DEF World
  <2>2. Known' \subseteq DOMAIN co.turns /\ InPlay(co, Busy)' \cap Known' = {}
        /\ AtActor' \subseteq {co.awaiting, main.abandoned}
    BY <1>21, <1>22, <2>1
  <2> QED
    BY <1>1, <1>23, <1>24, <2>2 DEF World
<1>26. Good(co, Busy, Hand)'
  <2>1. Good(co', Busy', Hand')
    BY <1>1, <1>22 DEF IInv
  <2> QED
    BY <1>25, <2>1, WorldFrame
<1>27. \A r \in ToSet(receipts') :
         IF r.status \in Commits THEN r.turn \in won' ELSE r.turn \notin won' \ failed'
  <2> SUFFICES ASSUME NEW r \in ToSet(receipts')
               PROVE  IF r.status \in Commits THEN r.turn \in won'
                                              ELSE r.turn \notin won' \ failed'
    OBVIOUS
  <2>1. CASE r \in ToSet(receipts)
    <3>1. IF r.status \in Commits THEN r.turn \in won ELSE r.turn \notin won \ failed
      BY <1>16, <2>1, ReceiptsAre
    <3>2. r.turn \in Answered
      BY <1>8, <2>1
    <3>3. r.turn \notin {h} \ {0}
      BY <1>16, <3>2
    <3> QED
      BY <1>18, <3>1, <3>3
  <2>2. CASE r \in ToSet(q)
    <3>1. r.turn \in settled /\ r.status = status
      BY <1>5, <2>2
    <3>2. fails => r.turn \in failed'
      BY <1>18, <3>1
    <3>3. r.turn \in won'
      BY <1>18, <1>20, <3>1
    <3>4. ~fails => r.status \in Commits
      BY <3>1 DEF status, Commits
    <3> QED
      BY <3>2, <3>3, <3>4
  <2>3. CASE r \in ToSet(last)
    <3>1. /\ r.turn = h /\ r.status = verdict /\ h # 0
          /\ verdict \in {"applied", "no_effect", "rejected", "stale"}
      BY <1>6, <2>3
    <3>2. h \notin won
      BY <1>16, <3>1
    <3> QED
      BY <1>18, <3>1, <3>2 DEF Commits
  <2> QED
    BY <1>7, <2>1, <2>2, <2>3
<1>28. ASSUME NEW i \in DOMAIN transitions', transitions'[i].turn # 0
       PROVE  transitions'[i].wins <=> transitions'[i].turn \in won'
  <2>1. CASE i \in DOMAIN transitions
    <3>1. transitions'[i] = transitions[i]
      BY <1>12, <2>1
    <3>2. transitions[i].wins <=> transitions[i].turn \in won
      BY <1>16, <1>28, <2>1, <3>1 DEF Actor
    <3>3. transitions[i].turn \in Recorded
      BY <1>28, <2>1, <3>1 DEF Recorded
    <3>4. transitions[i].turn \notin {h} \ {0}
      BY <1>16, <3>3
    <3> QED
      BY <1>18, <3>1, <3>2, <3>4
  <2>2. CASE i = Len(transitions) + 1
    <3>1. transitions'[i].turn = decided /\ (transitions'[i].wins <=> verdict \in Wins)
      BY <1>12, <1>13, <2>2
    <3>2. decided = h /\ h # 0 /\ verdict # "stale" /\ verdict # "none"
      BY <1>28, <3>1 DEF decided
    <3>3. verdict \in {"applied", "deferred", "no_effect", "rejected"}
      BY <1>3, <3>2
    <3>4. h \notin won
      BY <1>16, <3>2
    <3> QED
      BY <1>18, <3>1, <3>2, <3>3, <3>4 DEF Wins
  <2> QED
    BY <1>12, <2>1, <2>2
<1>29. Actor'
  <2>1. \A i \in DOMAIN receipts' :
           IF receipts'[i].status \in Commits THEN receipts'[i].turn \in won'
                                              ELSE receipts'[i].turn \notin won' \ failed'
    BY <1>27, ReceiptsFrame
  <2>2. AtActor' \cap (won' \cup owed' \cup Answered' \cup Recorded') = {}
    <3>1. AtActor \cap (won \cup owed \cup Answered \cup Recorded) = {}
      BY <1>16 DEF Actor
    <3>2. AtActor' \cap ({h} \ {0}) = {}
      BY <1>15
    <3> QED
      BY <1>9, <1>14, <1>15, <1>18, <1>19, <1>20, <1>22, <3>1, <3>2
  <2>3. /\ submitted' = 0 \/ clock'.held = 0
        /\ clock'.at # "dispatch" => clock'.held = 0
        /\ clock'.at = "stopped" => clock'.stop
        /\ clock'.at # "dispatch"
    BY <1>10
  <2> QED
    BY <1>19, <1>28, <2>1, <2>2, <2>3 DEF Actor
<1>30. tick' \in 0..MaxTicks /\ tick' = tick + 1 /\ tick \in Nat
  BY SMTT(30), <1>1, <1>2, Facts, CoordinatorAssumption
<1>31. Loop'
  BY SMTT(30), <1>1, <1>12, <1>30, Facts DEF IInv, Loop, InTransition, Consumed, Submitting
<1>32. Typed'
  BY <1>1, <1>7, <1>10, <1>12, <1>30 DEF IInv, Typed
<1>33. Ending'
  BY <1>1 DEF IInv, Finishing, Submitting, Ending
<1>34. Left'
  BY <1>1, <1>9, <1>22, LeftFrame DEF IInv
<1> QED
  BY <1>1, <1>26, <1>29, <1>31, <1>32, <1>33, <1>34, NoTurn, Facts DEF IInv

(* A receipt that is drained settles its turn, if that is still to do.      *)
LEMMA DrainReceiptStep ==
  ASSUME IInv, DrainReceipt
  PROVE  IInv' /\ Admitted
<1> DEFINE r == Head(receipts)
<1>1. /\ main.at = "drain" /\ receipts # <<>> /\ receipts' = Tail(receipts)
      /\ UNCHANGED <<worker, clock, tick, transitions, submitted, owed, won, failed>>
  BY DEF DrainReceipt, At
<1>2. PICK back \in {"feedback", "dispatch"} :
         IF co.awaiting = r.turn
         THEN /\ co' = Settle(co, r.turn, r.status \in Commits)
              /\ main' = Flushes(back, "drain")
         ELSE co' = co /\ main' = [main EXCEPT !.at = back, !.then = "drain"]
  BY DEF DrainReceipt
<1>3. /\ r = receipts[1] /\ 1 \in DOMAIN receipts /\ r \in Receipt
      /\ receipts' \in Seq(Receipt)
      /\ \A i \in DOMAIN receipts' : i + 1 \in DOMAIN receipts /\ receipts'[i] = receipts[i + 1]
      /\ \A i \in DOMAIN receipts : i = 1 \/ (i - 1 \in DOMAIN receipts'
                                              /\ receipts[i] = receipts'[i - 1])
  <2>1. receipts \in Seq(Receipt)
    BY Facts
  <2> HIDE DEF r
  <2> QED
    BY <1>1, <2>1, TailIs DEF r
<1> DEFINE t == r.turn
           commit == r.status \in Commits
<1>4. /\ commit \in BOOLEAN /\ t \in Answered
      /\ (commit => t \in won) /\ (~commit => t \notin won \ failed)
  BY <1>3 DEF IInv, Actor, Answered
<1>5. /\ Good(co, Busy, Hand) /\ World(co, Busy) /\ Actor /\ co \in Records
  BY Facts DEF IInv, Good
<1>6. t \notin AtActor /\ t # 0
  <2>1. t \notin AtActor
    BY <1>4, <1>5 DEF Actor
  <2>2. t \in DOMAIN co.turns
    BY <1>4, <1>5 DEF World, Known
  <2> QED
    BY <1>5, <2>1, <2>2 DEF Records
<1>7. Answered' \subseteq Answered /\ Answered \subseteq Answered' \cup {t}
  BY <1>3 DEF Answered
<1> HIDE DEF r, t, commit
<1>8. /\ Good(co', Busy, Hand) /\ Len(co'.turns) = Len(co.turns)
      /\ (co'.accept <=> co.accept) /\ co'.pending = co.pending
      /\ co'.current \in {0, co.current}
      /\ co'.awaiting = 0 \/ (co'.awaiting = co.awaiting /\ co.awaiting # t)
      /\ main' \in Loops /\ main'.then = "drain"
      /\ \/ main'.at = "flush" /\ main'.back = back
         \/ main'.at = back
      /\ main'.seen = main.seen /\ main'.upto = main.upto /\ main'.event = main.event
      /\ main'.closing = main.closing /\ main'.abandoned = main.abandoned
  <2>1. CASE co.awaiting = t
    <3>1. co' = Settle(co, t, commit) /\ main' = Flushes(back, "drain")
      BY <1>2, <2>1 DEF t, commit
    <3>2. /\ Good(co', Busy, Hand) /\ Len(co'.turns) = Len(co.turns) /\ co'.awaiting = 0
          /\ (co'.accept <=> co.accept) /\ co'.pending = co.pending /\ co'.current = 0
      BY <1>4, <1>5, <1>6, <2>1, <3>1, SettleGood
    <3>3. /\ main' \in Loops /\ main'.at = "flush" /\ main'.back = back /\ main'.then = "drain"
          /\ main'.seen = main.seen /\ main'.upto = main.upto /\ main'.event = main.event
          /\ main'.closing = main.closing /\ main'.abandoned = main.abandoned
      BY <3>1, Facts, FlushesIs
    <3> QED
      BY <3>2, <3>3
  <2>2. CASE co.awaiting # t
    <3>1. co' = co /\ main' = [main EXCEPT !.at = back, !.then = "drain"]
      BY <1>2, <2>2 DEF t
    <3>2. /\ main' \in Loops /\ main'.then = "drain" /\ main'.at = back
          /\ main'.seen = main.seen /\ main'.upto = main.upto /\ main'.event = main.event
          /\ main'.closing = main.closing /\ main'.abandoned = main.abandoned
      BY <3>1, Facts DEF Loops, Stages
    <3> QED
      BY <1>5, <2>2, <3>1, <3>2
  <2> QED
    BY <2>1, <2>2
<1>9. /\ AtActor' = AtActor /\ Recorded' = Recorded /\ Known' \subseteq Known
      /\ Busy' = Busy /\ Hand' = Hand /\ InPlay(co', Busy') = InPlay(co', Busy)
  <2>1. AtActor' = AtActor /\ Recorded' = Recorded /\ Busy' = Busy /\ Hand' = Hand
    BY <1>1, <1>8 DEF AtActor, Recorded, Busy, Hand
  <2> QED
    BY <1>1, <1>7, <2>1 DEF Known
<1>10. World(co, Busy)'
  <2>1. World(co', Busy)
    BY <1>8 DEF Good
  <2>2. Known' \subseteq DOMAIN co'.turns
    BY <1>9, <2>1 DEF World
  <2>3. InPlay(co, Busy)' \cap Known' = {}
    <3>1. InPlay(co, Busy)' = InPlay(co', Busy)
      BY <1>9 DEF InPlay
    <3>2. InPlay(co', Busy) \cap Known = {}
      BY <2>1 DEF World
    <3> QED
      BY <1>9, <3>1, <3>2
  <2>4. AtActor' \subseteq {co'.awaiting, main'.abandoned}
    BY <1>8, <1>9, <2>1 DEF World
  <2>5. co'.awaiting # 0 => co'.awaiting \in AtActor' \cup owed' \cup Answered'
    <3>1. co.awaiting # 0 => co.awaiting \in AtActor \cup owed \cup Answered
      BY <1>5 DEF World
    <3> QED
      BY <1>1, <1>7, <1>8, <1>9, <3>1
  <2>6. \A u \in DOMAIN co'.turns :
          /\ co'.turns[u].held = "committed" => u \in won'
          /\ co'.turns[u].held = "rolled_back" => u \notin won' \ failed' \/ u = main'.abandoned
    BY <1>1, <1>8, <2>1 DEF World
  <2> QED
    BY <2>2, <2>3, <2>4, <2>5, <2>6 DEF World
<1>11. Good(co, Busy, Hand)'
  <2>1. Good(co', Busy', Hand')
    BY <1>8, <1>9
  <2> QED
    BY <1>10, <2>1, WorldFrame
<1>12. Actor'
  <2>1. \A i \in DOMAIN receipts' :
           IF receipts'[i].status \in Commits THEN receipts'[i].turn \in won'
                                              ELSE receipts'[i].turn \notin won' \ failed'
    BY <1>1, <1>3, <1>5 DEF Actor
  <2>2. AtActor' \cap (won' \cup owed' \cup Answered' \cup Recorded') = {}
    BY <1>1, <1>5, <1>7, <1>9 DEF Actor
  <2> QED
    BY <1>1, <1>5, <2>1, <2>2 DEF Actor
<1>13. Loop'
  BY <1>1, <1>8, Facts DEF IInv, Loop, InTransition, Consumed, Submitting
<1>14. Ending'
  BY <1>1, <1>8 DEF IInv, Ending, Finishing, Submitting
<1>15. Typed'
  BY <1>1, <1>3, <1>8 DEF IInv, Typed
<1>16. Left'
  BY <1>7, <1>8, <1>9 DEF IInv, Left
<1> QED
  BY <1>8, <1>11, <1>12, <1>13, <1>14, <1>15, <1>16, NoTurn, Facts DEF IInv

-----------------------------------------------------------------------------
(* What a transition realizes becomes events *)

OnlyFates(c, d) ==
  /\ Kept(c, d) /\ d.pending = c.pending
  /\ DOMAIN d.events = DOMAIN c.events /\ Len(d.events) = Len(c.events)

LEMMA MarkedGood ==
  ASSUME NEW c, NEW b, NEW X, Good(c, b, X), NEW S \in SUBSET X, NEW fate \in Fates \ {"open"},
         NEW d, d = Mark(c, S, fate)
  PROVE  Good(d, b, X \ S) /\ OnlyFates(c, d)
<1>1. c \in Records /\ X \cap c.pending = {}
  BY DEF Good, Events
<1> DEFINE m == Mark(c, S, fate)
<1>2. m \in Records /\ Kept(c, m) /\ m.pending = c.pending /\ DOMAIN m.events = DOMAIN c.events
  BY <1>1, MarkIs
<1>3. [m EXCEPT !.pending = c.pending] = m
  <2> HIDE DEF m
  <2> QED
    BY <1>2 DEF Records
<1>4. Good([m EXCEPT !.pending = c.pending], b, (X \cup (c.pending \ c.pending)) \ S)
  <2>1. /\ S \in SUBSET (c.pending \cup X) /\ c.pending \in SUBSET c.pending
        /\ c.pending \cap S = {}
    BY <1>1
  <2> HIDE DEF m
  <2> QED
    BY <2>1, MarkGood DEF m
<1>5. (X \cup (c.pending \ c.pending)) \ S = X \ S
  OBVIOUS
<1>6. Len(m.events) = Len(c.events)
  <2> HIDE DEF m
  <2>1. c.events \in Seq(Event) /\ m.events \in Seq(Event)
    BY <1>1, <1>2 DEF Records
  <2> QED
    BY <1>2, <2>1
<1> QED
  BY <1>2, <1>3, <1>4, <1>5, <1>6 DEF OnlyFates

LEMMA PlannedGood ==
  ASSUME NEW b, NEW X, Good(co, b, X), current \in Transition
  PROVE  /\ Good(Planned(co), b, X) /\ Kept(co, Planned(co))
         /\ Planned(co).events = co.events /\ Planned(co).pending = co.pending
<1> DEFINE d == [co EXCEPT !.plan = TRUE, !.review = current.review]
<1>1. co \in Records /\ current.review \in Nat
  BY DEF Good, Transition
<1>2. d \in Records /\ Kept(co, d) /\ d.events = co.events /\ d.pending = co.pending
  BY <1>1 DEF Records, Kept
<1> HIDE DEF d
<1>3. Planned(co) = d \/ Planned(co) = co
  BY DEF Planned, d
<1> QED
  BY <1>2, <1>3, SameGood DEF Kept

(* Each kind of news is a new open event. *)
LEMMA EmittedGood ==
  ASSUME main \in Loops, NEW c, NEW b, Good(c, b, {}), NEW kinds \in SUBSET Alarms,
         c.events = co.events
  PROVE  LET d == Emitted(c, kinds) IN
         /\ Good(d, b, News_(d)) /\ Kept(c, d) /\ d.pending = c.pending
         /\ Len(d.events) >= Len(c.events)
<1> DEFINE told == SetToSeq(kinds)
           new == [i \in DOMAIN told |->
                     [kind |-> told[i], deadline |-> Deadline(told[i]), fate |-> "open"]]
           d == Emitted(c, kinds)
           n == Len(c.events)
<1>1. c \in Records /\ Linked(c) /\ Events(c, {}) /\ c.events \in Seq(Event)
  BY DEF Good, Records
<1>2. told \in Seq(kinds) /\ \A i \in DOMAIN told : told[i] \in kinds
  <2>1. IsFiniteSet(Alarms)
    <3>1. IsFiniteSet({"alarm"}) /\ IsFiniteSet({"forecast"}) /\ IsFiniteSet({"warning"})
      BY FS_Singleton
    <3>2. IsFiniteSet({"alarm"} \cup {"forecast"})
      BY <3>1, FS_Union
    <3>3. IsFiniteSet(({"alarm"} \cup {"forecast"}) \cup {"warning"})
      BY <3>1, <3>2, FS_Union
    <3>4. ({"alarm"} \cup {"forecast"}) \cup {"warning"} = Alarms
      BY DEF Alarms
    <3> QED
      BY <3>3, <3>4
  <2>2. IsFiniteSet(kinds)
    BY <2>1, FS_Subset
  <2> QED
    BY <2>2, SetToSeqIs
<1> HIDE DEF told
<1>3. ASSUME NEW i \in DOMAIN told
      PROVE  new[i] \in Event /\ new[i].fate = "open"
  <2>1. told[i] \in Kinds
    BY <1>2 DEF Kinds
  <2>2. Deadline(told[i]) \in Nat
    <3>1. main.seen \in Nat
      BY DEF Loops
    <3> QED
      BY <3>1, CoordinatorAssumption DEF Deadline, None
  <2>3. new[i] = [kind |-> told[i], deadline |-> Deadline(told[i]), fate |-> "open"]
    OBVIOUS
  <2> HIDE DEF new
  <2> QED
    BY <2>1, <2>2, <2>3 DEF Event, Fates
<1>4. DOMAIN new = DOMAIN told /\ new \in Seq(Event)
  BY <1>2, <1>3
<1>5. d = [c EXCEPT !.events = c.events \o new]
  BY DEF Emitted, told
<1> HIDE DEF new, d
<1> DEFINE es == c.events \o new
<1>6. /\ es \in Seq(Event) /\ n \in Nat /\ DOMAIN c.events = 1..n
      /\ DOMAIN c.events \subseteq DOMAIN es
      /\ \A e \in DOMAIN c.events : es[e] = c.events[e]
      /\ \A e \in DOMAIN es : e \in Nat /\ (e > n => es[e].fate = "open")
      /\ \A e \in DOMAIN es : e > n \/ e \in DOMAIN c.events
      /\ Len(es) >= n
  <2>1. /\ es \in Seq(Event) /\ n \in Nat /\ DOMAIN c.events = 1..n
        /\ Len(new) \in Nat /\ DOMAIN new = 1..Len(new) /\ DOMAIN es = 1..(n + Len(new))
        /\ Len(es) = n + Len(new)
    BY <1>1, <1>4
  <2>2. \A e \in 1..(n + Len(new)) : es[e] = IF e <= n THEN c.events[e] ELSE new[e - n]
    BY <1>1, <1>4
  <2>3. ASSUME NEW e \in DOMAIN es, e > n PROVE es[e].fate = "open"
    <3>1. e - n \in DOMAIN new /\ ~ (e <= n)
      BY <2>1, <2>3
    <3>2. es[e] = new[e - n]
      BY <2>1, <2>2, <3>1
    <3> QED
      BY <1>3, <1>4, <3>1, <3>2
  <2> HIDE DEF es
  <2> QED
    BY <2>1, <2>2, <2>3
<1> HIDE DEF es
<1>7. /\ d \in Records /\ Kept(c, d) /\ d.pending = c.pending /\ d.events = es
  BY <1>1, <1>5, <1>6 DEF Records, Kept, es
<1>8. News_(d) = {e \in DOMAIN es : e > n}
  BY <1>7 DEF News_
<1>9. Events(d, News_(d))
  <2>1. News_(d) \cap d.pending = {}
    BY <1>1, <1>6, <1>7, <1>8 DEF Linked
  <2>2. \A e \in DOMAIN d.events : d.events[e].fate = "open" <=> e \in d.pending \cup News_(d)
    <3> SUFFICES ASSUME NEW e \in DOMAIN es
                 PROVE  es[e].fate = "open" <=> e \in c.pending \cup News_(d)
      BY <1>7
    <3>1. CASE e > n
      BY <1>6, <1>8, <3>1
    <3>2. CASE ~ (e > n)
      BY <1>1, <1>6, <1>8, <3>2 DEF Events
    <3> QED
      BY <3>1, <3>2
  <2>3. ASSUME d.current # 0
        PROVE  d.events[d.turns[d.current].event].fate = "delivered"
    <3>1. c.current # 0 /\ c.current \in DOMAIN c.turns
      BY <1>1, <1>7, <2>3 DEF Kept, Linked, Records
    <3> QED
      BY <1>1, <1>6, <1>7, <3>1 DEF Events, Kept, Linked
  <2> QED
    BY <1>7, <1>8, <2>1, <2>2, <2>3 DEF Events
<1>10. d.pending \subseteq DOMAIN d.events
  BY <1>1, <1>6, <1>7 DEF Linked
<1>11. Good(d, b, News_(d))
  BY <1>6, <1>7, <1>9, <1>10, EventsGood
<1> QED
  BY <1>6, <1>7, <1>11 DEF d

LEMMA ReviewedGood ==
  ASSUME co \in Records, NEW c, NEW b, NEW D \in SUBSET DOMAIN c.events,
         Good(c, b, News_(c) \ D), Len(c.events) >= Len(co.events)
  PROVE  LET d == Reviewed(c) IN
         /\ Good(d, b, News_(d) \ D) /\ Kept(c, d) /\ d.pending = c.pending
<1>1. CASE ~ (c.review <= main.seen + 1)
  BY <1>1 DEF Reviewed, Kept
<1>2. CASE c.review <= main.seen + 1
  <2> DEFINE X == News_(c) \ D
             new == NewEvent(c, "review", None)
             d == [new EXCEPT !.review = None]
             n == Len(c.events) + 1
  <2>1. Reviewed(c) = d
    BY <1>2 DEF Reviewed
  <2>2. None \in Nat /\ "review" \in Kinds
    BY CoordinatorAssumption DEF None, Kinds
  <2>3. /\ Good(new, b, X \cup {n}) /\ n \notin X
        /\ Kept(c, new) /\ Len(new.events) = n /\ new.pending = c.pending
    <3> HIDE DEF X
    <3> QED
      BY <2>2, NewEventGood DEF X
  <2> HIDE DEF new
  <2>4. /\ new \in Records /\ c \in Records
    BY <2>3 DEF Good
  <2>5. d \in Records /\ Kept(new, d) /\ d.events = new.events /\ d.pending = new.pending
    BY <2>2, <2>4 DEF Records, Kept
  <2> HIDE DEF d
  <2>6. Good(d, b, X \cup {n})
    BY <2>3, <2>5, SameGood
  <2>7. X \cup {n} = News_(d) \ D
    <3>1. /\ c.events \in Seq(Event) /\ new.events \in Seq(Event) /\ co.events \in Seq(Event)
      BY <2>4 DEF Records
    <3>2. /\ Len(c.events) \in Nat /\ Len(co.events) \in Nat /\ n \in Nat
          /\ DOMAIN c.events = 1..Len(c.events) /\ DOMAIN new.events = 1..n
      BY <2>3, <3>1
    <3>3. DOMAIN new.events = DOMAIN c.events \cup {n} /\ n \notin DOMAIN c.events
          /\ n > Len(co.events)
      BY <3>2
    <3>4. News_(d) = News_(c) \cup {n}
      BY <2>5, <3>3 DEF News_
    <3>5. n \notin D
      BY <3>3
    <3> HIDE DEF n
    <3> QED
      BY <3>4, <3>5
  <2> QED
    BY <2>1, <2>3, <2>5, <2>6, <2>7 DEF Kept
<1> QED
  BY <1>1, <1>2

(* The coordinator's record and the main loop after the events of a          *)
(* transition: nothing is in hand when the transition is the last one or     *)
(* none of them asks for the agent, and otherwise the most urgent one is.    *)
LEMMA EmittedIs ==
  ASSUME IInv, Emit
  PROVE  /\ Good(co', Busy, Hand') /\ Kept(co, co')
         /\ main' \in Loops /\ main'.upto = main.upto
         /\ main'.closing = main.closing /\ main'.abandoned = main.abandoned
         /\ \/ main'.at \in {"settle", "drain"} /\ main'.seen = main.seen + 1 /\ main'.event = 0
               /\ (main'.at = "settle" => main'.seen < main'.upto)
            \/ main'.at = "dispatch" /\ main'.then = "next" /\ main'.seen = main.seen
               /\ main'.event = 0
            \/ main'.at = "interrupt" /\ main'.then = "next" /\ main'.seen = main.seen
               /\ main'.event # 0
<1> DEFINE p == Planned(co)
           told == Emitted(p, current.news)
           D == Delegated(told)
           m == Mark(told, D, "delegated")
           c == Reviewed(m)
           candidates == News_(c) \ D
<1>1. /\ main.at = "emit"
      /\ IF current.ends
         THEN /\ co' = Mark(told, News_(told), "suppressed")
              /\ main' = NextTransition([main EXCEPT !.seen = @ + 1])
         ELSE IF candidates = {}
         THEN co' = c /\ main' = [main EXCEPT !.at = "dispatch", !.then = "next"]
         ELSE LET w == First(c, candidates) IN
                /\ co' = QueueLosers(EndPlan(c, w), candidates \ {w})
                /\ main' = [main EXCEPT !.at = "interrupt", !.event = w, !.then = "next"]
  BY DEF Emit, At
<1>2. /\ Good(co, Busy, {}) /\ co \in Records /\ main.event = 0 /\ main \in Loops
  <2>1. main.event = 0 /\ Hand = {}
    BY <1>1 DEF IInv, Loop, Hand
  <2> QED
    BY <2>1, Facts DEF IInv
<1>3. current \in Transition /\ current.news \in SUBSET Alarms
  <2>1. Len(transitions) > 0
    BY <1>1, Facts DEF IInv, Loop, InTransition, Consumed
  <2>2. current \in Transition
    BY <2>1, Facts DEF current
  <2> QED
    BY <2>2 DEF Transition
<1>4. /\ Good(p, Busy, {}) /\ Kept(co, p) /\ p.events = co.events /\ p.pending = co.pending
  BY <1>2, <1>3, PlannedGood
<1> HIDE DEF p
<1>5. /\ Good(told, Busy, News_(told)) /\ Kept(p, told) /\ told.pending = p.pending
      /\ Len(told.events) >= Len(p.events)
  BY <1>2, <1>3, <1>4, EmittedGood
<1> HIDE DEF told
<1>6. Len(told.events) >= Len(co.events)
  BY <1>4, <1>5
<1>7. CASE current.ends
  <2>1. /\ Good(co', Busy, {}) /\ Kept(told, co')
    <3>1. News_(told) \ News_(told) = {} /\ "suppressed" \in Fates \ {"open"}
      BY DEF Fates
    <3>2. Good(co', Busy, News_(told) \ News_(told)) /\ OnlyFates(told, co')
      <4>1. co' = Mark(told, News_(told), "suppressed")
        BY <1>1, <1>7
      <4> QED
        BY <1>5, <3>1, <4>1, MarkedGood
    <3> QED
      BY <3>1, <3>2 DEF OnlyFates
  <2> DEFINE k == main.seen + 1
             next == [main EXCEPT !.seen = k]
  <2>2. /\ next \in Loops /\ next.seen = k /\ next.upto = main.upto
        /\ next.event = main.event
        /\ next.closing = main.closing /\ next.abandoned = main.abandoned
    <3>1. k \in Nat
      BY Facts
    <3> HIDE DEF k
    <3> QED
      BY <1>2, <3>1 DEF Loops
  <2>3. main' = NextTransition(next)
    BY <1>1, <1>7
  <2> HIDE DEF next
  <2>4. /\ main' \in Loops /\ main'.at = (IF main'.seen < main.upto THEN "settle" ELSE "drain")
        /\ main'.seen = k /\ main'.upto = main.upto /\ main'.event = 0
        /\ main'.closing = main.closing /\ main'.abandoned = main.abandoned
    BY <1>2, <2>2, <2>3, NextIs
  <2>5. Hand' = {}
    BY <2>4 DEF Hand
  <2> QED
    BY <1>4, <1>5, <2>1, <2>4, <2>5 DEF Kept
<1>8. CASE ~current.ends
  <2>1. Good(m, Busy, News_(told) \ D) /\ OnlyFates(told, m)
    <3>1. D \in SUBSET News_(told) /\ "delegated" \in Fates \ {"open"}
      BY DEF Delegated, Fates
    <3>2. m = Mark(told, D, "delegated")
      OBVIOUS
    <3> HIDE DEF D, m
    <3> QED
      BY <1>5, <3>1, <3>2, MarkedGood
  <2>2. D \in SUBSET DOMAIN m.events /\ News_(m) = News_(told)
    BY <2>1 DEF Delegated, News_, OnlyFates
  <2> HIDE DEF D, m
  <2>3. Good(c, Busy, candidates) /\ Kept(m, c)
    BY <1>2, <1>6, <2>1, <2>2, ReviewedGood DEF OnlyFates
  <2>4. candidates \in SUBSET DOMAIN c.events
    BY DEF News_
  <2> HIDE DEF c, candidates
  <2>5. Kept(co, c) /\ c \in Records /\ Events(c, candidates) /\ Linked(c)
    BY <1>4, <1>5, <2>1, <2>3 DEF Kept, Good, OnlyFates
  <2>6. CASE candidates = {}
    <3>1. co' = c /\ main' = [main EXCEPT !.at = "dispatch", !.then = "next"]
      BY <1>1, <1>8, <2>6
    <3>2. /\ main' \in Loops /\ main'.at = "dispatch" /\ main'.then = "next"
          /\ main'.seen = main.seen /\ main'.upto = main.upto /\ main'.event = 0
          /\ main'.closing = main.closing /\ main'.abandoned = main.abandoned
      BY <1>2, <3>1 DEF Loops, Stages
    <3>3. Hand' = {}
      BY <3>2 DEF Hand
    <3> QED
      BY <2>3, <2>5, <2>6, <3>1, <3>2, <3>3
  <2>7. CASE candidates # {}
    <3> DEFINE w == First(c, candidates)
               e == EndPlan(c, w)
               losers == candidates \ {w}
    <3>1. /\ co' = QueueAll(e, losers)
          /\ main' = [main EXCEPT !.at = "interrupt", !.event = w, !.then = "next"]
      BY <1>1, <1>8, <2>7 DEF QueueLosers
    <3>2. w \in candidates
      BY <2>4, <2>5, <2>7, FirstIs
    <3> HIDE DEF w
    <3>3. w \in Nat /\ w # 0
      <4>1. w \in DOMAIN c.events
        BY <2>4, <3>2
      <4> QED
        BY <2>5, <4>1, EventIs
    <3>4. Good(e, Busy, candidates) /\ Kept(c, e) /\ e.events = c.events
      BY <2>3, EndPlanGood
    <3> HIDE DEF e
    <3>5. e.current # 0 => e.turns[e.current].event \notin losers
      <4>1. c.current # 0 => c.events[c.turns[c.current].event].fate = "delivered"
        BY <2>5 DEF Events
      <4>2. \A x \in candidates : c.events[x].fate = "open"
        BY <2>4, <2>5 DEF Events
      <4> QED
        BY <3>4, <4>1, <4>2 DEF Kept
    <3>6. losers \in SUBSET DOMAIN e.events /\ {w} = candidates \ losers
      BY <2>4, <3>2, <3>4
    <3>7. Good(QueueAll(e, losers), Busy, {w})
      <4> HIDE DEF losers
      <4> QED
        BY <3>4, <3>5, <3>6, QueueGood
    <3>8. Kept(e, QueueAll(e, losers))
      <4>1. e \in Records /\ Linked(e)
        BY <3>4 DEF Good
      <4> HIDE DEF losers
      <4> QED
        BY <3>6, <4>1, QueueAllIs
    <3>9. /\ main' \in Loops /\ main'.at = "interrupt" /\ main'.then = "next"
          /\ main'.seen = main.seen /\ main'.upto = main.upto /\ main'.event = w
          /\ main'.closing = main.closing /\ main'.abandoned = main.abandoned
      BY <1>2, <3>1, <3>3 DEF Loops, Stages
    <3>10. Hand' = {w}
      BY <3>3, <3>9 DEF Hand
    <3> QED
      BY <2>5, <3>1, <3>3, <3>4, <3>7, <3>8, <3>9, <3>10 DEF Kept
  <2> QED
    BY <2>6, <2>7
<1> QED
  BY <1>7, <1>8

LEMMA EmitStep ==
  ASSUME IInv, Emit
  PROVE  IInv' /\ Admitted
<1>1. /\ main.at = "emit" /\ transitions' = Tail(transitions)
      /\ UNCHANGED <<worker, clock, tick, submitted, owed, receipts, won, failed>>
  BY DEF Emit, At
<1>2. /\ World(co, Busy) /\ Actor /\ main.seen < main.upto /\ main.upto <= tick
      /\ Len(transitions) = tick - main.seen
  BY <1>1, Facts DEF IInv, Good, Loop, InTransition, Consumed
<1>3. /\ Len(transitions') = Len(transitions) - 1 /\ transitions' \in Seq(Transition)
      /\ \A i \in DOMAIN transitions' : i + 1 \in DOMAIN transitions
                                        /\ transitions'[i] = transitions[i + 1]
  <2>1. transitions \in Seq(Transition) /\ transitions # <<>>
    BY <1>2, Facts
  <2> QED
    BY <1>1, <2>1, TailIs
<1>4. /\ Good(co', Busy, Hand') /\ Kept(co, co')
      /\ main' \in Loops /\ main'.upto = main.upto
      /\ main'.closing = main.closing /\ main'.abandoned = main.abandoned
      /\ \/ main'.at \in {"settle", "drain"} /\ main'.seen = main.seen + 1 /\ main'.event = 0
            /\ (main'.at = "settle" => main'.seen < main'.upto)
         \/ main'.at = "dispatch" /\ main'.then = "next" /\ main'.seen = main.seen
            /\ main'.event = 0
         \/ main'.at = "interrupt" /\ main'.then = "next" /\ main'.seen = main.seen
            /\ main'.event # 0
  BY EmittedIs
<1>5. Recorded' \subseteq Recorded
  BY <1>3 DEF Recorded
<1>6. /\ AtActor' = AtActor /\ Answered' = Answered /\ Busy' = Busy
  BY <1>1 DEF AtActor, Answered, Busy
<1>7. Known' \subseteq Known
  BY <1>1, <1>5, <1>6 DEF Known
<1>8. World(co, Busy)'
  <2>1. World(co', Busy)
    BY <1>4 DEF Good
  <2>2. Known' \subseteq DOMAIN co'.turns
    BY <1>7, <2>1 DEF World
  <2>3. InPlay(co, Busy)' \cap Known' = {}
    <3>1. InPlay(co, Busy)' = InPlay(co', Busy)
      BY <1>6 DEF InPlay
    <3>2. InPlay(co', Busy) \cap Known = {}
      BY <2>1 DEF World
    <3> QED
      BY <1>7, <3>1, <3>2
  <2>4. /\ AtActor' \subseteq {co'.awaiting, main'.abandoned}
        /\ co'.awaiting # 0 => co'.awaiting \in AtActor' \cup owed' \cup Answered'
    BY <1>1, <1>4, <1>6, <2>1 DEF World
  <2>5. \A u \in DOMAIN co'.turns :
          /\ co'.turns[u].held = "committed" => u \in won'
          /\ co'.turns[u].held = "rolled_back" => u \notin won' \ failed' \/ u = main'.abandoned
    BY <1>1, <1>4, <2>1 DEF World
  <2> QED
    BY <2>2, <2>3, <2>4, <2>5 DEF World
<1>9. Good(co, Busy, Hand)'
  <2>1. Good(co', Busy', Hand')
    BY <1>4, <1>6
  <2> QED
    BY <1>8, <2>1, WorldFrame
<1>10. Actor'
  <2>1. \A i \in DOMAIN transitions' :
          transitions'[i].turn # 0 => (transitions'[i].wins <=> transitions'[i].turn \in won')
    BY <1>1, <1>2, <1>3 DEF Actor
  <2>2. AtActor' \cap (won' \cup owed' \cup Answered' \cup Recorded') = {}
    BY <1>1, <1>2, <1>5, <1>6 DEF Actor
  <2> QED
    BY <1>1, <1>2, <2>1, <2>2 DEF Actor
<1>11. Loop'
  <2>1. tick' = tick /\ main.seen \in Nat /\ main.upto \in Nat /\ tick \in Nat
    BY <1>1, Facts
  <2> QED
    BY SMTT(30), <1>2, <1>3, <1>4, <2>1 DEF Loop, InTransition, Consumed, Submitting
<1>12. Ending'
  BY <1>1, <1>4 DEF IInv, Ending, Finishing, Submitting, Kept
<1>13. Typed'
  BY <1>1, <1>3, <1>4 DEF IInv, Typed
<1>14. Len(co'.turns) = Len(co.turns) /\ co'.current = co.current
  BY <1>4 DEF Kept
<1>15. Left'
  BY <1>4, <1>6, LeftFrame DEF IInv, Kept
<1> QED
  BY <1>9, <1>10, <1>11, <1>12, <1>13, <1>14, <1>15, NoTurn, Facts DEF IInv

-----------------------------------------------------------------------------
(* Interrupted turns *)

(* An event that waits goes on waiting while one of another key is started. *)
LEMMA StartLeaves ==
  ASSUME NEW c \in Records, Linked(c), NEW e \in DOMAIN c.events, NEW f \in c.pending,
         f # e, ~SameKey(c, f, e)
  PROVE  LET d == Start(c, e) IN
         /\ f \in d.pending /\ d.events[f].deadline \in Nat
         /\ d.events[f].deadline <= c.events[f].deadline
<1> DEFINE q == QueueAll(c, {e})
<1>1. f \in DOMAIN c.events /\ c.events[f].deadline \in Nat
  BY EventIs DEF Linked
<1>2. f \in q.pending
  BY DEF QueueAll, Records
<1>3. /\ q \in Records /\ DOMAIN q.events = DOMAIN c.events
      /\ q.events[f].deadline <= c.events[f].deadline
  BY <1>1, QueueAllIs
<1> HIDE DEF q
<1>9. q.events[f].deadline \in Nat
  BY <1>1, <1>3, EventIs
<1>4. ASSUME NEW fate \in Fates
      PROVE  LET m == Mark(c, {e}, fate) IN
             /\ m \in Records /\ f \in m.pending
             /\ m.events[f].deadline = c.events[f].deadline
  BY <1>1, MarkIs
<1>5. Opened(c, e).pending = Mark(c, {e}, "delivered").pending
      /\ Opened(c, e).events = Mark(c, {e}, "delivered").events
  <2> DEFINE m == Mark(c, {e}, "delivered")
  <2>1. m \in Records
    BY <1>4 DEF Fates
  <2> HIDE DEF m
  <2>2. Opened(c, e) = [m EXCEPT
          !.turns = Append(@, [event |-> e, deadline |-> c.events[e].deadline,
                               status |-> "in_flight", held |-> "open"]),
          !.current = Len(c.turns) + 1,
          !.line = Append(@, Turn(Len(c.turns) + 1))]
    BY DEF Opened, m
  <2> QED
    BY <2>1, <2>2 DEF Records, m
<1>6. f \in Opened(c, e).pending /\ Opened(c, e).events[f].deadline = c.events[f].deadline
  BY <1>4, <1>5 DEF Fates
<1>7. \/ Start(c, e) = c \/ Start(c, e) = q \/ Start(c, e) = Opened(c, e)
      \/ Start(c, e) = Mark(c, {e}, "suppressed")
  BY DEF Start, Queue, q
<1>8. LET m == Mark(c, {e}, "suppressed") IN
      f \in m.pending /\ m.events[f].deadline = c.events[f].deadline
  BY SMTT(30), <1>4 DEF Fates
<1> QED
  BY <1>1, <1>2, <1>3, <1>6, <1>7, <1>8, <1>9

(* What is interrupted by something more urgent is pending again, unless it *)
(* is the start of the session.                                             *)
LEMMA SupersededWaits ==
  ASSUME NEW c, NEW b, NEW X, NEW e, e \notin X, Good(c, b, X \cup {e}), c.current # 0,
         NEW old, old = c.turns[c.current].event, c.events[old].kind # "start",
         ~ (Prio(c, e) <= Prio(c, old))
  PROVE  LET d == Supersede(c, e) IN
         old \in d.pending /\ d.events[old].deadline <= c.events[old].deadline
<1> DEFINE freed == [Canceled(c, c.current) EXCEPT !.current = 0]
           requeued == Queue(freed, old)
           flushed == Flush(requeued)
<1>1. /\ c \in Records /\ Events(c, X \cup {e}) /\ Linked(c) /\ c.current \in DOMAIN c.turns
  <2>1. c.current \in InPlay(c, b)
    BY DEF InPlay
  <2> QED
    BY <2>1, InPlayIs DEF Good
<1>2. /\ old \in DOMAIN c.events /\ c.events[old].fate = "delivered"
      /\ e \in DOMAIN c.events
  BY <1>1 DEF Linked, Events
<1>3. old \notin X \cup {e} /\ old \notin c.pending
  BY <1>1, <1>2 DEF Events
<1>4. /\ Good(freed, b, X \cup {e}) /\ freed.events = c.events /\ freed.pending = c.pending
      /\ freed.current = 0
  BY CanceledGood
<1> HIDE DEF freed
<1>5. Supersede(c, e) = Start(flushed, e)
  BY <1>3 DEF Supersede, freed
<1>6. freed \in Records /\ Linked(freed) /\ {old} \in SUBSET DOMAIN freed.events
  BY <1>2, <1>4 DEF Good
<1> DEFINE q == QueueAll(freed, {old})
<1>7. /\ q \in Records /\ Kept(freed, q) /\ DOMAIN q.events = DOMAIN c.events
      /\ \A f \in DOMAIN c.events : q.events[f].kind = c.events[f].kind
      /\ q.events[old].deadline <= c.events[old].deadline
  <2>1. /\ q \in Records /\ Kept(freed, q) /\ DOMAIN q.events = DOMAIN freed.events
        /\ \A f \in DOMAIN freed.events : q.events[f].kind = freed.events[f].kind
        /\ \A f \in DOMAIN freed.events : q.events[f].deadline <= freed.events[f].deadline
    BY <1>6, QueueAllIs
  <2> HIDE DEF q
  <2> QED
    BY SMTT(30), <1>2, <1>4, <2>1
<1>8. old \in q.pending
  BY <1>6 DEF QueueAll, Records
<1>9. Good(q, b, X \cup {e})
  <2> DEFINE Y == X \cup {e}
  <2>1. Y = Y \ {old}
    BY <1>3
  <2> HIDE DEF Y, q
  <2> QED
    BY <1>4, <1>6, <2>1, QueueGood DEF Y, q
<1>10. requeued = q
  BY DEF Queue
<1> HIDE DEF q, requeued
<1>11. /\ Good(flushed, b, X \cup {e}) /\ flushed.events = q.events
       /\ flushed.pending = q.pending
  BY <1>9, <1>10, FlushGood
<1> HIDE DEF flushed
<1>12. flushed \in Records /\ Linked(flushed)
  BY <1>11 DEF Good
<1>13. ~SameKey(flushed, old, e)
  <2>1. ASSUME SameKey(flushed, old, e) PROVE FALSE
    <3>1. c.events[old].kind = "alarm" /\ c.events[e].kind = "alarm"
      BY <1>2, <1>7, <1>11, <2>1 DEF SameKey
    <3>2. Prio(c, e) = Prio(c, old)
      BY SMTT(30), <3>1 DEF Prio
    <3> QED
      BY <1>1, <1>2, <3>2, PrioIs
  <2> QED
    BY <2>1
<1>14. /\ e \in DOMAIN flushed.events /\ old \in flushed.pending /\ old # e
       /\ c.events[old].deadline \in Nat /\ q.events[old].deadline \in Nat
  BY SMTT(30), <1>1, <1>2, <1>3, <1>7, <1>8, <1>11, EventIs
<1>15. LET d == Start(flushed, e) IN
       /\ old \in d.pending /\ d.events[old].deadline \in Nat
       /\ d.events[old].deadline <= q.events[old].deadline
  BY <1>11, <1>12, <1>13, <1>14, StartLeaves
<1> QED
  BY <1>5, <1>7, <1>14, <1>15

(* Only an interruption takes the turn in flight back while the coordinator *)
(* goes on accepting and the worker is not through with it.                 *)
LEMMA GivenBack ==
  ASSUME IInv, [Next]_vars, NEW t \in DOMAIN co.turns, co.turns[t].status = "in_flight",
         co'.turns[t].status = "superseded", co'.accept, UNCHANGED worker
  PROVE  LET e == co.turns[t].event IN
         \/ co.events[e].kind = "start"
         \/ e \in co'.pending /\ co'.events[e].deadline <= co.events[e].deadline
<1>1. /\ t = co.current /\ co.current # 0 /\ co.awaiting = 0 /\ co.accept /\ ~Free(co)
      /\ co \in Records /\ Good(co, Busy, Hand)
  BY SMTT(30), Facts DEF Transaction, Records, Free, IInv
<1>2. co'.turns # co.turns
  OBVIOUS
<1>3. CASE UNCHANGED vars
  BY <1>2, <1>3 DEF vars
<1>4. CASE ActorStep
  BY ZenonT(30), <1>2, <1>4 DEF ActorStep, BeginTick, EndTick, CloseActor
<1>5. CASE WorkerStep
  <2>1. worker \in Workers
    BY Facts
  <2>2. CASE Skip
    BY <1>1, <1>2, <2>2 DEF Skip, Records
  <2>3. CASE Reply
    BY <1>2, <2>3 DEF Reply
  <2>4. CASE Take \/ FinishTurn \/ IngestSettled \/ WorkerDispatches
    BY <2>1, <2>4 DEF Take, FinishTurn, IngestSettled, WorkerDispatches, Workers
  <2> QED
    BY <1>5, <2>2, <2>3, <2>4 DEF WorkerStep
<1>6. CASE MainStep
  <2>1. CASE Begin
    <3>1. co.turns = <<>>
      BY <2>1 DEF Begin, At, IInv, Ending
    <3> QED
      BY <3>1
  <2>2. CASE Read \/ StopActor \/ Join \/ Drained
    BY <1>2, <2>2 DEF Read, StopActor, Join, Drained
  <2>3. CASE Leave
    BY <1>1, <2>3 DEF Leave, InvalidateAll, Records
  <2>4. CASE SettleTransition
    BY <1>1, <1>2, <2>4 DEF SettleTransition
  <2>5. CASE IngestTransition
    BY <1>1, <1>2, <2>5 DEF IngestTransition, Records
  <2>6. CASE SubmitObservation \/ TrackObservation \/ EndFlush \/ CloseDriver
    BY <1>1, <1>2, <2>6 DEF SubmitObservation, TrackObservation, EndFlush, CloseDriver, Records
  <2>7. CASE Emit
    BY <1>2, <2>7, EmittedIs DEF Kept
  <2>8. CASE InterruptStep
    <3> DEFINE e == main.event
               old == co.turns[co.current].event
    <3>1. co' = Interrupt(co, e) /\ main.at = "interrupt"
      BY <2>8 DEF InterruptStep, At
    <3>2. Hand = {} \cup {e} /\ e \notin {}
      BY <3>1 DEF Hand, IInv, Loop
    <3>3. Good(co, Busy, {} \cup {e})
      BY <1>1, <3>2
    <3> HIDE DEF e
    <3>4. CASE Prio(co, e) <= Prio(co, old)
      <4>1. co' = Queue(co, e)
        <5>1. co.accept /\ co.current # 0
          BY <1>1
        <5> QED
          BY <3>1, <3>4, <5>1 DEF Interrupt
      <4> QED
        <5> DEFINE b == Busy
                   X == {}
        <5>1. Good(co, b, X \cup {e}) /\ e \notin X
          BY <3>2, <3>3
        <5> HIDE DEF b, X
        <5>2. Kept(co, Queue(co, e))
          BY <5>1, QueuedGood
        <5> QED
          BY <1>2, <4>1, <5>2 DEF Kept
    <3>5. CASE ~ (Prio(co, e) <= Prio(co, old))
      <4>1. co' = Supersede(co, e)
        BY <1>1, <3>1, <3>5 DEF Interrupt
      <4> HIDE DEF old
      <4>2. old = co.turns[co.current].event
        BY DEF old
      <4>3. ASSUME co.events[old].kind # "start"
            PROVE  old \in co'.pending /\ co'.events[old].deadline <= co.events[old].deadline
        BY ZenonT(30), <1>1, <3>2, <3>3, <3>5, <4>1, <4>2, <4>3, SupersededWaits
      <4> QED
        BY <1>1, <4>2, <4>3
    <3> QED
      BY <3>4, <3>5
  <2>9. CASE DispatchStep
    BY ZenonT(30), <1>1, <1>2, <2>9 DEF DispatchStep, Dispatch
  <2>10. CASE DrainReceipt
    <3> DEFINE r == Head(receipts)
    <3>1. \/ co' = co
          \/ co.awaiting = r.turn /\ co' = Settle(co, r.turn, r.status \in Commits)
      BY ZenonT(30), <2>10 DEF DrainReceipt
    <3> HIDE DEF r
    <3>2. co.awaiting = r.turn => Settle(co, r.turn, r.status \in Commits) = co
      BY <1>1 DEF Settle
    <3> QED
      BY <1>2, <3>1, <3>2
  <2>11. CASE Feedback
    <3> DEFINE c == NewEvent(co, "feedback", None)
    <3>1. co' = EndPlan(c, Len(c.events))
      BY <2>11 DEF Feedback
    <3>2. c \in Records /\ c.turns = co.turns
      <4>1. None \in Nat /\ "feedback" \in Kinds
        BY CoordinatorAssumption DEF None, Kinds
      <4> HIDE DEF c
      <4> QED
        <5> DEFINE b == Busy
        <5>1. Good(co, b, Hand) /\ c = NewEvent(co, "feedback", None)
          BY <1>1 DEF c
        <5> HIDE DEF b
        <5>2. Good(c, b, Hand \cup {Len(co.events) + 1}) /\ Kept(co, c)
          BY <4>1, <5>1, NewEventGood
        <5> QED
          BY <5>2 DEF Kept, Good
    <3> HIDE DEF c
    <3> QED
      BY <1>2, <3>1, <3>2 DEF EndPlan, Records
  <2>12. CASE Invalidate
    BY <1>1, <2>12 DEF Invalidate, InvalidateAll, Records
  <2>14. CASE Release
    BY <1>1, <1>2, <2>14 DEF Release
  <2>13. CASE Suppress
    <3> DEFINE m == Mark(co, co.pending, "suppressed")
    <3>1. co' = [m EXCEPT !.pending = {}]
      BY <2>13 DEF Suppress
    <3>2. m \in Records /\ m.turns = co.turns
      <4> HIDE DEF m
      <4> QED
        BY <1>1, MarkIs DEF m, Kept, Fates
    <3> HIDE DEF m
    <3> QED
      BY <1>2, <3>1, <3>2 DEF Records
  <2> QED
    BY <1>6, <2>1, <2>2, <2>3, <2>4, <2>5, <2>6, <2>7, <2>8, <2>9, <2>10, <2>11, <2>12, <2>13, <2>14
       DEF MainStep
<1> QED
  BY <1>3, <1>4, <1>5, <1>6 DEF Next

-----------------------------------------------------------------------------
(* Theorems *)

LEMMA Initial ==
  ASSUME Init
  PROVE  IInv
<1> DEFINE none == <<>>
           empty == {}
<1>1. /\ co = [events |-> none, pending |-> empty, turns |-> none, current |-> 0, awaiting |-> 0,
               deferred |-> none, ingesting |-> empty, flushing |-> FALSE, accept |-> TRUE,
               plan |-> FALSE, review |-> None, line |-> none]
      /\ main = [at |-> "begin", seen |-> 0, upto |-> 0, out |-> none, back |-> "loop",
                 then |-> "loop", event |-> 0, closing |-> FALSE, abandoned |-> 0]
      /\ worker = [at |-> "idle", job |-> Turn(0), result |-> "nothing"]
      /\ clock = [at |-> "idle", held |-> 0, stop |-> FALSE]
      /\ tick = 0 /\ transitions = <<>> /\ submitted = 0 /\ owed = {} /\ receipts = <<>>
      /\ won = {} /\ failed = {}
  BY DEF Init
<1>2. /\ none \in Seq(Event) /\ none \in Seq(TurnRecord) /\ none \in Seq(Nat)
      /\ none \in Seq(Work) /\ DOMAIN none = {} /\ Len(none) = 0
      /\ empty \in SUBSET Nat /\ None \in Nat
  BY CoordinatorAssumption DEF None
<1>3. none = <<>> /\ empty = {}
  OBVIOUS
<1> HIDE DEF none, empty
<1>4. /\ co \in Records /\ co.events = none /\ co.turns = none /\ co.line = none
      /\ co.pending = empty /\ co.current = 0 /\ co.awaiting = 0 /\ co.accept
  BY <1>1, <1>2 DEF Records
<1>5. /\ main \in Loops /\ main.at = "begin" /\ main.seen = 0 /\ main.upto = 0 /\ main.event = 0
      /\ ~main.closing /\ main.abandoned = 0
  BY <1>1, <1>2 DEF Loops, Stages
<1>6. worker \in Workers /\ worker.at = "idle"
  <2>1. Turn(0) \in Work
    BY DEF Turn, Work
  <2> QED
    BY <1>1, <2>1 DEF Workers
<1>7. clock \in Clocks /\ clock.at = "idle" /\ clock.held = 0
  BY <1>1 DEF Clocks
<1>8. tick \in 0..MaxTicks /\ transitions \in Seq(Transition) /\ receipts \in Seq(Receipt)
  BY <1>1, CoordinatorAssumption
<1>9. Busy = 0 /\ Hand = {} /\ AtActor = {} /\ Answered = {} /\ Recorded = {} /\ Known = {}
  BY <1>1, <1>5, <1>6, <1>7 DEF Busy, Hand, AtActor, Answered, Recorded, Known
<1>10. Good(co, Busy, Hand)
  <2>1. Linked(co)
    BY <1>2, <1>3, <1>4 DEF Linked
  <2>2. Transaction(co) /\ InLine(co, 0)
    BY <1>2, <1>4 DEF Transaction, InLine
  <2>3. World(co, 0)
    BY <1>2, <1>4, <1>9 DEF World, InPlay
  <2>4. Events(co, {})
    BY <1>2, <1>3, <1>4 DEF Events
  <2> QED
    BY <1>4, <1>9, <2>1, <2>2, <2>3, <2>4 DEF Good
<1>11. Actor
  BY <1>1, <1>7, <1>9 DEF Actor
<1>12. Loop
  BY <1>1, <1>5, <1>8 DEF Loop, InTransition, Consumed, Submitting
<1>13. Ending
  BY <1>1, <1>3, <1>4, <1>5, <1>6 DEF Ending, Finishing, Submitting
<1>14. Left
  BY <1>5 DEF Left
<1> QED
  BY <1>5, <1>6, <1>7, <1>8, <1>10, <1>11, <1>12, <1>13, <1>14 DEF IInv, Typed

LEMMA Consecution ==
  ASSUME IInv, [Next]_vars
  PROVE  IInv' /\ (UNCHANGED vars \/ Admitted)
<1>1. CASE UNCHANGED vars
  <2>1. UNCHANGED <<co, main, worker, actor>>
    BY <1>1 DEF vars
  <2>2. Good(co', Busy, Hand')
    BY <2>1 DEF IInv, Hand
  <2>3. main' \in Loops /\ main' = main /\ co' = co
    BY <2>1, Facts
  <2>4. Loop' /\ Ending'
    BY <2>1 DEF IInv, Loop, InTransition, Consumed, Submitting, Ending, Finishing, actor
  <2> QED
    BY <1>1, <2>1, <2>2, <2>3, <2>4, MainFrame
<1>2. CASE MainStep
  BY <1>2, BeginStep, ReadStep, LeaveStep, StopActorStep, JoinStep, SettleTransitionStep,
     ReleaseStep,
     IngestTransitionStep, SubmitObservationStep, TrackObservationStep, EndFlushStep, EmitStep,
     InterruptStepStep, DispatchStepStep, DrainReceiptStep, FeedbackStep, DrainedStep,
     InvalidateStep, SuppressStep, CloseDriverStep DEF MainStep
<1>3. CASE WorkerStep
  BY <1>3, TakeStep, SkipStep, ReplyStep, FinishTurnStep, IngestSettledStep,
     WorkerDispatchesStep DEF WorkerStep
<1>4. CASE ActorStep
  BY <1>4, BeginTickStep, EndTickStep, CloseActorStep DEF ActorStep
<1> QED
  BY <1>1, <1>2, <1>3, <1>4 DEF Next

(* However main loop, callbacks and clock interleave, the records are well   *)
(* formed, and the threads are where what the records promise lets them be. *)
THEOREM Invariance == Spec => []IInv
<1>1. Init => IInv
  BY Initial
<1>2. IInv /\ [Next]_vars => IInv'
  BY Consecution
<1> QED
  BY <1>1, <1>2, PTL DEF Spec

(* Every record, wherever a step of the three threads leaves it, has the     *)
(* shape the code gives it, and what it names is there.                     *)
THEOREM TypeCorrect == Spec => []TypeOK
<1>1. ASSUME IInv PROVE TypeOK
  <2>1. Typed /\ co \in Records /\ Linked(co) /\ World(co, Busy) /\ Actor
    BY <1>1 DEF IInv, Good
  <2>2. DOMAIN co.turns = 1..Len(co.turns) /\ Len(co.turns) \in Nat
    BY <2>1 DEF Records
  <2>3. owed \cup won \cup failed \cup AtActor \subseteq 0..Len(co.turns)
    BY <2>1, <2>2 DEF World, Known
  <2>4. {submitted, clock.held} \subseteq 0..Len(co.turns)
    BY <2>2, <2>3 DEF AtActor
  <2> QED
    BY <2>1, <2>3, <2>4 DEF TypeOK, Typed
<1> QED
  BY <1>1, Invariance, PTL

(* One behavioural transaction is open at a time, and `current` and          *)
(* `awaiting` name it, however the main loop, the worker's callbacks and the *)
(* clock interleave.                                                        *)
THEOREM OneTransactionHolds == Spec => []OneTransaction
<1>1. ASSUME IInv PROVE OneTransaction
  <2>1. co \in Records /\ Linked(co) /\ Transaction(co)
    BY <1>1 DEF IInv, Good
  <2>2. {co.current, co.awaiting} \ {0} \subseteq DOMAIN co.turns
    BY <2>1 DEF Linked, Records
  <2>3. Unsettled = {co.current, co.awaiting} \ {0}
    <3>1. 0 \notin DOMAIN co.turns
      BY <2>1 DEF Records
    <3> QED
      BY <2>1, <2>2, <3>1 DEF Unsettled, Transaction
  <2>4. Cardinality(Unsettled) <= 1
    <3>1. Unsettled = {} \/ Unsettled = {co.current} \/ Unsettled = {co.awaiting}
      BY <2>1, <2>3 DEF Transaction
    <3>2. Cardinality(Unsettled) \in {0, 1}
      BY <3>1, FS_EmptySet, FS_Singleton
    <3> QED
      BY <3>2
  <2> QED
    BY <2>3, <2>4 DEF OneTransaction
<1> QED
  BY <1>1, Invariance, PTL

(* What the agent keeps of a turn, the world took, and what the world took   *)
(* and did not fail, the agent never loses, but for the one turn that stop  *)
(* left with an actor it gave up waiting for.  At the end of the episode     *)
(* nothing is undecided.                                                    *)
THEOREM MemoryFollows == Spec => []MemoryFollowsWorld
<1>1. ASSUME IInv PROVE MemoryFollowsWorld
  <2>1. /\ co \in Records /\ Transaction(co) /\ World(co, Busy) /\ Ending
    BY <1>1 DEF IInv, Good
  <2>2. ASSUME At("ended"), NEW t \in DOMAIN co.turns PROVE co.turns[t].held # "open"
    <3>1. co.awaiting = 0 /\ main.closing
      BY <2>1, <2>2 DEF At, Ending, Finishing
    <3>2. co.current = 0
      BY <2>1, <3>1 DEF Ending, Transaction
    <3>3. t # 0
      BY <2>1 DEF Records
    <3> QED
      BY <2>1, <3>1, <3>2, <3>3 DEF Transaction
  <2> QED
    BY <2>1, <2>2 DEF MemoryFollowsWorld, World
<1> QED
  BY <1>1, Invariance, PTL

(* An event that no turn got and no reason closed is pending or in the hands *)
(* of the main loop; at the end of the episode none is.                     *)
THEOREM EventsKept == Spec => []NoEventLost
<1>1. ASSUME IInv PROVE NoEventLost
  <2>1. co \in Records /\ Linked(co) /\ Events(co, Hand) /\ Ending
    BY <1>1 DEF IInv, Good
  <2>2. co.pending \cup Hand \subseteq DOMAIN co.events
    BY <2>1 DEF Linked, Events
  <2>3. {e \in DOMAIN co.events : co.events[e].fate = "open"} = co.pending \cup Hand
    BY <2>1, <2>2 DEF Events
  <2>4. At("ended") => co.pending = {}
    BY <2>1 DEF Ending, At
  <2> QED
    BY <2>3, <2>4 DEF NoEventLost, Hand
<1> QED
  BY <1>1, Invariance, PTL

(* A turn begins only between the clock's ticks of an actor that still runs. *)
THEOREM TurnsBetweenTicks == Spec => AdmittedBetweenTicks
<1>1. ASSUME IInv, [Next]_vars
      PROVE  [Len(co'.turns) > Len(co.turns) => clock.at = "idle" /\ ~clock.stop]_vars
  <2>1. UNCHANGED vars \/ Admitted
    BY <1>1, Consecution
  <2>2. Len(co.turns) \in Nat
    BY <1>1, Facts DEF Records
  <2> QED
    BY <2>1, <2>2 DEF Admitted, Stays, Opens
<1> QED
  BY <1>1, Invariance, PTL DEF Spec, AdmittedBetweenTicks

(* A turn that is interrupted gives its event back: it is pending again with *)
(* its own deadline or an earlier one, whatever interrupts it and whether    *)
(* what interrupts it is started or queued itself.                          *)
THEOREM InterruptedWait == Spec => InterruptedEventsWait
<1>1. ASSUME IInv, [Next]_vars
      PROVE  [\A t \in DOMAIN co.turns :
                (co.turns[t].status = "in_flight" /\ co'.turns[t].status = "superseded"
                  /\ co'.accept /\ UNCHANGED worker)
                => LET e == co.turns[t].event IN
                     \/ co.events[e].kind = "start"
                     \/ e \in co'.pending
                        /\ co'.events[e].deadline <= co.events[e].deadline]_vars
  BY <1>1, GivenBack
<1> QED
  BY <1>1, Invariance, PTL DEF Spec, InterruptedEventsWait

-----------------------------------------------------------------------------
(* The actor, as the coordinator sees it, implements ActionLifecycle.        *)

(* What the stages of the watched turns come to, as steps of the lifecycle. *)
LEMMA Unmoved ==
  ASSUME \A b \in Watched : Stage(b)' = Stage(b)
  PROVE  UNCHANGED [t \in Watched |-> Stage(t)]
OBVIOUS

LEMMA Submits ==
  ASSUME NEW a \in Watched, Stage(a) = "unknown", Stage(a)' \in {"queued", "closed"},
         \A b \in Watched \ {a} : Stage(b)' = Stage(b)
  PROVE  Lifecycle!Next
BY DEF Lifecycle!Next, Lifecycle!Submit

LEMMA Accepts ==
  ASSUME NEW a \in Watched, Stage(a) = "queued", Stage(a)' = "accepted",
         \A b \in Watched : Stage(b) # "accepted",
         \A b \in Watched \ {a} : Stage(b)' = Stage(b)
  PROVE  Lifecycle!Next
<1>1. Lifecycle!Accept(a, {})
  BY DEF Lifecycle!Accept, Lifecycle!Closing, Lifecycle!In
<1> QED
  BY <1>1 DEF Lifecycle!Next

LEMMA AnswersStep ==
  ASSUME NEW a \in Watched, Stage(a) = "accepted", NEW s \in {"pending", "closed"},
         Stage(a)' = s, NEW S \in SUBSET Watched, a \notin S,
         \A b \in S : Stage(b) \in {"queued", "pending"} /\ Stage(b)' = "closed",
         \A b \in Watched \ (S \cup {a}) : Stage(b)' = Stage(b)
  PROVE  Lifecycle!Next
<1>1. Lifecycle!Answer(a, s, S)
  BY DEF Lifecycle!Answer, Lifecycle!Closing, Lifecycle!In
<1> QED
  BY <1>1 DEF Lifecycle!Next

LEMMA Withdraws ==
  ASSUME NEW S \in SUBSET Watched,
         \A b \in S : Stage(b) \in {"queued", "pending"} /\ Stage(b)' = "closed",
         \A b \in Watched \ S : Stage(b)' = Stage(b)
  PROVE  Lifecycle!Next
<1>1. Lifecycle!Withdraw(S)
  BY DEF Lifecycle!Withdraw, Lifecycle!Closing, Lifecycle!In
<1> QED
  BY <1>1 DEF Lifecycle!Next

(* A turn the actor does not have is unknown to it while it is in flight,    *)
(* that is while it is the current one.                                     *)
StageOf(t, queued, held, waiting, c) ==
  IF t = queued THEN "queued"
  ELSE IF t = held THEN "accepted"
  ELSE IF t \in waiting THEN "pending"
  ELSE IF t \notin DOMAIN c.turns \/ t = c.current THEN "unknown"
  ELSE "closed"

LEMMA StageIs ==
  ASSUME IInv, NEW t
  PROVE  Stage(t) = StageOf(t, submitted, clock.held, owed, co)
<1>1. Transaction(co)
  BY Facts
<1> QED
  BY <1>1 DEF Transaction, Stage, StageOf

LEMMA StageWillBe ==
  ASSUME IInv', NEW t
  PROVE  Stage(t)' = StageOf(t, submitted', clock'.held, owed', co')
<1>1. Transaction(co)'
  BY DEF IInv, Good
<1> QED
  BY <1>1 DEF Transaction, Stage, StageOf

(* What the invariant says of the turns that the actor has.                 *)
LEMMA AtActorIs ==
  ASSUME IInv
  PROVE  /\ 0 \notin Watched /\ 0 \notin owed
         /\ DOMAIN co.turns = 1..Len(co.turns) /\ Len(co.turns) \in Nat
         /\ co.current \in 0..Len(co.turns)
         /\ {submitted, clock.held} \ {0} \subseteq DOMAIN co.turns
         /\ owed \subseteq DOMAIN co.turns
         /\ co.current # 0 => co.current \notin {submitted, clock.held} \cup owed
         /\ co.current # 0 => submitted = 0 /\ clock.held = 0
         /\ ({submitted, clock.held} \ {0}) \cap owed = {}
         /\ submitted = 0 \/ clock.held = 0
         /\ clock.at # "dispatch" => clock.held = 0
<1>1. /\ co \in Records /\ Linked(co) /\ Transaction(co) /\ World(co, Busy) /\ Actor
  BY DEF IInv, Good
<1>2. DOMAIN co.turns = 1..Len(co.turns) /\ Len(co.turns) \in Nat
  BY <1>1 DEF Records
<1>3. co.current \in 0..Len(co.turns)
  BY <1>1 DEF Linked
<1>4. AtActor \cup owed \subseteq DOMAIN co.turns
  BY <1>1 DEF World, Known
<1>5. co.current # 0 => co.current \notin AtActor \cup owed
  BY <1>1 DEF World, Known, InPlay
<1>6. co.current # 0 => AtActor = {}
  <2>1. co.current # 0 => AtActor \subseteq {0}
    BY <1>1 DEF IInv, World, Transaction, Ending, Left
  <2> QED
    BY <2>1 DEF AtActor
<1>7. AtActor \cap owed = {}
  BY <1>1 DEF Actor
<1>8. /\ submitted = 0 \/ clock.held = 0
      /\ clock.at # "dispatch" => clock.held = 0
  BY <1>1 DEF Actor
<1> QED
  BY SMTT(30), <1>2, <1>3, <1>4, <1>5, <1>6, <1>7, <1>8, WatchedAssumption DEF AtActor

(* A step that leaves the actor's turns alone: at most the current turn is   *)
(* closed without an action.                                                *)
LEMMA ActorLeftAlone ==
  ASSUME IInv, IInv', Admitted, submitted' = submitted, clock'.held = clock.held, owed' = owed
  PROVE  Lifecycle!Next \/ UNCHANGED [t \in Watched |-> Stage(t)]
<1>0. PICK u : u = co.current
  OBVIOUS
<1>1. /\ \A t \in Watched : Stage(t) = StageOf(t, submitted, clock.held, owed, co)
      /\ \A t \in Watched : Stage(t)' = StageOf(t, submitted, clock.held, owed, co')
  BY StageIs, StageWillBe
<1>2. /\ DOMAIN co.turns = 1..Len(co.turns) /\ Len(co.turns) \in Nat /\ 0 \notin Watched
      /\ u \in 0..Len(co.turns) /\ (u # 0 => u \notin {submitted, clock.held} \cup owed)
  BY <1>0, AtActorIs
<1>3. co' \in Records
  BY DEF IInv, Good
<1>4. DOMAIN co'.turns = 1..Len(co'.turns)
  BY <1>3 DEF Records
<1>5. ASSUME NEW t \in Watched, t # u PROVE Stage(t)' = Stage(t)
  <2>1. StageOf(t, submitted, clock.held, owed, co') = StageOf(t, submitted, clock.held, owed, co)
    <3>1. CASE Stays(co, co')
      BY <1>0, <1>2, <1>4, <1>5, <3>1 DEF Stays, StageOf
    <3>2. CASE Opens(co, co')
      BY <1>0, <1>2, <1>4, <1>5, <3>2 DEF Opens, StageOf
    <3> QED
      BY <3>1, <3>2 DEF Admitted
  <2> QED
    BY <1>1, <2>1
<1>6. CASE u \notin Watched
  BY <1>5, <1>6, Unmoved
<1>7. CASE u \in Watched
  <2>1. Stage(u) = "unknown" /\ u # 0
    BY <1>0, <1>1, <1>2, <1>7 DEF StageOf
  <2>2. Stage(u)' \in {"unknown", "closed"}
    <3>1. Stage(u)' = StageOf(u, submitted, clock.held, owed, co')
      BY <1>1, <1>7
    <3> QED
      BY <1>2, <2>1, <3>1 DEF StageOf
  <2>3. CASE Stage(u)' = "unknown"
    BY <1>5, <2>1, <2>3, Unmoved
  <2>4. CASE Stage(u)' = "closed"
    BY <1>5, <1>7, <2>1, <2>4, Submits
  <2> QED
    BY <2>2, <2>3, <2>4
<1> QED
  BY <1>6, <1>7

(* The worker's callback hands the action of the current turn to the actor,  *)
(* which then has no other.                                                 *)
LEMMA ActorGetsAction ==
  ASSUME IInv, IInv', Admitted, NEW t, t # 0, co.current = t, submitted' = t,
         clock' = clock, owed' = owed, main' = main
  PROVE  Lifecycle!Next \/ UNCHANGED [b \in Watched |-> Stage(b)]
<1>1. /\ \A b \in Watched : Stage(b) = StageOf(b, submitted, clock.held, owed, co)
      /\ \A b \in Watched : Stage(b)' = StageOf(b, t, clock.held, owed, co')
  BY StageIs, StageWillBe
<1>2. /\ submitted = 0 /\ clock.held = 0 /\ t \notin owed /\ 0 \notin Watched
      /\ DOMAIN co.turns = 1..Len(co.turns) /\ Len(co.turns) \in Nat
      /\ t \in 0..Len(co.turns)
  BY AtActorIs
<1>3. co'.current = 0 /\ co' \in Records
  <2>1. World(co, Busy)' /\ Transaction(co)' /\ co' \in Records
    BY DEF IInv, Good
  <2>2. t \in AtActor'
    BY DEF AtActor
  <2>3. co'.awaiting # 0
    <3>1. main'.abandoned = 0
      BY Facts DEF IInv, Transaction, Ending, Left
    <3> QED
      BY <2>1, <2>2, <3>1 DEF World
  <2> QED
    BY <2>1, <2>3 DEF Transaction
<1>4. DOMAIN co'.turns = DOMAIN co.turns
  <2>1. Len(co'.turns) = Len(co.turns)
    BY <1>2, <1>3 DEF Admitted, Stays, Opens
  <2>2. DOMAIN co'.turns = 1..Len(co'.turns)
    BY <1>3 DEF Records
  <2> QED
    BY <1>2, <2>1, <2>2
<1>5. \A b \in Watched \ {t} : Stage(b)' = Stage(b)
  BY <1>1, <1>2, <1>3, <1>4 DEF StageOf
<1>6. CASE t \notin Watched
  BY <1>5, <1>6, Unmoved
<1>7. CASE t \in Watched
  <2>1. Stage(t) = "unknown" /\ Stage(t)' = "queued"
    BY <1>1, <1>2, <1>7 DEF StageOf
  <2> QED
    BY <1>5, <1>7, <2>1, Submits
<1> QED
  BY <1>6, <1>7

LEMMA BeginTickMaps ==
  ASSUME IInv, IInv', BeginTick
  PROVE  Lifecycle!Next \/ UNCHANGED [b \in Watched |-> Stage(b)]
<1>1. /\ submitted' = 0 /\ clock'.held = submitted /\ co' = co /\ owed' = owed
      /\ clock.at = "idle"
  BY Facts DEF BeginTick, Clocks
<1>2. clock.held = 0 /\ 0 \notin Watched
  BY <1>1, AtActorIs
<1>3. /\ \A b \in Watched : Stage(b) = StageOf(b, submitted, 0, owed, co)
      /\ \A b \in Watched : Stage(b)' = StageOf(b, 0, submitted, owed, co)
  BY <1>1, <1>2, StageIs, StageWillBe
<1>4. \A b \in Watched \ {submitted} : Stage(b)' = Stage(b)
  BY <1>2, <1>3 DEF StageOf
<1>5. CASE submitted \notin Watched
  BY <1>4, <1>5, Unmoved
<1>6. CASE submitted \in Watched
  <2> DEFINE a == submitted
  <2>1. /\ Stage(a) = "queued" /\ \A b \in Watched : Stage(b) # "accepted"
    BY <1>2, <1>3, <1>6 DEF StageOf
  <2>2. ASSUME NEW b \in Watched, b = submitted PROVE Stage(b)' = "accepted"
    BY <1>2, <1>3, <2>2 DEF StageOf
  <2>3. PICK b \in Watched : b = submitted
    BY <1>6
  <2>4. Stage(b) = "queued" /\ Stage(b)' = "accepted"
    BY <2>1, <2>2, <2>3
  <2>5. \A d \in Watched \ {b} : Stage(d)' = Stage(d)
    BY <1>4, <2>3
  <2> QED
    BY <2>1, <2>4, <2>5, Accepts
<1> QED
  BY <1>5, <1>6

LEMMA EndTickMaps ==
  ASSUME IInv, IInv', EndTick
  PROVE  Lifecycle!Next \/ UNCHANGED [b \in Watched |-> Stage(b)]
<1>1. /\ clock'.held = 0 /\ submitted' = submitted /\ co' = co
      /\ \E settled \in SUBSET owed :
           \/ owed' = owed \ settled
           \/ owed' = (owed \ settled) \cup {clock.held} /\ clock.held # 0
  <2>1. PICK verdict \in IF clock.held = 0 THEN {"none"} ELSE Verdicts,
             news \in {n \in News : Realized + Cardinality(n) <= MaxNews},
             review \in {None} \cup {tick + 1 + r : r \in Reviews},
             ends \in BOOLEAN, settled \in SUBSET owed, fails \in BOOLEAN :
          /\ review # None => verdict = "applied"
          /\ settled = {} => ~fails
          /\ tick' = tick + 1
          /\ transitions' = Append(transitions,
               [turn |-> IF verdict \in {"none", "stale"} THEN 0 ELSE clock.held,
                wins |-> verdict \in Wins, news |-> news, review |-> review, ends |-> ends])
          /\ won' = IF verdict \in Wins THEN won \cup {clock.held} ELSE won
          /\ failed' = IF fails THEN failed \cup settled ELSE failed
          /\ receipts' = receipts \o AnswerAll(settled, IF fails THEN "failed" ELSE "applied")
                         \o (IF verdict \in {"none", "deferred"} THEN <<>>
                             ELSE <<Answer(clock.held, verdict)>>)
          /\ owed' = (owed \ settled) \cup (IF verdict = "deferred" THEN {clock.held} ELSE {})
          /\ clock' = [clock EXCEPT !.at = IF ends THEN "done" ELSE "idle", !.held = 0]
    BY ZenonT(30) DEF EndTick
  <2>2. submitted' = submitted /\ co' = co
    BY DEF EndTick
  <2>3. clock'.held = 0
    BY <2>1, Facts DEF Clocks
  <2>4. \/ owed' = owed \ settled
        \/ owed' = (owed \ settled) \cup {clock.held} /\ clock.held # 0
    BY <2>1
  <2> QED
    BY <2>2, <2>3, <2>4
<1>2. PICK settled \in SUBSET owed, h \in {clock.held} :
        /\ h = clock.held
        /\ owed' = owed \ settled \/ (owed' = (owed \ settled) \cup {h} /\ h # 0)
  BY <1>1
<1> DEFINE S == settled \cap Watched
<1>3. /\ 0 \notin Watched /\ 0 \notin owed /\ owed \subseteq DOMAIN co.turns
      /\ h # 0 => h \in DOMAIN co.turns /\ h \notin owed /\ h # co.current /\ submitted = 0
      /\ submitted \notin owed
      /\ \A b \in owed : b # co.current /\ b # submitted /\ b # h
  BY <1>2, AtActorIs
<1>4. /\ \A b \in Watched : Stage(b) = StageOf(b, submitted, h, owed, co)
      /\ \A b \in Watched : Stage(b)' = StageOf(b, submitted, 0, owed', co)
  BY <1>1, <1>2, StageIs, StageWillBe
<1>5. S \in SUBSET Watched /\ h \notin S
  BY <1>3
<1>6. \A b \in S : Stage(b) = "pending" /\ Stage(b)' = "closed"
  <2> TAKE b \in S
  <2>1. b \in Watched /\ b \in owed /\ b \notin owed' /\ b # 0 /\ b # h
    BY <1>1, <1>2, <1>3
  <2>2. b \in DOMAIN co.turns /\ b # co.current /\ b # submitted
    BY <1>3, <2>1
  <2> QED
    BY <1>4, <2>1, <2>2 DEF StageOf
<1>7. \A b \in Watched \ (S \cup {h}) : Stage(b)' = Stage(b)
  <2> TAKE b \in Watched \ (S \cup {h})
  <2>1. b # 0 /\ b # h /\ (b \in owed' <=> b \in owed)
    BY <1>1, <1>2, <1>3
  <2> QED
    BY <1>4, <2>1 DEF StageOf
<1>8. CASE h \notin Watched
  <2>1. \A b \in Watched \ S : Stage(b)' = Stage(b)
    BY <1>7, <1>8
  <2> HIDE DEF S
  <2> QED
    BY <1>5, <1>6, <2>1, Withdraws
<1>9. CASE h \in Watched
  <2>1. h # 0 /\ h # submitted
    BY <1>3, <1>9
  <2>2. Stage(h) = "accepted"
    BY <1>4, <1>9, <2>1 DEF StageOf
  <2>3. Stage(h)' = (IF h \in owed' THEN "pending" ELSE "closed")
    BY <1>3, <1>4, <1>9, <2>1 DEF StageOf
  <2>4. Stage(h)' \in {"pending", "closed"}
    BY <2>3
  <2> HIDE DEF S
  <2> QED
    BY <1>5, <1>6, <1>7, <1>9, <2>2, <2>4, AnswersStep
<1> QED
  BY <1>8, <1>9

LEMMA CloseActorMaps ==
  ASSUME IInv, IInv', CloseActor
  PROVE  Lifecycle!Next \/ UNCHANGED [b \in Watched |-> Stage(b)]
<1>1. /\ submitted' = 0 /\ owed' = {} /\ co' = co /\ clock.at \in {"done", "idle"}
      /\ clock'.held = clock.held
  BY Facts DEF CloseActor, Clocks
<1> DEFINE S == (owed \cup {submitted}) \cap Watched
<1>2. /\ 0 \notin Watched /\ owed \subseteq DOMAIN co.turns /\ clock.held = 0
      /\ submitted # 0 => submitted \in DOMAIN co.turns
      /\ co.current # 0 => co.current \notin owed \cup {submitted}
  BY <1>1, AtActorIs
<1>3. /\ \A b \in Watched : Stage(b) = StageOf(b, submitted, 0, owed, co)
      /\ \A b \in Watched : Stage(b)' = StageOf(b, 0, 0, {}, co)
  BY <1>1, <1>2, StageIs, StageWillBe
<1>4. \A b \in S : Stage(b) \in {"queued", "pending"} /\ Stage(b)' = "closed"
  <2> TAKE b \in S
  <2>1. b \in Watched /\ b # 0 /\ b \in DOMAIN co.turns /\ b # co.current
    BY <1>2
  <2> QED
    BY <1>3, <2>1 DEF StageOf
<1>5. \A b \in Watched \ S : Stage(b)' = Stage(b)
  BY <1>2, <1>3 DEF StageOf
<1> HIDE DEF S
<1>6. S \in SUBSET Watched
  BY DEF S
<1> QED
  BY <1>4, <1>5, <1>6, Withdraws

(* What the coordinator sees of the actor keeps the promise that the actor   *)
(* itself keeps: an action is queued once at most, and only by a turn that   *)
(* is still the current one, it is accepted alone, and once it is closed     *)
(* nothing more comes of it.                                                *)
THEOREM ActorKeepsLifecycle == Spec => ImplementsLifecycle
<1>1. ASSUME Init PROVE Lifecycle!Init
  <2>1. ASSUME NEW t \in Watched PROVE Stage(t) = "unknown"
    BY <1>1, <2>1, WatchedAssumption DEF Init, Stage
  <2> QED
    BY <2>1 DEF Lifecycle!Init
<1>2. ASSUME IInv, IInv', [Next]_vars
      PROVE  [Lifecycle!Next]_([t \in Watched |-> Stage(t)])
  <2>1. UNCHANGED vars \/ Admitted
    BY <1>2, Consecution
  <2>2. CASE UNCHANGED vars
    <3>1. \A b \in Watched : Stage(b)' = Stage(b)
      BY <2>2 DEF vars, actor, Stage
    <3> QED
      BY <3>1, Unmoved
  <2>3. CASE Admitted /\ BeginTick
    BY <1>2, <2>3, BeginTickMaps
  <2>4. CASE Admitted /\ EndTick
    BY <1>2, <2>4, EndTickMaps
  <2>5. CASE Admitted /\ CloseActor
    BY <1>2, <2>5, CloseActorMaps
  <2>6. CASE Admitted /\ StopActor
    <3>1. submitted' = submitted /\ clock'.held = clock.held /\ owed' = owed
      BY <1>2, <2>6, Facts DEF StopActor, Clocks
    <3> QED
      BY <1>2, <2>6, <3>1, ActorLeftAlone
  <2>7. CASE Admitted /\ FinishTurn
    <3> DEFINE t == worker.job.turn
    <3>1. \/ submitted' = submitted
          \/ co.current = t /\ submitted' = t
      BY <2>7 DEF FinishTurn, Late
    <3>2. t # 0 /\ clock' = clock /\ owed' = owed /\ main' = main
      BY <2>7 DEF FinishTurn
    <3> HIDE DEF t
    <3> QED
      BY <1>2, <2>7, <3>1, <3>2, ActorLeftAlone, ActorGetsAction
  <2>8. CASE Admitted /\ (Take \/ Skip \/ Reply \/ IngestSettled \/ WorkerDispatches)
    <3>1. UNCHANGED actor
      BY ZenonT(30), <2>8 DEF Take, Skip, Reply, IngestSettled, WorkerDispatches
    <3> QED
      BY <1>2, <2>8, <3>1, ActorLeftAlone DEF actor
  <2>9. CASE Admitted /\ MainStep /\ ~StopActor
    <3>1. submitted' = submitted /\ clock' = clock /\ owed' = owed
      BY ZenonT(30), <2>9 DEF MainStep, Begin, Read, Leave, Join, SettleTransition, IngestTransition,
         SubmitObservation, TrackObservation, EndFlush, Emit, InterruptStep, DispatchStep,
         DrainReceipt, Feedback, Drained, Invalidate, Suppress, CloseDriver, Release, actor
    <3> QED
      BY SMTT(30), <1>2, <2>9, <3>1, ActorLeftAlone
  <2> QED
    BY <1>2, <2>1, <2>2, <2>3, <2>4, <2>5, <2>6, <2>7, <2>8, <2>9
       DEF Next, WorkerStep, ActorStep
<1> QED
  BY <1>1, <1>2, Invariance, PTL DEF Spec, ImplementsLifecycle, Lifecycle!Spec
=============================================================================
