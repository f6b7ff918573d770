-------------------------- MODULE EpisodeCoordinator --------------------------
(***************************************************************************)
(* RealtimeEpisodeCoordinator (runner/realtime_episode.py): the thread that *)
(* runs an episode, between the environment actor, which advances the       *)
(* simulator on its own clock, and the worker of the turn driver, which     *)
(* asks the provider.                                                       *)
(*                                                                         *)
(* Everything the coordinator keeps is in the record `co`, which its lock   *)
(* protects: an action that holds the lock is one step here.  The main loop *)
(* does not hold the lock from one call to the next, so processing one      *)
(* transition takes several steps, between which the worker's callbacks     *)
(* run.  The actor is RealtimeActor, reduced to what the coordinator sees   *)
(* of it; the driver is TurnDriver, reduced to its line and its worker.     *)
(***************************************************************************)
EXTENDS Naturals, Sequences, FiniteSets, SequencesExt, FiniteSetsExt

CONSTANTS News,       \* sets of event kinds that one transition may realize
          Verdicts,   \* what a transition may do with the action it is given
          Reviews,    \* ticks after which a plan may ask to be reviewed
          MaxTicks,   \* bound: transitions of an episode
          MaxNews,    \* bound: realized events of an episode
          Window,     \* ticks an alarm leaves for the response
          Watched     \* the turns whose actions ImplementsLifecycle follows

Alarms == {"alarm", "forecast", "warning"}

ASSUME CoordinatorAssumption ==
  /\ News \subseteq SUBSET Alarms
  /\ Verdicts \subseteq {"applied", "deferred", "no_effect", "rejected", "stale"}
  /\ Reviews \subseteq Nat \ {0}
  /\ MaxTicks \in Nat /\ MaxNews \in Nat /\ Window \in Nat

ASSUME WatchedAssumption == Watched \subseteq Nat \ {0}

VARIABLES co,          \* the coordinator's records
          main,        \* the thread in run()
          worker,      \* the driver's pool thread
          clock,       \* what the actor's clock thread is doing
          tick,        \* transitions so far: the state version
          transitions, \* the transition records the coordinator has yet to process
          submitted,   \* the turn whose action the actor holds, or 0
          owed,        \* turns whose action waits for a delayed tool's outcome
          receipts,    \* the receipt queue
          won,         \* turns whose action won the arbitration of a transition ...
          failed       \* ... and those of them whose delayed outcome is a failure

actor == <<clock, tick, transitions, submitted, owed, receipts, won, failed>>
vars  == <<co, main, worker, actor>>

Kinds == {"start", "review", "feedback"} \cup Alarms

Priority == [start |-> 50, review |-> 50, forecast |-> 80, feedback |-> 90,
             alarm |-> 100, warning |-> 200]

Answers == {"applied", "no_effect", "rejected", "stale", "failed"}

Fates == {"open", "delivered", "merged", "expired", "suppressed", "delegated"}

None == MaxTicks + 1   \* no deadline, no scheduled review

Event == [kind: Kinds, deadline: Nat, fate: Fates]
TurnRecord == [event: Nat, deadline: Nat, held: {"open", "committed", "rolled_back"},
               status: {"in_flight", "superseded", "awaiting", "completed", "failed"}]
Work == [turn: Nat, seen: Nat]

Records == [events: Seq(Event), pending: SUBSET Nat, turns: Seq(TurnRecord),
            current: Nat, awaiting: Nat, deferred: Seq(Nat), ingesting: SUBSET Nat,
            flushing: BOOLEAN, accept: BOOLEAN, plan: BOOLEAN, review: Nat, line: Seq(Work)]

(* What is named in the records is there. *)
Linked(c) ==
  /\ c.pending \subseteq DOMAIN c.events
  /\ \A t \in DOMAIN c.turns : c.turns[t].event \in DOMAIN c.events
  /\ {c.current, c.awaiting} \subseteq 0..Len(c.turns)
  /\ \A i \in DOMAIN c.line : c.line[i].turn <= Len(c.turns)

Stages == {"begin", "loop", "settle", "flush", "ingest", "submit", "track", "emit",
           "interrupt", "dispatch", "drain", "feedback", "stop", "join", "invalidate",
           "suppress", "wait", "ended"}

Loops == [at: Stages, seen: Nat, upto: Nat, out: Seq(Nat), event: Nat, closing: BOOLEAN,
          back: {"loop", "ingest", "emit", "feedback", "dispatch", "suppress"},
          then: {"loop", "next", "drain"}, abandoned: Nat]
Workers == [at: {"idle", "run", "callback", "dispatch"}, job: Work,
            result: {"seen", "action", "nothing", "error"}]
Clocks == [at: {"idle", "dispatch", "done", "stopped"}, held: Nat, stop: BOOLEAN]
Transition == [turn: Nat, wins: BOOLEAN, news: SUBSET Alarms, review: Nat, ends: BOOLEAN]
Receipt == [turn: Nat, status: Answers]

TypeOK ==
  /\ co \in Records /\ Linked(co)
  /\ main \in Loops /\ worker \in Workers /\ clock \in Clocks
  /\ tick \in 0..MaxTicks
  /\ transitions \in Seq(Transition) /\ receipts \in Seq(Receipt)
  /\ {submitted, clock.held} \cup owed \cup won \cup failed \subseteq 0..Len(co.turns)

----------------------------------------------------------------------------
(* Events *)

Prio(c, e) == Priority[c.events[e].kind]

(* The order in which pending events are dispatched. *)
Before(c, e, f) == Prio(c, e) > Prio(c, f) \/ (Prio(c, e) = Prio(c, f) /\ e < f)
First(c, S) == CHOOSE e \in S : \A f \in S \ {e} : Before(c, e, f)

NewEvent(c, kind, deadline) ==
  [c EXCEPT !.events = Append(@, [kind |-> kind, deadline |-> deadline, fate |-> "open"])]

Mark(c, S, fate) ==
  [c EXCEPT !.events = [e \in DOMAIN @ |-> IF e \in S THEN [@[e] EXCEPT !.fate = fate]
                                                      ELSE @[e]]]

(* Alarms carry a coalesce key, and they all carry the same. *)
SameKey(c, e, f) == c.events[e].kind = "alarm" /\ c.events[f].kind = "alarm"

(* _queue_pending_event, for events of different keys: a pending event with *)
(* the same key gives way, and leaves its deadline if that is the earlier.  *)
QueueAll(c, S) ==
  LET equal(e) == {p \in c.pending : SameKey(c, p, e)}
      replaced == UNION {equal(e) : e \in S}
      due(e) == Min({c.events[p].deadline : p \in equal(e) \cup {e}})
  IN [c EXCEPT !.pending = (@ \ replaced) \cup S,
               !.events = [p \in DOMAIN @ |->
                 IF p \in S THEN [@[p] EXCEPT !.fate = "open", !.deadline = due(p)]
                 ELSE IF p \in replaced THEN [@[p] EXCEPT !.fate = "merged"]
                 ELSE @[p]]]

Queue(c, e) == QueueAll(c, {e})

(* _end_standing_plan_for_event: every kind but the session's start ends it. *)
EndPlan(c, e) == [c EXCEPT !.plan = @ /\ c.events[e].kind = "start"]

----------------------------------------------------------------------------
(* Turns *)

Turn(t)   == [turn |-> t, seen |-> 0]   \* work of the driver: a provider turn ...
Seen(i)   == [turn |-> 0, seen |-> i]   \* ... or the observation of a transition
Free(c)   == c.current = 0 /\ c.awaiting = 0

Opened(c, e) ==
  LET t == Len(c.turns) + 1 IN
  [Mark(c, {e}, "delivered") EXCEPT
     !.turns = Append(@, [event |-> e, deadline |-> c.events[e].deadline,
                          status |-> "in_flight", held |-> "open"]),
     !.current = t,
     !.line = Append(@, Turn(t))]

\* mutant: a turn is started whatever the action before it has come to
StartAnyway(c, e) ==
  IF ~c.accept THEN c
  ELSE IF clock.at \in {"done", "stopped"} THEN Mark(c, {e}, "suppressed")
  ELSE Opened(c, e)

\* mutant: the actor is not asked whether the turn may begin
StartUnadmitted(c, e) ==
  IF ~c.accept THEN c
  ELSE IF c.awaiting # 0 \/ c.ingesting # {} THEN Queue(c, e)
  ELSE Opened(c, e)

(* _start_turn, with the actor's try_admit_provider_turn. *)
Start(c, e) ==
  IF ~c.accept THEN c
  ELSE IF c.awaiting # 0 \/ c.ingesting # {} THEN Queue(c, e)
  ELSE IF clock.at = "done" \/ clock.stop THEN Mark(c, {e}, "suppressed")
  ELSE IF clock.at = "dispatch" THEN Queue(c, e)
  ELSE Opened(c, e)

(* rollback_turn: the driver takes the turn's writes out of the memory.     *)
RolledBack(c, t) == [c EXCEPT !.turns[t].held = "rolled_back"]

(* cancel_turn: a turn that is still in the driver's line stays there, with *)
(* a future that is canceled, and is passed over.                           *)
Canceled(c, t) == [RolledBack(c, t) EXCEPT !.turns[t].status = "superseded"]
Withdrawn(c, w) == w.turn # 0 /\ c.turns[w.turn].status = "superseded"

(* _flush_deferred_observations, by a caller that holds the lock.           *)
Flush(c) ==
  IF ~Free(c) THEN c
  ELSE [c EXCEPT !.line = @ \o [i \in DOMAIN c.deferred |-> Seen(c.deferred[i])],
                 !.ingesting = @ \cup ToSet(c.deferred),
                 !.deferred = <<>>, !.flushing = FALSE]

(* _dispatch_next_pending: late events are dropped on the way to the first  *)
(* that is not.                                                             *)
Dispatch(c) ==
  LET late == {e \in c.pending : c.events[e].deadline < tick}
      inTime == c.pending \ late
  IN IF ~c.accept \/ ~Free(c) \/ c.ingesting # {} \/ c.pending = {} THEN c
     ELSE IF clock.at = "done"
     THEN [Mark(c, c.pending, "suppressed") EXCEPT !.pending = {}]
     ELSE IF inTime = {}
     THEN [Mark(c, late, "expired") EXCEPT !.pending = {}]
     ELSE LET e == First(c, inTime)
              gone == {f \in late : Before(c, f, e)}
          IN Start([Mark(c, gone, "expired") EXCEPT !.pending = @ \ (gone \cup {e})], e)

\* mutant: the event of a superseded turn is not put back
SupersedeAndForget(c, e) ==
  LET t == c.current IN Start(Flush([Canceled(c, t) EXCEPT !.current = 0]), e)

(* A running turn gives way to a more urgent event: its own event goes back *)
(* to the pending ones, unless it is the session's start.                   *)
Supersede(c, e) ==
  LET t == c.current
      old == c.turns[t].event
      freed == [Canceled(c, t) EXCEPT !.current = 0]
      requeued == IF c.events[old].kind = "start" \/ old \in c.pending
                  THEN freed ELSE Queue(freed, old)
  IN Start(Flush(requeued), e)

(* _interrupt_or_steer, for an agent that cannot be steered. *)
Interrupt(c, e) ==
  IF ~c.accept THEN Mark(c, {e}, "suppressed")
  ELSE IF c.current = 0 THEN Start(c, e)
  ELSE IF Prio(c, e) <= Prio(c, c.turns[c.current].event) THEN Queue(c, e)
  ELSE Supersede(c, e)

(* _settle_behavioral_turn, without the flush that follows it.              *)
Settle(c, t, commit) ==
  IF c.awaiting # t \/ t = 0 THEN c
  ELSE LET kept == commit /\ c.turns[t].held # "rolled_back" IN
       [c EXCEPT !.awaiting = 0,
                 !.turns[t].held = IF kept THEN "committed" ELSE "rolled_back",
                 !.turns[t].status = IF commit /\ ~kept THEN "superseded"
                                     ELSE IF @ = "awaiting" THEN "completed" ELSE @]

\* mutant: the action that is being decided is invalidated with the rest
InvalidateDecided(c, defer) ==
  LET lost == {t \in DOMAIN c.turns : c.turns[t].status \in {"in_flight", "awaiting"}} IN
  [c EXCEPT !.accept = FALSE, !.current = 0, !.awaiting = 0,
            !.turns = [t \in DOMAIN @ |->
                         IF t \in lost
                         THEN [@[t] EXCEPT !.status = "superseded", !.held = "rolled_back"]
                         ELSE @[t]]]

(* _invalidate_all_turns, without the flush that follows it.                *)
InvalidateAll(c, defer) ==
  LET lost == {t \in DOMAIN c.turns : c.turns[t].status = "in_flight"
                                      \/ (c.turns[t].status = "awaiting" /\ ~defer)}
  IN [c EXCEPT !.accept = FALSE, !.current = 0,
        !.awaiting = IF defer THEN @ ELSE 0,
        !.turns = [t \in DOMAIN @ |->
                     IF t \in lost
                     THEN [@[t] EXCEPT !.status = "superseded", !.held = "rolled_back"]
                     ELSE @[t]]]

----------------------------------------------------------------------------
(* The actor *)

Realized ==
  Cardinality({e \in DOMAIN co.events : co.events[e].kind \in Alarms})
    + FoldSeq(LAMBDA tr, n : n + Cardinality(tr.news), 0, transitions)

Answer(t, status) == [turn |-> t, status |-> status]
AnswerAll(S, status) == SetToSeq({Answer(t, status) : t \in S})

(* The clock takes the action that waits, if there is one. *)
BeginTick ==
  /\ clock.at = "idle" /\ ~clock.stop /\ tick < MaxTicks
  /\ clock' = [clock EXCEPT !.at = "dispatch", !.held = submitted]
  /\ submitted' = 0
  /\ UNCHANGED <<co, main, worker, tick, transitions, owed, receipts, won, failed>>

(* What a transition may do with the action: it wins, at once or with a     *)
(* delayed tool's outcome to come; it wins and has no effect; the           *)
(* transition rejects it; or its state version is stale, of which the       *)
(* transition says nothing.                                                 *)
Wins == {"applied", "deferred", "no_effect"}

EndTick ==
  /\ clock.at = "dispatch"
  /\ \E verdict \in IF clock.held = 0 THEN {"none"} ELSE Verdicts,
        news \in {n \in News : Realized + Cardinality(n) <= MaxNews},
        review \in {None} \cup {tick + 1 + r : r \in Reviews},
        ends \in BOOLEAN,
        settled \in SUBSET owed, fails \in BOOLEAN :
       /\ review # None => verdict = "applied"
       /\ settled = {} => ~fails
       /\ tick' = tick + 1
       /\ transitions' = Append(transitions,
            [turn |-> IF verdict \in {"none", "stale"} THEN 0 ELSE clock.held,
             wins |-> verdict \in Wins, news |-> news, review |-> review, ends |-> ends])
       /\ won' = IF verdict \in Wins THEN won \cup {clock.held} ELSE won
       /\ failed' = IF fails THEN failed \cup settled ELSE failed
       /\ receipts' = receipts \o AnswerAll(settled, IF fails THEN "failed" ELSE "applied")
                      \o (IF verdict \in {"none", "deferred"} THEN <<>>
                          ELSE <<Answer(clock.held, verdict)>>)
       /\ owed' = (owed \ settled) \cup (IF verdict = "deferred" THEN {clock.held} ELSE {})
       /\ clock' = [clock EXCEPT !.at = IF ends THEN "done" ELSE "idle", !.held = 0]
  /\ UNCHANGED <<co, main, worker, submitted>>

(* An actor that ends answers what it still holds. *)
CloseActor ==
  /\ clock.at = "done" \/ (clock.at = "idle" /\ clock.stop)
  /\ LET unanswered == (owed \cup {submitted}) \ {0} IN
       /\ unanswered # {} \/ clock.at = "idle"
       /\ receipts' = receipts \o AnswerAll(unanswered, "failed")
  /\ submitted' = 0 /\ owed' = {} /\ failed' = failed \cup owed
  /\ clock' = [clock EXCEPT !.at = IF @ = "idle" THEN "stopped" ELSE @]
  /\ UNCHANGED <<co, main, worker, tick, transitions, won>>

ActorStep == BeginTick \/ EndTick \/ CloseActor

----------------------------------------------------------------------------
(* The driver's worker and its callbacks *)

Take ==
  /\ worker.at = "idle" /\ co.line # <<>> /\ ~Withdrawn(co, Head(co.line))
  /\ worker' = [worker EXCEPT !.at = "run", !.job = Head(co.line)]
  /\ co' = [co EXCEPT !.line = Tail(@)]
  /\ UNCHANGED <<main, actor>>

(* What was canceled before it began is passed over. *)
Skip ==
  /\ worker.at = "idle" /\ co.line # <<>> /\ Withdrawn(co, Head(co.line))
  /\ co' = [co EXCEPT !.line = Tail(@)]
  /\ UNCHANGED <<main, worker, actor>>

(* The provider answers with an action, with none that counts, or fails.    *)
Reply ==
  /\ worker.at = "run"
  /\ \E r \in IF worker.job.turn = 0 THEN {"seen"} ELSE {"action", "nothing", "error"} :
       worker' = [worker EXCEPT !.at = "callback", !.result = r]
  /\ UNCHANGED <<co, main, actor>>

Status(c, t, status) == [c EXCEPT !.turns[t].status = status]
Over(c, t) == [c EXCEPT !.current = IF @ = t THEN 0 ELSE @]

\* mutant: a turn that was superseded may still send its action
LateForCoordinator(t) == ~co.accept

(* The answer came too late: for the coordinator or a newer turn, ... *)
Late(t) == ~co.accept \/ co.turns[t].status = "superseded" \/ co.current # t

(* ... or for the response window, counted in ticks and in wall time.       *)
Overrun(t) == IF co.turns[t].deadline < tick THEN {TRUE}
              ELSE IF co.turns[t].deadline = None THEN {FALSE} ELSE BOOLEAN

Failed(t) ==
  Dispatch(Flush(Over(RolledBack(IF co.turns[t].status = "superseded" THEN co
                                 ELSE Status(co, t, "failed"), t), t)))

Missed(t) ==
  LET c == NewEvent(Over(RolledBack(Status(co, t, "superseded"), t), t), "feedback", None)
      e == Len(c.events)
  IN Dispatch(Interrupt(EndPlan(Flush(c), e), e))

Unused(t) == Dispatch(Flush(Over(RolledBack(Status(co, t, "completed"), t), t)))

Awaits(t) == [Over(Status(co, t, "awaiting"), t) EXCEPT !.awaiting = t]

(* _finish_turn, which holds the lock from end to end. *)
FinishTurn ==
  /\ worker.at = "callback" /\ worker.job.turn # 0
  /\ LET t == worker.job.turn IN
       \/ /\ worker.result = "error"
          /\ co' = Failed(t)
          /\ UNCHANGED <<submitted, receipts>>
       \/ /\ worker.result # "error" /\ Late(t)
          /\ co' = Dispatch(RolledBack(co, t))
          /\ UNCHANGED <<submitted, receipts>>
       \/ /\ worker.result # "error" /\ ~Late(t)
          /\ \E missed \in Overrun(t) :
               \/ /\ missed
                  /\ co' = Missed(t)
                  /\ UNCHANGED <<submitted, receipts>>
               \/ /\ ~missed /\ worker.result = "nothing"
                  /\ co' = Unused(t)
                  /\ UNCHANGED <<submitted, receipts>>
               \/ /\ ~missed /\ worker.result = "action"
                  /\ co' = Awaits(t)
                  /\ IF clock.at = "done" \/ clock.stop
                     THEN /\ receipts' = Append(receipts, Answer(t, "rejected"))
                          /\ UNCHANGED submitted
                     ELSE submitted' = t /\ UNCHANGED receipts
  /\ worker' = [worker EXCEPT !.at = "idle"]
  /\ UNCHANGED <<main, clock, tick, transitions, owed, won, failed>>

(* _observation_ingest_settled, which takes the lock twice. *)
IngestSettled ==
  /\ worker.at = "callback" /\ worker.job.turn = 0
  /\ co' = [co EXCEPT !.ingesting = @ \ {worker.job.seen}]
  /\ worker' = [worker EXCEPT !.at = IF co.flushing THEN "idle" ELSE "dispatch"]
  /\ UNCHANGED <<main, actor>>

WorkerDispatches ==
  /\ worker.at = "dispatch"
  /\ co' = Dispatch(co)
  /\ worker' = [worker EXCEPT !.at = "idle"]
  /\ UNCHANGED <<main, actor>>

WorkerStep == Take \/ Skip \/ Reply \/ FinishTurn \/ IngestSettled \/ WorkerDispatches

----------------------------------------------------------------------------
(* The main loop *)

At(s) == main.at = s
Goes(s) == [main EXCEPT !.at = s]
NextTransition(m) == [m EXCEPT !.at = IF m.seen < m.upto THEN "settle" ELSE "drain"]

Begin ==
  /\ At("begin")
  /\ co' = Start(NewEvent(co, "start", None), 1)
  /\ main' = Goes("loop")
  /\ UNCHANGED <<worker, actor>>

Read ==
  /\ At("loop") /\ clock.at # "done"
  /\ main' = NextTransition([main EXCEPT !.upto = tick])
  /\ UNCHANGED <<co, worker, actor>>

(* The environment is done, or the wall time is up. *)
Leave ==
  /\ At("loop")
  /\ co' = InvalidateAll(co, TRUE)
  /\ main' = Goes("stop")
  /\ UNCHANGED <<worker, actor>>

StopActor ==
  /\ At("stop")
  /\ clock' = [clock EXCEPT !.stop = TRUE]
  /\ main' = Goes("join")
  /\ UNCHANGED <<co, worker, tick, transitions, submitted, owed, receipts, won, failed>>

ActorOver == clock.at \in {"done", "stopped"} /\ submitted = 0 /\ owed = {}

(* stop waits two seconds for the clock thread.  A thread that is still in  *)
(* env.step is left to itself, and so is the action it has: run goes on.    *)
Join ==
  /\ At("join")
  /\ \E left \in IF ActorOver THEN {0} ELSE {co.awaiting} :
       main' = NextTransition([main EXCEPT !.closing = TRUE, !.upto = tick,
                                           !.abandoned = left])
  /\ UNCHANGED <<co, worker, actor>>

Flushes(back, then) == [main EXCEPT !.at = "flush", !.back = back, !.then = then]

(* _flush_deferred_observations, by the main loop: the observations are     *)
(* taken under the lock and given to the driver without it.                 *)
Release ==
  /\ At("flush")
  /\ IF Free(co)
     THEN /\ co' = [co EXCEPT !.deferred = <<>>, !.flushing = TRUE]
          /\ main' = [main EXCEPT !.at = "submit", !.out = co.deferred]
     ELSE main' = Goes(main.back) /\ UNCHANGED co
  /\ UNCHANGED <<worker, actor>>

current == Head(transitions)

(* _settle_behavioral_turn_from_transition *)
SettleTransition ==
  /\ At("settle")
  /\ IF current.turn # 0 /\ current.turn = co.awaiting
     THEN /\ co' = Settle(co, current.turn, current.wins)
          /\ main' = Flushes("ingest", "next")
     ELSE main' = Goes("ingest") /\ UNCHANGED co
  /\ UNCHANGED <<worker, actor>>

(* _ingest_transition_observation: looked at under the lock, given away     *)
(* without it.                                                              *)
IngestTransition ==
  /\ At("ingest")
  /\ IF Free(co)
     THEN /\ main' = [main EXCEPT !.at = "submit", !.out = <<main.seen + 1>>, !.back = "emit"]
          /\ UNCHANGED co
     ELSE /\ co' = [co EXCEPT !.deferred = Append(@, main.seen + 1)]
          /\ main' = Goes("emit")
  /\ UNCHANGED <<worker, actor>>

SubmitObservation ==
  /\ At("submit") /\ main.out # <<>>
  /\ co' = [co EXCEPT !.line = Append(@, Seen(Head(main.out)))]
  /\ main' = Goes("track")
  /\ UNCHANGED <<worker, actor>>

(* An observation that has been taken in meanwhile is not waited for.       *)
Absorbed(i) == ~(Seen(i) \in ToSet(co.line) \/ (worker.job = Seen(i) /\ worker.at = "run"))

TrackObservation ==
  /\ At("track")
  /\ LET i == Head(main.out) IN
       co' = IF Absorbed(i) THEN co ELSE [co EXCEPT !.ingesting = @ \cup {i}]
  /\ main' = [main EXCEPT !.at = "submit", !.out = Tail(@)]
  /\ UNCHANGED <<worker, actor>>

EndFlush ==
  /\ At("submit") /\ main.out = <<>>
  /\ co' = [co EXCEPT !.flushing = FALSE]
  /\ main' = Goes(main.back)
  /\ UNCHANGED <<worker, actor>>

(* _ingest_confirmed_plan_reviews, for a turn that was not rolled back.     *)
Planned(c) ==
  IF current.review # None /\ c.turns[current.turn].held # "rolled_back"
  THEN [c EXCEPT !.plan = TRUE, !.review = current.review]
  ELSE c

Deadline(kind) == IF kind = "alarm" THEN main.seen + 1 + Window ELSE None

(* One event for each kind of news, and one for the review that is due;     *)
(* a standing plan keeps a forecast from waking the agent.                  *)
Emitted(c, kinds) ==
  LET told == SetToSeq(kinds) IN
    [c EXCEPT !.events = @ \o [i \in DOMAIN told |->
                [kind |-> told[i], deadline |-> Deadline(told[i]), fate |-> "open"]]]
News_(c) == {e \in DOMAIN c.events : e > Len(co.events)}
Delegated(c) == {e \in News_(c) : c.plan /\ c.events[e].kind = "forecast"}

\* mutant: the losers of one transition are forgotten
QueueNone(c, losers) == c

(* The candidates that lose are queued, without the lock; one at most is an *)
(* alarm, so their keys are different.                                      *)
QueueLosers(c, losers) == QueueAll(c, losers)

Reviewed(c) ==
  IF c.review <= main.seen + 1
  THEN [NewEvent(c, "review", None) EXCEPT !.review = None]
  ELSE c

Emit ==
  /\ At("emit")
  /\ LET told == Emitted(Planned(co), current.news) IN
       IF current.ends
       THEN /\ co' = Mark(told, News_(told), "suppressed")
            /\ main' = NextTransition([main EXCEPT !.seen = @ + 1])
       ELSE LET c == Reviewed(Mark(told, Delegated(told), "delegated"))
                candidates == News_(c) \ Delegated(told)
            IN IF candidates = {}
               THEN co' = c /\ main' = [main EXCEPT !.at = "dispatch", !.then = "next"]
               ELSE LET w == First(c, candidates) IN
                      /\ co' = QueueLosers(EndPlan(c, w), candidates \ {w})
                      /\ main' = [main EXCEPT !.at = "interrupt", !.event = w, !.then = "next"]
  /\ transitions' = Tail(transitions)
  /\ UNCHANGED <<worker, clock, tick, submitted, owed, receipts, won, failed>>

InterruptStep ==
  /\ At("interrupt")
  /\ co' = Interrupt(co, main.event)
  /\ main' = [main EXCEPT !.at = "dispatch", !.event = 0]
  /\ UNCHANGED <<worker, actor>>

DispatchStep ==
  /\ At("dispatch")
  /\ co' = Dispatch(co)
  /\ main' = IF main.then = "next" THEN NextTransition([main EXCEPT !.seen = @ + 1])
             ELSE Goes(main.then)
  /\ UNCHANGED <<worker, actor>>

Commits == {"applied", "no_effect"}
Reconciles == {"stale", "rejected", "failed", "no_effect"}

(* _drain_receipts, one receipt: it settles the turn, and one that the      *)
(* agent must react to becomes an event, unless the tool results of its     *)
(* transition already tell it.                                              *)
DrainReceipt ==
  /\ At("drain") /\ receipts # <<>>
  /\ LET r == Head(receipts) IN
       \E feedback \in IF r.status \in Reconciles THEN BOOLEAN ELSE {FALSE} :
         LET back == IF feedback THEN "feedback" ELSE "dispatch" IN
         IF co.awaiting = r.turn
         THEN /\ co' = Settle(co, r.turn, r.status \in Commits)
              /\ main' = Flushes(back, "drain")
         ELSE co' = co /\ main' = [main EXCEPT !.at = back, !.then = "drain"]
  /\ receipts' = Tail(receipts)
  /\ UNCHANGED <<worker, clock, tick, transitions, submitted, owed, won, failed>>

Feedback ==
  /\ At("feedback")
  /\ LET c == NewEvent(co, "feedback", None) IN
       /\ co' = EndPlan(c, Len(c.events))
       /\ main' = [main EXCEPT !.at = "interrupt", !.event = Len(c.events)]
  /\ UNCHANGED <<worker, actor>>

Drained ==
  /\ At("drain") /\ receipts = <<>>
  /\ main' = IF main.closing THEN Goes("invalidate")
             ELSE [main EXCEPT !.at = "dispatch", !.then = "loop"]
  /\ UNCHANGED <<co, worker, actor>>

Invalidate ==
  /\ At("invalidate")
  /\ co' = InvalidateAll(co, FALSE)
  /\ main' = Flushes("suppress", "next")
  /\ UNCHANGED <<worker, actor>>

Suppress ==
  /\ At("suppress")
  /\ co' = [Mark(co, co.pending, "suppressed") EXCEPT !.pending = {}]
  /\ main' = Goes("wait")
  /\ UNCHANGED <<worker, actor>>

\* mutant: the driver is closed only when its worker is through
CloseSettledDriver ==
  /\ At("wait") /\ worker.at = "idle" /\ co.line = <<>>
  /\ main' = Goes("ended")
  /\ UNCHANGED <<co, worker, actor>>

(* The driver settles within the grace, or does not; it is closed in any    *)
(* case, which withdraws what has not begun.                                *)
CloseDriver ==
  /\ At("wait")
  /\ co' = [co EXCEPT !.line = <<>>, !.ingesting = @ \ {w.seen : w \in ToSet(co.line)}]
  /\ main' = Goes("ended")
  /\ UNCHANGED <<worker, actor>>

MainStep ==
  \/ Begin \/ Read \/ Leave \/ StopActor \/ Join \/ SettleTransition \/ Release
  \/ IngestTransition \/ SubmitObservation \/ TrackObservation \/ EndFlush \/ Emit \/ InterruptStep
  \/ DispatchStep \/ DrainReceipt \/ Feedback \/ Drained \/ Invalidate \/ Suppress
  \/ CloseDriver

Init ==
  /\ co = [events |-> <<>>, pending |-> {}, turns |-> <<>>, current |-> 0, awaiting |-> 0,
           deferred |-> <<>>, ingesting |-> {}, flushing |-> FALSE, accept |-> TRUE,
           plan |-> FALSE, review |-> None, line |-> <<>>]
  /\ main = [at |-> "begin", seen |-> 0, upto |-> 0, out |-> <<>>, back |-> "loop",
             then |-> "loop", event |-> 0, closing |-> FALSE, abandoned |-> 0]
  /\ worker = [at |-> "idle", job |-> Turn(0), result |-> "nothing"]
  /\ clock = [at |-> "idle", held |-> 0, stop |-> FALSE]
  /\ tick = 0 /\ transitions = <<>> /\ submitted = 0 /\ owed = {} /\ receipts = <<>>
  /\ won = {} /\ failed = {}

Next == MainStep \/ WorkerStep \/ ActorStep

Spec == Init /\ [][Next]_vars

(* The main loop goes on, and the wall time, which it looks at every time   *)
(* round, is up at last.  Nothing is asked of the provider or of the actor: *)
(* a turn may never be answered, and env.step may never return.             *)
FairSpec == Spec /\ WF_vars(MainStep) /\ SF_vars(Leave)

----------------------------------------------------------------------------
(* What the coordinator promises *)

Unsettled == {t \in DOMAIN co.turns : co.turns[t].status \in {"in_flight", "awaiting"}}

(* There is one behavioural transaction at a time, and the coordinator knows *)
(* which, whichever thread last changed it.                                  *)
OneTransaction ==
  Unsettled = {co.current, co.awaiting} \ {0} /\ Cardinality(Unsettled) <= 1

(* No event is lost: an event that is neither delivered to a turn nor closed *)
(* with a reason is pending or in the hands of the main loop, and at the end *)
(* none is left.                                                             *)
NoEventLost ==
  /\ {e \in DOMAIN co.events : co.events[e].fate = "open"} = co.pending \cup ({main.event} \ {0})
  /\ At("ended") => co.pending = {}

(* Memory and world agree: the agent keeps the memory of a turn exactly when *)
(* the turn's action won its arbitration, also when the episode ends between *)
(* the two.  The one turn that may lose its memory while the world takes its *)
(* action is the one that was awaiting its arbitration when stop gave up     *)
(* waiting for the actor.                                                    *)
MemoryFollowsWorld ==
  \A t \in DOMAIN co.turns :
    /\ co.turns[t].held = "committed" => t \in won
    /\ co.turns[t].held = "rolled_back" => t \notin won \ failed \/ t = main.abandoned
    /\ At("ended") => co.turns[t].held # "open"

(* Turns begin only while the environment still runs, and never between the  *)
(* moment the clock took an action and the transition it results in.         *)
AdmittedBetweenTicks ==
  [][Len(co'.turns) > Len(co.turns) => clock.at = "idle" /\ ~clock.stop]_vars

(* A turn that is interrupted gives its event back, so that the event is     *)
(* delivered again, with its own deadline or an earlier one.                 *)
InterruptedEventsWait ==
  [][\A t \in DOMAIN co.turns :
       (co.turns[t].status = "in_flight" /\ co'.turns[t].status = "superseded"
         /\ co'.accept /\ UNCHANGED worker)
       => LET e == co.turns[t].event IN
            \/ co.events[e].kind = "start"
            \/ e \in co'.pending /\ co'.events[e].deadline <= co.events[e].deadline]_vars

(* The actor that the coordinator sees keeps what the whole actor keeps:     *)
(* each turn's action reaches it once at most, while it has no other, is     *)
(* taken by one tick, and nothing more comes of it once it is closed; a turn *)
(* that was interrupted, missed or invalidated sends it nothing.             *)
Stage(t) ==
  IF t = submitted THEN "queued"
  ELSE IF t = clock.held THEN "accepted"
  ELSE IF t \in owed THEN "pending"
  ELSE IF t \notin DOMAIN co.turns \/ co.turns[t].status = "in_flight" THEN "unknown"
  ELSE "closed"

Lifecycle == INSTANCE ActionLifecycle
  WITH Actions <- Watched, stage <- [t \in Watched |-> Stage(t)]

ImplementsLifecycle == Lifecycle!Spec

(* An episode ends, whether or not the environment does, and whatever the    *)
(* provider and a step of the environment still owe: the wall time bounds    *)
(* the loop, a timeout the wait for the actor and a grace period the wait    *)
(* for the driver.                                                           *)
EpisodeEnds == <>At("ended")

----------------------------------------------------------------------------
(* What the documentation says of it (docs/AGENTIC_INTERACTION.md) *)

(* "Observation ingestion is deferred throughout a provider transaction and  *)
(* action arbitration": nothing is given to the driver while a turn is open. *)
IngestionDeferred ==
  [][\A i \in 1..tick :
       Seen(i) \in ToSet(co'.line) \ ToSet(co.line) => Free(co')]_vars

(* "Repeated typed event keys coalesce to the latest pending update": of two *)
(* alarms with one key, the one that is dropped is the earlier.              *)
LatestWins ==
  [][\A e \in DOMAIN co.events :
       (co.events[e].fate # "merged" /\ co'.events[e].fate = "merged")
       => \E f \in DOMAIN co'.events : f > e /\ SameKey(co', e, f)]_vars
=============================================================================
