------------------------------ MODULE TurnDriver ------------------------------
(***************************************************************************)
(* AgentTurnDriver (runner/realtime_episode.py): a synchronous agent behind *)
(* one worker thread, so that its provider turns can be superseded.         *)
(*                                                                         *)
(* Each turn is a transaction on the agent's behavioural state: the worker  *)
(* takes a snapshot before it asks the agent and the snapshot is restored   *)
(* when the turn is invalidated, by the worker if it is still at it and by  *)
(* the caller if the worker is through.  The driver's lock is held for one  *)
(* step of this module at a time; snapshots and restores are outside it.    *)
(*                                                                         *)
(* The caller is the coordinator, which makes one call at a time and keeps  *)
(* observations away while a turn is undecided (EpisodeCoordinator).        *)
(***************************************************************************)
EXTENDS Naturals, Sequences, FiniteSets

CONSTANTS Turns,          \* turn identities
          Observations,   \* transitions' observations, ingested between turns
          Nothing,        \* no work
          MaxRequests,    \* bound: provider requests of one episode
          HardCancel      \* whether the agent can close a provider stream

Work == Turns \cup Observations

ASSUME WorkAssumption ==
  /\ IsFiniteSet(Turns) /\ IsFiniteSet(Observations)
  /\ Turns \cap Observations = {} /\ Nothing \notin Work
  /\ MaxRequests \in Nat /\ HardCancel \in BOOLEAN

VARIABLES line,         \* the pool's queue, withdrawn work included
          future,       \* the state of each piece of work's future
          tracked,      \* _turn_futures and _ingest_futures
          worker,       \* the pool's thread: where it is and its locals
          client,       \* the caller's thread: where it is and its locals
          snapshots,    \* _turn_snapshots ...
          snapped,      \* ... and the turns that have one
          invalidated,  \* _invalidated_turns
          complete,     \* _execution_complete
          rolledBack,   \* _rolled_back_turns
          range,        \* _turn_provider_ranges
          outcome,      \* _turn_cancel_outcomes
          closing,      \* _close_requested
          closed,       \* _agent_closed
          memory,       \* the agent's behavioural state: whose writes it holds
          requests,     \* the agent's provider requests, in order, by turn
          dropped,      \* _canceled_realtime_turns: the agent was told to give up
          marked,       \* turns with a pretransport_cancellation marker
          live          \* the caller's undecided turn

driver == <<line, future, tracked, snapshots, snapped, invalidated, complete,
            rolledBack, range, outcome, closing, closed>>
agent  == <<memory, requests, dropped, marked>>
vars   == <<driver, agent, worker, client, live>>

Stages  == {"idle", "snapshot", "register", "abandon", "abandoned", "request",
            "reply", "settle", "merge", "restore", "restoring", "finish", "forget",
            "absorb"}
Calls   == {"ready", "submit", "track", "restore", "restoring", "cancel", "stop",
            "outcome", "shutdown", "join", "gone"}
Audits  == {"none", "queued", "running", "completed", "superseded_completed",
            "canceled_before_provider_call", "canceled_before_transport"}
Marks   == {"queued_future_canceled", "provider_stream_canceled", "pretransport_canceled"}

TypeOK ==
  /\ line \in Seq(Work)
  /\ future \in [Work -> {"none", "pending", "running", "done", "canceled"}]
  /\ tracked \subseteq Work
  /\ worker \in [at: Stages, job: Work \cup {Nothing}, held: SUBSET Work, condemned: BOOLEAN]
  /\ client \in [at: Calls, on: Work \cup {Nothing}, held: SUBSET Work,
                 then: {"ready", "cancel"}, told: SUBSET Marks, waits: BOOLEAN]
  /\ snapshots \in [Turns -> SUBSET Work] /\ snapped \subseteq Turns
  /\ invalidated \subseteq Turns /\ complete \subseteq Turns /\ rolledBack \subseteq Turns
  /\ range \in [Turns -> [status: Audits, from: Nat, to: Nat]]
  /\ outcome \in [Turns -> SUBSET Marks]
  /\ closing \in BOOLEAN /\ closed \in BOOLEAN
  /\ memory \subseteq Work
  /\ requests \in Seq(Turns)
  /\ dropped \subseteq Turns /\ marked \subseteq Turns
  /\ live \in Turns \cup {Nothing}

Init ==
  /\ line = <<>> /\ tracked = {}
  /\ future = [w \in Work |-> "none"]
  /\ worker = [at |-> "idle", job |-> Nothing, held |-> {}, condemned |-> FALSE]
  /\ client = [at |-> "ready", on |-> Nothing, held |-> {}, then |-> "ready",
               told |-> {}, waits |-> FALSE]
  /\ snapshots = [t \in Turns |-> {}] /\ snapped = {}
  /\ invalidated = {} /\ complete = {} /\ rolledBack = {}
  /\ range = [t \in Turns |-> [status |-> "none", from |-> 0, to |-> 0]]
  /\ outcome = [t \in Turns |-> {}]
  /\ closing = FALSE /\ closed = FALSE
  /\ memory = {} /\ requests = <<>> /\ dropped = {} /\ marked = {}
  /\ live = Nothing

Finished(w) == future[w] \in {"done", "canceled"}
Goes(thread, s) == [thread EXCEPT !.at = s]

\* mutant: the last piece of work does not close the agent
ForgetOnly(S) ==
  /\ tracked' = tracked \ S
  /\ UNCHANGED closed

(* _forget_turn, _forget_ingest: the last piece of work to go closes the     *)
(* agent if the driver is being closed.                                     *)
Forget(S) ==
  /\ tracked' = tracked \ S
  /\ closed' = (closed \/ (closing /\ S # {} /\ tracked' = {}))

----------------------------------------------------------------------------
(* The worker *)

AtStep(s) == worker.at = s

Take ==
  /\ AtStep("idle") /\ line # <<>> /\ future[Head(line)] = "pending"
  /\ LET w == Head(line) IN
       /\ worker' = [worker EXCEPT !.job = w,
                       !.at = IF w \in Turns THEN "snapshot" ELSE "absorb"]
       /\ future' = [future EXCEPT ![w] = "running"]
  /\ line' = Tail(line)
  /\ UNCHANGED <<tracked, snapshots, snapped, invalidated, complete, rolledBack, range,
                 outcome, closing, closed, agent, client, live>>

(* Work whose future was canceled stays in the queue until its turn comes. *)
Skip ==
  /\ AtStep("idle") /\ line # <<>> /\ future[Head(line)] = "canceled"
  /\ line' = Tail(line)
  /\ UNCHANGED <<future, tracked, snapshots, snapped, invalidated, complete, rolledBack,
                 range, outcome, closing, closed, agent, worker, client, live>>

Snapshot ==
  /\ AtStep("snapshot")
  /\ worker' = [worker EXCEPT !.at = "register", !.held = memory]
  /\ UNCHANGED <<driver, agent, client, live>>

\* mutant: the range begins one request early
BeginsEarly == [status |-> "running", from |-> IF requests = <<>> THEN 0 ELSE Len(requests) - 1,
                to |-> Len(requests)]

(* The audit range of a turn that begins. *)
Begins == [status |-> "running", from |-> Len(requests), to |-> Len(requests)]

Register ==
  /\ AtStep("register")
  /\ LET t == worker.job IN
       /\ snapshots' = [snapshots EXCEPT ![t] = worker.held]
       /\ snapped' = snapped \cup {t}
       /\ range' = [range EXCEPT ![t] = Begins]
       /\ worker' = Goes(worker, IF t \in invalidated THEN "abandon" ELSE "request")
  /\ UNCHANGED <<line, future, tracked, invalidated, complete, rolledBack, outcome,
                 closing, closed, agent, client, live>>

(* A turn that was invalidated before it began: nothing is asked. *)
Abandon ==
  /\ AtStep("abandon")
  /\ memory' = worker.held
  /\ worker' = Goes(worker, "abandoned")
  /\ UNCHANGED <<driver, requests, dropped, marked, client, live>>

Abandoned ==
  /\ AtStep("abandoned")
  /\ LET t == worker.job IN
       /\ snapped' = snapped \ {t}
       /\ range' = [range EXCEPT ![t].status = "canceled_before_transport"]
       /\ outcome' = [outcome EXCEPT ![t] = @ \cup {"pretransport_canceled"}]
       /\ complete' = complete \cup {t}
  /\ worker' = Goes(worker, "finish")
  /\ UNCHANGED <<line, future, tracked, snapshots, invalidated, rolledBack, closing,
                 closed, agent, client, live>>

(* The agent asks the provider, unless it was told to give up, which it     *)
(* marks if it has asked nothing yet.                                       *)
Request ==
  /\ AtStep("request")
  /\ LET t == worker.job IN
       IF t \in dropped
       THEN /\ marked' = IF Len(requests) = range[t].from THEN marked \cup {t} ELSE marked
            /\ worker' = Goes(worker, "settle")
            /\ UNCHANGED requests
       ELSE /\ Len(requests) < MaxRequests
            /\ requests' = Append(requests, t)
            /\ worker' = Goes(worker, "reply")
            /\ UNCHANGED marked
  /\ UNCHANGED <<driver, memory, dropped, client, live>>

(* The agent ends its call without a provider request: the turn was refused *)
(* on this side, or failed.                                                 *)
GiveUp ==
  /\ AtStep("request")
  /\ memory' \in {memory, memory \cup {worker.job}}
  /\ worker' = Goes(worker, "settle")
  /\ UNCHANGED <<driver, requests, dropped, marked, client, live>>

(* The provider's answer is used, repaired by another request, or is an     *)
(* error; the agent may have written to its memory in any case.             *)
Reply ==
  /\ AtStep("reply")
  /\ memory' \in {memory, memory \cup {worker.job}}
  /\ \E s \in {"settle", "request"} : worker' = Goes(worker, s)
  /\ UNCHANGED <<driver, requests, dropped, marked, client, live>>

\* mutant: the worker does not look whether the turn was invalidated meanwhile
SettleUncondemned ==
  /\ AtStep("settle")
  /\ LET t == worker.job IN
       /\ complete' = complete \cup {t}
       /\ range' = [range EXCEPT ![t].to = Len(requests), ![t].status = "completed"]
       /\ worker' = [worker EXCEPT !.at = "merge", !.condemned = FALSE]
       /\ dropped' = dropped \ {t}
  /\ UNCHANGED <<line, future, tracked, snapshots, snapped, invalidated, rolledBack,
                 outcome, closing, closed, memory, requests, marked, client, live>>

Settle ==
  /\ AtStep("settle")
  /\ LET t == worker.job IN
       /\ complete' = complete \cup {t}
       /\ range' = [range EXCEPT ![t].to = Len(requests),
                      ![t].status = IF t \in invalidated THEN "superseded_completed"
                                                         ELSE "completed"]
       /\ worker' = [worker EXCEPT !.at = "merge", !.condemned = t \in invalidated]
       /\ dropped' = dropped \ {t}
  /\ UNCHANGED <<line, future, tracked, snapshots, snapped, invalidated, rolledBack,
                 outcome, closing, closed, memory, requests, marked, client, live>>

(* _merge_agent_transport_cancel_outcome: the agent's marker counts if the  *)
(* turn was invalidated and its range is empty.                             *)
Merged(t) ==
  IF t \in marked /\ t \in invalidated /\ range[t].from = range[t].to
  THEN /\ range' = [range EXCEPT ![t].status = "canceled_before_transport"]
       /\ outcome' = [outcome EXCEPT ![t] = @ \cup {"pretransport_canceled"}]
  ELSE UNCHANGED <<range, outcome>>

Merge ==
  /\ AtStep("merge")
  /\ Merged(worker.job)
  /\ worker' = Goes(worker, IF worker.condemned THEN "restore" ELSE "finish")
  /\ UNCHANGED <<line, future, tracked, snapshots, snapped, invalidated, complete,
                 rolledBack, closing, closed, agent, client, live>>

(* _restore_turn_snapshot, the part under the lock: one of the two threads  *)
(* gets the snapshot.                                                       *)
Claims(t) == t \notin rolledBack /\ t \in snapped
Claim(t) ==
  IF Claims(t)
  THEN rolledBack' = rolledBack \cup {t} /\ snapped' = snapped \ {t}
  ELSE UNCHANGED <<rolledBack, snapped>>

Restore ==
  /\ AtStep("restore")
  /\ LET t == worker.job IN
       /\ Claim(t)
       /\ worker' = IF Claims(t)
                    THEN [worker EXCEPT !.at = "restoring", !.held = snapshots[t]]
                    ELSE Goes(worker, "finish")
  /\ UNCHANGED <<line, future, tracked, snapshots, invalidated, complete, range, outcome,
                 closing, closed, agent, client, live>>

Restoring ==
  /\ AtStep("restoring")
  /\ memory' = worker.held
  /\ worker' = Goes(worker, "finish")
  /\ UNCHANGED <<driver, requests, dropped, marked, client, live>>

Absorb ==
  /\ AtStep("absorb")
  /\ memory' \in {memory, memory \cup {worker.job}}
  /\ worker' = Goes(worker, "finish")
  /\ UNCHANGED <<driver, requests, dropped, marked, client, live>>

(* The future gets its result and runs the callbacks it has by now. *)
Finish ==
  /\ AtStep("finish")
  /\ future' = [future EXCEPT ![worker.job] = "done"]
  /\ worker' = Goes(worker, IF worker.job \in tracked THEN "forget" ELSE "idle")
  /\ UNCHANGED <<line, tracked, snapshots, snapped, invalidated, complete, rolledBack,
                 range, outcome, closing, closed, agent, client, live>>

ForgetJob ==
  /\ AtStep("forget")
  /\ Forget({worker.job})
  /\ worker' = Goes(worker, "idle")
  /\ UNCHANGED <<line, future, snapshots, snapped, invalidated, complete, rolledBack,
                 range, outcome, closing, agent, client, live>>

WorkerStep ==
  \/ Take \/ Skip \/ Snapshot \/ Register \/ Abandon \/ Abandoned \/ Request \/ GiveUp \/ Reply
  \/ Settle \/ Merge \/ Restore \/ Restoring \/ Absorb \/ Finish \/ ForgetJob

----------------------------------------------------------------------------
(* The caller *)

Ready == client.at = "ready"

(* start_turn: the audit range exists before the pool may begin the turn.   *)
StartTurn(t) ==
  /\ Ready /\ ~closing /\ live = Nothing /\ future[t] = "none"
  /\ \A o \in Observations : future[o] \notin {"pending", "running"}
  /\ range' = [range EXCEPT ![t].status = "queued"]
  /\ live' = t
  /\ client' = [client EXCEPT !.at = "submit", !.on = t]
  /\ UNCHANGED <<line, future, tracked, snapshots, snapped, invalidated, complete,
                 rolledBack, outcome, closing, closed, agent, worker>>

(* ingest_observation: only while no turn is undecided. *)
IngestObservation(o) ==
  /\ Ready /\ ~closing /\ live = Nothing /\ future[o] = "none"
  /\ client' = [client EXCEPT !.at = "submit", !.on = o]
  /\ UNCHANGED <<driver, agent, worker, live>>

Submit ==
  /\ client.at = "submit"
  /\ line' = Append(line, client.on)
  /\ future' = [future EXCEPT ![client.on] = "pending"]
  /\ client' = Goes(client, "track")
  /\ UNCHANGED <<tracked, snapshots, snapped, invalidated, complete, rolledBack, range,
                 outcome, closing, closed, agent, worker, live>>

(* The callback runs at once on a future that is done. *)
Track ==
  /\ client.at = "track"
  /\ tracked' = IF Finished(client.on) THEN tracked ELSE tracked \cup {client.on}
  /\ client' = [client EXCEPT !.at = "ready", !.on = Nothing]
  /\ UNCHANGED <<line, future, snapshots, snapped, invalidated, complete, rolledBack,
                 range, outcome, closing, closed, agent, worker, live>>

(* commit_turn, which refuses a turn that is invalidated or not complete. *)
CommitTurn(t) ==
  /\ Ready /\ ~closing /\ live = t /\ future[t] = "done"
  /\ IF t \notin invalidated /\ t \in complete
     THEN snapped' = snapped \ {t} /\ complete' = complete \ {t}
     ELSE UNCHANGED <<snapped, complete>>
  /\ live' = Nothing
  /\ UNCHANGED <<line, future, tracked, snapshots, invalidated, rolledBack, range, outcome,
                 closing, closed, agent, worker, client>>

\* mutant: the snapshot is restored at once, whether or not the worker is through
InvalidateEager(t, then) ==
  /\ invalidated' = invalidated \cup {t}
  /\ client' = [client EXCEPT !.on = t, !.then = then, !.told = {}, !.at = "restore"]
  /\ UNCHANGED <<line, future, tracked, snapshots, snapped, complete, rolledBack, range,
                 outcome, closing, closed, agent, worker>>

(* rollback_turn; cancel_turn goes on from it.  The coordinator also rolls  *)
(* back, once more, a turn it canceled, when its late answer arrives.       *)
Invalidate(t, then) ==
  /\ invalidated' = invalidated \cup {t}
  /\ client' = [client EXCEPT !.on = t, !.then = then, !.told = {},
                  !.at = IF t \in complete THEN "restore" ELSE then]
  /\ UNCHANGED <<line, future, tracked, snapshots, snapped, complete, rolledBack, range,
                 outcome, closing, closed, agent, worker>>

RollBackTurn(t) ==
  /\ Ready /\ ~closing /\ future[t] = "done" /\ (live = t \/ t \in invalidated)
  /\ Invalidate(t, "ready")
  /\ live' = IF live = t THEN Nothing ELSE live

CancelTurn(t) ==
  /\ Ready /\ ~closing /\ live = t
  /\ Invalidate(t, "cancel")
  /\ UNCHANGED live

ClientRestore ==
  /\ client.at = "restore"
  /\ LET t == client.on IN
       /\ Claim(t)
       /\ client' = IF Claims(t)
                    THEN [client EXCEPT !.at = "restoring", !.held = snapshots[t]]
                    ELSE Goes(client, client.then)
  /\ UNCHANGED <<line, future, tracked, snapshots, invalidated, complete, range, outcome,
                 closing, closed, agent, worker, live>>

ClientRestoring ==
  /\ client.at = "restoring"
  /\ memory' = client.held
  /\ client' = Goes(client, client.then)
  /\ UNCHANGED <<driver, requests, dropped, marked, worker, live>>

(* Future.cancel, which only a future that is still in the queue obeys.     *)
CancelFuture ==
  /\ client.at = "cancel"
  /\ LET t == client.on IN
       IF t \in tracked /\ future[t] = "pending"
       THEN /\ future' = [future EXCEPT ![t] = "canceled"]
            /\ Forget({t})
            /\ range' = [range EXCEPT ![t] = [status |-> "canceled_before_provider_call",
                                              from |-> Len(requests), to |-> Len(requests)]]
            /\ client' = [client EXCEPT !.at = "stop", !.told = {"queued_future_canceled"}]
       ELSE /\ client' = Goes(client, "stop")
            /\ UNCHANGED <<future, tracked, closed, range>>
  /\ UNCHANGED <<line, snapshots, snapped, invalidated, complete, rolledBack, outcome, closing,
                 agent, worker, live>>

(* The agent is in its call for the turn: it has asked the provider and has *)
(* not returned.                                                            *)
InCall(t) ==
  /\ worker.job = t
  /\ AtStep("reply") \/ (AtStep("request") /\ range[t].from < Len(requests))

(* cancel_realtime_turn of the agent: it closes the stream of a running     *)
(* request, and otherwise keeps the turn from making its first or next one. *)
(* It does nothing for a turn the agent has not begun or has ended.         *)
StopAgent ==
  /\ client.at = "stop"
  /\ \/ /\ HardCancel /\ worker.job = client.on /\ worker.at \in {"request", "reply"}
        /\ dropped' = dropped \cup {client.on}
        /\ \E transport \in {{}} \cup
               (IF worker.at = "reply" THEN {{"provider_stream_canceled"}} ELSE {}) :
             client' = [client EXCEPT !.at = "outcome", !.told = @ \cup transport]
     \/ /\ ~(HardCancel /\ InCall(client.on))
        /\ client' = Goes(client, "outcome")
        /\ UNCHANGED dropped
  /\ UNCHANGED <<driver, memory, requests, marked, worker, live>>

(* cancel_turn stores the outcome as a new record. *)
Told(t) == client.told
StoreOutcome ==
  /\ client.at = "outcome"
  /\ outcome' = [outcome EXCEPT ![client.on] = Told(client.on)]
  /\ client' = Goes(client, "ready")
  /\ live' = Nothing
  /\ UNCHANGED <<line, future, tracked, snapshots, snapped, invalidated, complete,
                 rolledBack, range, closing, closed, agent, worker>>

(* cancellation_outcome, which the coordinator asks for again and again. *)
AskOutcome(t) ==
  /\ client.at \in {"ready", "gone"}
  /\ Merged(t)
  /\ UNCHANGED <<line, future, tracked, snapshots, snapped, invalidated, complete,
                 rolledBack, closing, closed, agent, worker, client, live>>

(* close: refuse more work, withdraw what has not begun, and close the      *)
(* agent now, after the worker, or leave it to the last piece of work.      *)
Close(waits) ==
  /\ Ready /\ ~closing /\ live = Nothing
  /\ closing' = TRUE
  /\ client' = [client EXCEPT !.at = "shutdown", !.on = Nothing,
                  !.waits = (waits \/ tracked = {})]
  /\ UNCHANGED <<line, future, tracked, snapshots, snapped, invalidated, complete,
                 rolledBack, range, outcome, closed, agent, worker, live>>

Waiting == {w \in Work : future[w] = "pending"}

Shutdown ==
  /\ client.at = "shutdown"
  /\ future' = [w \in Work |-> IF w \in Waiting THEN "canceled" ELSE future[w]]
  /\ line' = <<>>
  /\ Forget(Waiting)
  /\ client' = Goes(client, "join")
  /\ UNCHANGED <<snapshots, snapped, invalidated, complete, rolledBack, range, outcome,
                 closing, agent, worker, live>>

\* mutant: close leaves nothing to the last piece of work
JoinAtOnce ==
  /\ client.at = "join"
  /\ closed' = TRUE
  /\ client' = Goes(client, "gone")
  /\ UNCHANGED <<line, future, tracked, snapshots, snapped, invalidated, complete,
                 rolledBack, range, outcome, closing, agent, worker, live>>

Join ==
  /\ client.at = "join"
  /\ client.waits => AtStep("idle")
  /\ closed' = (closed \/ client.waits)
  /\ client' = Goes(client, "gone")
  /\ UNCHANGED <<line, future, tracked, snapshots, snapped, invalidated, complete,
                 rolledBack, range, outcome, closing, agent, worker, live>>

ClientStep ==
  \/ Submit \/ Track \/ ClientRestore \/ ClientRestoring \/ CancelFuture \/ StopAgent
  \/ StoreOutcome \/ Shutdown \/ Join

Next ==
  \/ WorkerStep
  \/ ClientStep
  \/ \E t \in Turns : StartTurn(t) \/ CommitTurn(t) \/ RollBackTurn(t) \/ CancelTurn(t)
                      \/ AskOutcome(t)
  \/ \E o \in Observations : IngestObservation(o)
  \/ \E waits \in BOOLEAN : Close(waits)

Spec == Init /\ [][Next]_vars

(* The worker goes on, provider calls end, and a call of the caller ends. *)
FairSpec == Spec /\ WF_vars(WorkerStep) /\ WF_vars(ClientStep)

----------------------------------------------------------------------------
(* What the driver promises *)

(* A turn's snapshot is being written back by one of the two threads. *)
BeingRestored(t) ==
  \/ worker.at = "restoring" /\ worker.job = t
  \/ client.at = "restoring" /\ client.on = t

Undone(t) ==
  \/ t \in rolledBack /\ ~BeingRestored(t)
  \/ worker.at = "abandoned" /\ worker.job = t
  \/ t \in complete /\ t \notin snapped /\ t \notin rolledBack

Asking == {"snapshot", "register", "abandon", "request", "reply", "settle"}

Phase(t) ==
  CASE future[t] = "none"     -> "unused"
    [] future[t] = "pending"  -> "queued"
    [] future[t] = "canceled" -> "canceled"
    [] Undone(t)              -> "undone"
    [] future[t] = "running" /\ worker.at \in Asking -> "running"
    [] future[t] = "done" /\ t \notin complete      -> "committed"
    [] OTHER                  -> "acted"

(* An observation is at the head of the line until it is in the memory. *)
Line == IF AtStep("absorb") THEN <<worker.job>> \o line ELSE line

Transactions ==
  INSTANCE TurnTransactions WITH phase <- [t \in Turns |-> Phase(t)], line <- Line

(* Whatever the moment at which a turn is canceled, the two threads together *)
(* carry out one transaction for it: its writes leave the agent's memory     *)
(* once, and nobody else's writes leave with them.                           *)
ImplementsTransactions == Transactions!Spec

(* The execution fence: an invalidated turn that is over, and whose restore  *)
(* neither thread still has to make, has left nothing in the agent's memory. *)
NoTrace ==
  \A t \in invalidated :
    (Finished(t) /\ (client.on = t => client.at \notin {"restore", "restoring"}))
      => t \notin memory

(* The audit range of a turn that is settled holds that turn's provider      *)
(* requests and no other's, canceled turns and turns that queued included.   *)
OwnRange ==
  \A t \in Turns :
    range[t].status \notin {"none", "queued", "running"} => \A i \in 1..Len(requests) : (requests[i] = t) <=> (range[t].from < i /\ i <= range[t].to)

(* The agent is closed only when no work of it is left that could still run. *)
ClosedAfterWork ==
  closed => /\ \A w \in Work : future[w] \notin {"pending", "running"}
            /\ client.at \notin {"restore", "restoring"}

(* Work in the queue is done or withdrawn, every call of the caller returns, *)
(* cancellation of a turn at any moment of it included, and a driver that is *)
(* being closed closes the agent, by whichever thread comes last.            *)
WorkEnds ==
  /\ \A w \in Work : (future[w] = "pending") ~> Finished(w)
  /\ (client.at \notin {"ready", "gone"}) ~> (client.at \in {"ready", "gone"})
  /\ closing ~> closed

(* is_valid_zero_request_cancellation: a turn canceled before it reached the *)
(* provider carries that proof in its outcome as well as in its range.       *)
ProofIsKept ==
  \A t \in Turns :
    (range[t].status = "canceled_before_transport" /\ (client.on = t => Ready))
      => "pretransport_canceled" \in outcome[t]
=============================================================================
