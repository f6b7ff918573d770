---------------------------- MODULE TurnDriverProofs ----------------------------
(***************************************************************************)
(* Theorems about TurnDriver, for any turns, observations and bound on the  *)
(* provider's requests, and for agents with and without a hard cancel.      *)
(*                                                                         *)
(* The driver's two threads share no lock while a snapshot is taken or      *)
(* written back.  What keeps them apart is a set of facts about who may be  *)
(* where, collected in Inv:                                                 *)
(*   - WorkerOk, LineOk, ClientOk, TrackedOk: the two threads, the queue    *)
(*     and the futures agree;                                               *)
(*   - LiveOk, TurnsOk: the coordinator has one undecided turn at a time,   *)
(*     and of a turn's worker and caller only one restores it;              *)
(*   - Claimable, Written, Held: while a snapshot can still be claimed,     *)
(*     nobody but its turn has written since it was taken, so that writing  *)
(*     it back takes out that turn's writes and nothing else;               *)
(*   - Erased, Ranges: what the theorems NothingLeftBehind and              *)
(*     RangesAreExact say, at every step on the way.                        *)
(* The last part maps each step of the two threads to a step of             *)
(* TurnTransactions, or to none.                                            *)
(***************************************************************************)
EXTENDS TurnDriver, SequenceTheorems, TLAPS

(* The types of the records, as in TypeOK. *)
WorkerRec == [at: Stages, job: Work \cup {Nothing}, held: SUBSET Work, condemned: BOOLEAN]
ClientRec == [at: Calls, on: Work \cup {Nothing}, held: SUBSET Work,
              then: {"ready", "cancel"}, told: SUBSET Marks, waits: BOOLEAN]
RangeRec == [status: Audits, from: Nat, to: Nat]
Futures == {"none", "pending", "running", "done", "canceled"}

(* The worker's stages: in a turn, writing, after the agent's answer, with  *)
(* a future that runs.                                                      *)
TurnStages == Stages \ {"idle", "absorb", "finish", "forget"}
Writing == {"request", "reply", "settle"}
After == {"merge", "restore", "restoring", "finish"}
Busy == worker.at \notin {"idle", "forget"}
AtTurn(t, S) == worker.job = t /\ worker.at \in S

(* The caller's steps in a rollback or a cancellation. *)
CanceledCall == {"restore", "restoring", "cancel", "stop", "outcome"}

(* No work but t is under way. *)
Quiet(t) == \A w \in Work \ {t} : future[w] \notin {"pending", "running"}

----------------------------------------------------------------------------
(* The invariant *)

(* The future that runs is the one of the worker's job. *)
WorkerOk ==
  /\ worker.at \in TurnStages => worker.job \in Turns
  /\ worker.at = "absorb" => worker.job \in Observations
  /\ worker.at \in {"finish", "forget"} => worker.job \in Work
  /\ \A w \in Work : future[w] = "running" <=> Busy /\ worker.job = w
  /\ worker.at = "forget" => worker.job \in tracked /\ future[worker.job] = "done"

(* Work is in the queue once: all that is pending, and canceled turns. *)
LineOk ==
  /\ \A i \in DOMAIN line : future[line[i]] \in {"pending", "canceled"}
  /\ \A i \in DOMAIN line : future[line[i]] = "canceled" => line[i] \in Turns
  /\ \A i, j \in DOMAIN line : line[i] = line[j] => i = j
  /\ \A w \in Work : future[w] = "pending" => \E i \in DOMAIN line : line[i] = w

(* What the caller is about, call by call. *)
ClientOk ==
  /\ client.at \in {"submit", "track"} => client.on \in Work
  /\ client.at = "submit" => future[client.on] = "none"
  /\ client.at = "track" => future[client.on] # "none"
  /\ client.at \in CanceledCall => client.on \in invalidated
  /\ client.at \in {"restore", "restoring"} => client.on \in complete
  /\ client.at \in {"submit", "track"} /\ client.on \in Turns => client.on = live
  /\ client.at \in {"submit", "track"} /\ client.on \in Observations => live = Nothing
  /\ client.at \in {"cancel", "stop", "outcome"} => live = client.on
  /\ closing <=> client.at \in {"shutdown", "join", "gone"}
  /\ client.at \in {"join", "gone"} => Waiting = {}
  /\ client.at \in {"restore", "restoring"} /\ client.then = "cancel" => live = client.on
  /\ client.at \in {"stop", "outcome"} => future[client.on] # "pending"

(* What can still run is tracked, from the moment its call has returned.    *)
TrackedOk ==
  /\ \A w \in Work : future[w] \in {"pending", "running"}
                      => w \in tracked \/ (client.at = "track" /\ client.on = w)
  /\ \A w \in tracked : future[w] \in {"pending", "running"} \/ AtTurn(w, {"forget"})

(* One turn is undecided at a time: no observation is under way meanwhile,  *)
(* and once it runs, or has run, it is the only work left.                  *)
LiveOk ==
  /\ live # Nothing => \A o \in Observations : future[o] \notin {"pending", "running"}
  /\ \A t \in Turns : future[t] = "pending" => t = live
  /\ \A t \in Turns : future[t] = "running" /\ t \notin invalidated => t = live
  /\ live \in Turns =>
       /\ future[live] = "none" => client.at = "submit" /\ client.on = live
       /\ future[live] \in {"running", "done"} => Quiet(live)
       /\ live \in invalidated =>
            /\ client.at \in CanceledCall /\ client.on = live
            /\ client.at \in {"restore", "restoring"} => client.then = "cancel"
       /\ future[live] = "canceled" => client.at \in {"stop", "outcome"}
       /\ ~closing

(* The driver's sets of turns, and who may restore: the worker only a turn  *)
(* that it saw invalidated when it settled it, the caller only a turn that  *)
(* had settled when it was invalidated.                                     *)
TurnsOk ==
  /\ \A t \in invalidated : future[t] # "none"
  /\ \A t \in complete : future[t] = "done" \/ AtTurn(t, After)
  /\ \A t \in Turns : future[t] = "done" /\ (live = t \/ t \in invalidated) => t \in complete
  /\ \A t \in Turns : AtTurn(t, After) => t \in complete
  /\ \A t \in snapped : \/ future[t] = "done"
                        \/ AtTurn(t, {"abandon", "abandoned"} \cup Writing \cup After)
  /\ \A t \in Turns : AtTurn(t, {"abandon", "abandoned"} \cup Writing) => t \in snapped
  /\ rolledBack \subseteq complete \cap invalidated
  /\ rolledBack \cap snapped = {}
  /\ \A t \in complete : t \notin snapped => t \in invalidated
  /\ worker.at \in {"abandon", "abandoned", "restore", "restoring"} => worker.job \in invalidated
  /\ worker.at = "restoring" => worker.job \in rolledBack
  /\ client.at = "restoring" => client.on \in rolledBack
  /\ worker.at = "restoring" /\ client.at = "restoring" => worker.job # client.on
  /\ worker.at = "restore" => worker.condemned
  /\ worker.at = "merge" /\ worker.condemned => worker.job \in invalidated
  /\ worker.at \in {"merge", "restore"} /\ client.at \in {"restore", "restoring"}
       /\ worker.condemned => worker.job # client.on

(* A snapshot that is still there can be committed, or has one thread that  *)
(* will claim it; while it can, nothing else runs.                          *)
Claimable ==
  /\ \A t \in snapped :
     \/ t \notin invalidated /\ live = t
     \/ AtTurn(t, {"abandon", "abandoned"} \cup Writing)
     \/ AtTurn(t, {"merge", "restore"}) /\ worker.condemned
     \/ client.at = "restore" /\ client.on = t /\ Quiet(t) /\ live \in {t, Nothing}
  /\ client.at = "restoring" => Quiet(client.on) /\ live \in {client.on, Nothing}

(* Only a turn that has asked its agent has writes in the memory. *)
Written ==
  \A t \in memory \cap Turns : future[t] = "done" \/ AtTurn(t, Writing \cup After)

(* A snapshot differs from the memory by its own turn's writes only. *)
Held ==
  /\ worker.at \in {"register", "abandon"} => worker.held = memory
  /\ \A t \in snapped : snapshots[t] = memory \ {t}
  /\ worker.at = "restoring" => worker.held = memory \ {worker.job}
  /\ client.at = "restoring" => client.held = memory \ {client.on}

(* The writes of an invalidated turn that are still there can be taken out. *)
Erased ==
  \A t \in memory \cap invalidated :
     \/ AtTurn(t, {"restoring"})
     \/ client.at = "restoring" /\ client.on = t
     \/ t \in snapped

(* A turn's range, from the moment it is queued: the requests it holds are  *)
(* the turn's, and as long as it asks, those after its start.               *)
RangeOk(t) ==
  /\ range[t].from <= range[t].to /\ range[t].to <= Len(requests)
  /\ (\/ future[t] \in {"none", "pending", "canceled"}
      \/ AtTurn(t, {"snapshot", "register", "abandon", "abandoned"}))
       => \A i \in DOMAIN requests : requests[i] # t
  /\ AtTurn(t, {"abandon", "abandoned"}) => range[t].from = Len(requests)
  /\ AtTurn(t, {"abandon", "abandoned"} \cup Writing) => range[t].from = range[t].to
  /\ AtTurn(t, Writing) => \A i \in DOMAIN requests : requests[i] = t <=> range[t].from < i
  /\ AtTurn(t, {"settle"}) /\ t \in marked => range[t].from = Len(requests)
  /\ t \in marked => future[t] = "done" \/ AtTurn(t, {"settle"} \cup After)
  /\ range[t].status \notin {"none", "queued", "running"} =>
       \/ future[t] = "canceled" /\ range[t].from = range[t].to
       \/ future[t] = "done" \/ AtTurn(t, After)
       \/ AtTurn(t, {"settle"}) /\ t \in marked
  /\ future[t] = "done" \/ AtTurn(t, After) =>
       \A i \in DOMAIN requests : requests[i] = t <=> range[t].from < i /\ i <= range[t].to

Ranges == \A t \in Turns : RangeOk(t)

(* The agent is closed by the last piece of work of a driver that closes.   *)
ClosedOk ==
  closed => closing /\ \A w \in Work : future[w] \notin {"pending", "running"}

Inv == /\ TypeOK /\ WorkerOk /\ LineOk /\ ClientOk /\ TrackedOk /\ LiveOk /\ TurnsOk
       /\ Claimable /\ Written /\ Held /\ Erased /\ Ranges

(* What Inv says of the types, for the steps that need no more of TypeOK.   *)
LEMMA InvTypes ==
  ASSUME Inv
  PROVE  /\ Turns \cap Observations = {} /\ Nothing \notin Work
         /\ worker \in WorkerRec
         /\ client \in ClientRec
         /\ future \in [Work -> Futures]
         /\ line \in Seq(Work)
         /\ range \in [Turns -> RangeRec]
         /\ tracked \subseteq Work
         /\ live \in Turns \cup {Nothing}
         /\ requests \in Seq(Turns) /\ Len(requests) \in Nat
         /\ snapshots \in [Turns -> SUBSET Work]
         /\ invalidated \subseteq Turns /\ complete \subseteq Turns
         /\ rolledBack \subseteq Turns /\ snapped \subseteq Turns
         /\ memory \subseteq Work
BY WorkAssumption DEF TypeOK, WorkerRec, ClientRec, RangeRec, Futures, Inv

----------------------------------------------------------------------------
(* Sequences *)
\* the places of a sequence that grows
LEMMA AppendIndexes ==
  ASSUME NEW S, NEW q \in Seq(S), NEW e \in S
  PROVE  /\ DOMAIN q = 1..Len(q) /\ DOMAIN Append(q, e) = 1..(Len(q) + 1)
         /\ Len(q) \in Nat /\ Len(Append(q, e)) = Len(q) + 1
         /\ \A i \in DOMAIN q : Append(q, e)[i] = q[i]
         /\ Append(q, e)[Len(q) + 1] = e
OBVIOUS

\* the places of a queue without its head
LEMMA TailIndexes ==
  ASSUME NEW S, NEW q \in Seq(S), q # <<>>
  PROVE  /\ DOMAIN q = 1..Len(q) /\ Len(q) \in Nat \ {0} /\ 1 \in DOMAIN q
         /\ Head(q) = q[1] /\ q[1] \in S /\ Tail(q) \in Seq(S)
         /\ DOMAIN Tail(q) = 1..(Len(q) - 1)
         /\ \A i \in DOMAIN Tail(q) : Tail(q)[i] = q[i + 1] /\ i + 1 \in DOMAIN q \ {1}
         /\ \A i \in DOMAIN q \ {1} : i - 1 \in DOMAIN Tail(q) /\ Tail(q)[i - 1] = q[i]
         /\ \A i, j \in DOMAIN Tail(q) : i + 1 = j + 1 => i = j
OBVIOUS

\* a sequence with an element put in front
LEMMA Prepend ==
  ASSUME NEW S, NEW q \in Seq(S), NEW e \in S
  PROVE  /\ <<e>> \o q \in Seq(S) /\ <<e>> \o q # <<>>
         /\ Head(<<e>> \o q) = e /\ Tail(<<e>> \o q) = q
         /\ Len(<<e>> \o q) = Len(q) + 1
         /\ (<<e>> \o q)[1] = e
         /\ \A i \in 1..Len(q) : (<<e>> \o q)[i + 1] = q[i]
OBVIOUS

\* what is appended to it
LEMMA PrependAppend ==
  ASSUME NEW S, NEW q \in Seq(S), NEW e \in S, NEW f \in S
  PROVE Append(<<e>> \o q, f) = <<e>> \o Append(q, f)
OBVIOUS

\* a queue is its head and the rest
LEMMA PrependTail ==
  ASSUME NEW S, NEW q \in Seq(S), q # <<>>
  PROVE <<Head(q)>> \o Tail(q) = q
OBVIOUS

\* what is left of it when it is cut
LEMMA Cuts ==
  ASSUME NEW S, NEW q \in Seq(S), NEW e \in S
  PROVE SubSeq(<<e>> \o q, 1, 1) = <<e>> /\ SubSeq(q, 1, 0) = <<>> /\ <<e>> \o <<>> = <<e>>
<1>1. SubSeq(q, 1, 0) = <<>>
  OBVIOUS
<1>2. <<e>> \o <<>> = <<e>>
  OBVIOUS
<1>3. SubSeq(<<e>> \o q, 1, 1) = <<e>>
  <2> DEFINE r == <<e>> \o q
  <2>1. r \in Seq(S) /\ Len(r) \in Nat /\ Len(r) >= 1 /\ r[1] = e
    OBVIOUS
  <2> HIDE DEF r
  <2>2. SubSeq(r, 1, 1) \in Seq(S) /\ Len(SubSeq(r, 1, 1)) = 1 /\ SubSeq(r, 1, 1)[1] = r[1]
    BY <2>1
  <2>3. \A q1, q2 \in Seq(S) : Len(q1) = 1 /\ Len(q2) = 1 /\ q1[1] = q2[1] => q1 = q2
    OBVIOUS
  <2>4. <<r[1]>> \in Seq(S) /\ Len(<<r[1]>>) = 1 /\ <<r[1]>>[1] = r[1]
    BY <2>1
  <2> QED BY <2>1, <2>2, <2>3, <2>4 DEF r
<1> QED BY <1>1, <1>2, <1>3

----------------------------------------------------------------------------
(* What single steps do *)
\* what becomes of the client when it withdraws a future
LEMMA CancelFutureMoves ==
  ASSUME TypeOK, ClientOk, CancelFuture
  PROVE  /\ client.at = "cancel" /\ client.on \in Turns
         /\ client'.at = "stop" /\ client' \in ClientRec
         /\ client'.on = client.on /\ client'.then = client.then
         /\ UNCHANGED <<line, snapshots, snapped, invalidated, complete, rolledBack, outcome,
                        closing, agent, worker, live>>
         /\ \/ /\ client.on \in tracked /\ future[client.on] = "pending"
               /\ future' = [future EXCEPT ![client.on] = "canceled"]
               /\ tracked' = tracked \ {client.on}
               /\ range' = [range EXCEPT ![client.on] =
                             [status |-> "canceled_before_provider_call",
                              from |-> Len(requests), to |-> Len(requests)]]
            \/ /\ ~(client.on \in tracked /\ future[client.on] = "pending")
               /\ UNCHANGED <<future, tracked, closed, range>>
<1>1. client \in ClientRec /\ client.on \in Turns
  BY DEF TypeOK, ClientRec, ClientOk, CanceledCall, CancelFuture
<1>2. client' \in ClientRec /\ client'.at = "stop" /\ client'.on = client.on
      /\ client'.then = client.then
  <2>1. CASE client' = [client EXCEPT !.at = "stop", !.told = {"queued_future_canceled"}]
    BY <1>1, <2>1 DEF ClientRec, Calls, Marks
  <2>2. CASE client' = Goes(client, "stop")
    BY <1>1, <2>2 DEF Goes, ClientRec, Calls
  <2> QED
    BY <2>1, <2>2 DEF CancelFuture
<1> QED
  BY <1>1, <1>2 DEF CancelFuture, Forget

\* what becomes of the client when it tells the agent to stop
LEMMA StopMoves ==
  ASSUME TypeOK, StopAgent
  PROVE  /\ client.at = "stop" /\ client'.at = "outcome" /\ client' \in ClientRec
         /\ client'.on = client.on /\ client'.then = client.then
         /\ UNCHANGED <<line, future, tracked, snapshots, snapped, invalidated, complete,
                        rolledBack, range, outcome, closing, closed, memory, requests,
                        marked, worker, live>>
<1>1. client \in ClientRec
  BY DEF TypeOK, ClientRec
<1>2. ASSUME client' = Goes(client, "outcome")
      PROVE  client'.at = "outcome" /\ client' \in ClientRec
             /\ client'.on = client.on /\ client'.then = client.then
  BY <1>1, <1>2 DEF Goes, ClientRec, Calls
<1>3. ASSUME NEW m \in SUBSET Marks, client' = [client EXCEPT !.at = "outcome", !.told = @ \cup m]
      PROVE  client'.at = "outcome" /\ client' \in ClientRec
             /\ client'.on = client.on /\ client'.then = client.then
  BY <1>1, <1>3 DEF ClientRec, Calls
<1> QED
  BY ZenonT(30), <1>2, <1>3 DEF StopAgent, Marks, driver

\* a turn that settles is condemned if it was invalidated meanwhile
LEMMA SettleMoves ==
  ASSUME TypeOK, WorkerOk, Settle
  PROVE  /\ worker.at = "settle" /\ worker.job \in Turns /\ worker' \in WorkerRec
         /\ worker'.at = "merge" /\ worker'.job = worker.job /\ worker'.held = worker.held
         /\ worker'.condemned <=> worker.job \in invalidated
         /\ complete' = complete \cup {worker.job}
         /\ dropped' = dropped \ {worker.job}
         /\ UNCHANGED <<line, future, tracked, snapshots, snapped, invalidated, rolledBack,
                        outcome, closing, closed, memory, requests, marked, client, live>>
<1>1. worker.at = "settle" /\ worker.job \in Turns /\ worker \in WorkerRec
  BY DEF Settle, AtStep, WorkerOk, TurnStages, Stages, TypeOK, WorkerRec
<1> DEFINE b == worker.job \in invalidated
<1>2. worker' = [worker EXCEPT !.at = "merge", !.condemned = b]
  BY DEF Settle
<1>3. b \in BOOLEAN
  OBVIOUS
<1> HIDE DEF b
<1>4. worker' \in WorkerRec /\ worker'.at = "merge" /\ worker'.job = worker.job
      /\ worker'.held = worker.held /\ worker'.condemned = b
  BY <1>1, <1>2, <1>3 DEF WorkerRec, Stages
<1> QED
  BY <1>1, <1>4 DEF Settle, b

----------------------------------------------------------------------------
(* Types *)
\* the worker keeps its type
LEMMA WorkerTyped ==
  ASSUME TypeOK, WorkerOk, [Next]_vars
  PROVE  worker' \in WorkerRec
<1> USE DEF TypeOK, WorkerRec, Stages, Work, Goes, AtStep, driver, agent
<1>1. CASE Take
  <2>1. Head(line) \in Work
    BY <1>1 DEF Take
  <2> QED
    BY <1>1, <2>1 DEF Take
<1>2. CASE Snapshot
  BY <1>2 DEF Snapshot
<1>3. CASE Register
  BY <1>3 DEF Register, Begins
<1>4. CASE Abandon
  BY <1>4 DEF Abandon
<1>5. CASE Abandoned
  BY <1>5 DEF Abandoned
<1>6. CASE Request
  BY ZenonT(30), <1>6 DEF Request
<1>7. CASE GiveUp
  BY <1>7 DEF GiveUp
<1>8. CASE Reply
  BY ZenonT(30), <1>8 DEF Reply
<1>9. CASE Settle
  <2>1. worker.at \in Stages /\ (worker.job \in invalidated) \in BOOLEAN
    OBVIOUS
  <2> QED
    BY <1>9, <2>1 DEF Settle
<1>10. CASE Merge
  BY <1>10 DEF Merge, Merged
<1>11. CASE Restore
  BY <1>11 DEF Restore, Claim, Claims
<1>12. CASE Restoring
  BY <1>12 DEF Restoring
<1>13. CASE Absorb
  BY <1>13 DEF Absorb
<1>14. CASE Finish
  BY <1>14 DEF Finish
<1>15. CASE ForgetJob
  BY <1>15 DEF ForgetJob, Forget
<1>16. CASE UNCHANGED worker
  BY <1>16
<1> QED
  BY ZenonT(30), <1>1, <1>2, <1>3, <1>4, <1>5, <1>6, <1>7, <1>8, <1>9, <1>10, <1>11, <1>12,
    <1>13, <1>14, <1>15, <1>16 DEF Next, WorkerStep, ClientStep, vars, Skip, Submit,
    Track, Finished, ClientRestore, Claim, Claims, ClientRestoring, CancelFuture,
    Forget, StopAgent, StoreOutcome, Told, Shutdown, Waiting, Join, StartTurn, Ready,
    CommitTurn, RollBackTurn, Invalidate, CancelTurn, AskOutcome, Merged,
    IngestObservation, Close

\* the caller keeps its type
LEMMA ClientTyped ==
  ASSUME TypeOK, ClientOk, [Next]_vars
  PROVE  client' \in ClientRec
<1> USE DEF TypeOK, ClientRec, Calls, Marks, Work, Goes, driver, agent
<1>1. CASE Submit
  BY <1>1 DEF Submit
<1>2. CASE Track
  BY <1>2 DEF Track, Finished
<1>3. CASE ClientRestore
  BY <1>3 DEF ClientRestore, Claim, Claims
<1>4. CASE ClientRestoring
  BY <1>4 DEF ClientRestoring
<1>5. CASE CancelFuture
  BY <1>5, CancelFutureMoves
<1>6. CASE StopAgent
  BY <1>6, StopMoves
<1>7. CASE StoreOutcome
  BY <1>7 DEF StoreOutcome, Told
<1>8. CASE Shutdown
  BY <1>8 DEF Shutdown, Forget, Waiting
<1>9. CASE Join
  BY <1>9 DEF Join
<1>10. ASSUME NEW t \in Turns, StartTurn(t) PROVE client' \in ClientRec
  BY <1>10 DEF StartTurn, Ready
<1>11. ASSUME NEW t \in Turns, RollBackTurn(t) PROVE client' \in ClientRec
  BY <1>11 DEF RollBackTurn, Invalidate, Ready
<1>12. ASSUME NEW t \in Turns, CancelTurn(t) PROVE client' \in ClientRec
  BY <1>12 DEF CancelTurn, Invalidate, Ready
<1>13. ASSUME NEW o \in Observations, IngestObservation(o) PROVE client' \in
  ClientRec
  BY <1>13 DEF IngestObservation, Ready
<1>14. ASSUME NEW waits \in BOOLEAN, Close(waits) PROVE client' \in ClientRec
  <2>1. client' = [client EXCEPT !.at = "shutdown", !.on = Nothing,
                                 !.waits = (waits \/ tracked = {})]
    BY <1>14 DEF Close
  <2>2. (waits \/ tracked = {}) \in BOOLEAN
    OBVIOUS
  <2> QED
    BY ZenonT(30), <2>1, <2>2
<1>15. CASE UNCHANGED client
  BY <1>15
<1> QED
  BY <1>1, <1>2, <1>3, <1>4, <1>5, <1>6, <1>7, <1>8, <1>9, <1>10, <1>11, <1>12,
    <1>13, <1>14, <1>15 DEF Next, WorkerStep, ClientStep, vars, Take, Skip, Snapshot,
    Register, Begins, Abandon, Abandoned, Request, GiveUp, Reply, Settle, Merge,
    Merged, Restore, Claim, Claims, Restoring, Absorb, Finish, ForgetJob, Forget,
    CommitTurn, Ready, AskOutcome

\* the audit ranges
LEMMA RangeTyped ==
  ASSUME TypeOK, WorkerOk, ClientOk, [Next]_vars
  PROVE  range' \in [Turns -> RangeRec]
<1> /\ range \in [Turns -> RangeRec] /\ Len(requests) \in Nat
    /\ worker.at \in TurnStages => worker.job \in Turns
    /\ client.at = "cancel" => client.on \in Turns
  BY DEF TypeOK, RangeRec, WorkerOk, ClientOk, CanceledCall
<1> USE DEF RangeRec, Audits, Goes, AtStep, driver, agent
<1>1. CASE Register
  BY <1>1 DEF Register, Begins, TurnStages, Stages
<1>2. CASE Abandoned
  BY <1>2 DEF Abandoned, TurnStages, Stages
<1>3. CASE Settle
  BY <1>3 DEF Settle, TurnStages, Stages
<1>4. CASE Merge
  BY SMTT(30), <1>4 DEF Merge, Merged, TurnStages, Stages
<1>5. CASE CancelFuture
  BY SMTT(30), <1>5, CancelFutureMoves
<1>6. ASSUME NEW t \in Turns, StartTurn(t) PROVE range' \in [Turns -> RangeRec]
  BY <1>6 DEF StartTurn, Ready
<1>7. ASSUME NEW t \in Turns, AskOutcome(t) PROVE range' \in [Turns -> RangeRec]
  <2>1. \/ range' = range
        \/ range' = [range EXCEPT ![t].status = "canceled_before_transport"]
    BY <1>7 DEF AskOutcome, Merged
  <2> QED
    BY <2>1
<1>8. CASE UNCHANGED range
  BY <1>8
<1> QED
  BY ZenonT(30), <1>1, <1>2, <1>3, <1>4, <1>5, <1>6, <1>7, <1>8 DEF Next, WorkerStep, ClientStep,
    vars, Take, Skip, Snapshot, Abandon, Request, GiveUp, Reply, Restore, Claim,
    Claims, Restoring, Absorb, Finish, ForgetJob, Forget, Submit, Track, Finished,
    ClientRestore, ClientRestoring, StopAgent, StoreOutcome, Told, Shutdown, Waiting,
    Join, CommitTurn, Ready, RollBackTurn, Invalidate, CancelTurn, IngestObservation,
    Close

\* the queue
LEMMA LineTyped ==
  ASSUME TypeOK, WorkerOk, ClientOk, [Next]_vars
  PROVE  line' \in Seq(Work)
<1> /\ line \in Seq(Work) /\ future \in [Work -> Futures]
    /\ client.at = "submit" => client.on \in Work
  BY DEF TypeOK, Futures, ClientOk
<1> USE DEF Futures, Goes, AtStep, driver, agent
<1>1. CASE Take
  BY <1>1 DEF Take
<1>2. CASE Skip
  BY <1>2 DEF Skip
<1>3. CASE Submit
  BY <1>3 DEF Submit
<1>4. CASE Shutdown
  BY <1>4 DEF Shutdown, Forget, Waiting
<1>5. CASE UNCHANGED line
  BY <1>5
<1> QED
  BY ZenonT(30), <1>1, <1>2, <1>3, <1>4, <1>5 DEF Next, WorkerStep, ClientStep, vars, Snapshot,
    Register, Begins, Abandon, Abandoned, Request, GiveUp, Reply, Settle, Merge,
    Merged, Restore, Claim, Claims, Restoring, Absorb, Finish, ForgetJob, Forget,
    Track, Finished, ClientRestore, ClientRestoring, CancelFuture, StopAgent,
    StoreOutcome, Told, Join, StartTurn, Ready, CommitTurn, RollBackTurn, Invalidate,
    CancelTurn, AskOutcome, IngestObservation, Close

\* the futures
LEMMA FutureTyped ==
  ASSUME TypeOK, WorkerOk, ClientOk, [Next]_vars
  PROVE  future' \in [Work -> Futures]
<1> /\ line \in Seq(Work) /\ future \in [Work -> Futures]
    /\ client.at = "submit" => client.on \in Work
  BY DEF TypeOK, Futures, ClientOk
<1> USE DEF Futures, Goes, AtStep, driver, agent
<1>1. CASE Take
  BY <1>1 DEF Take
<1>2. CASE Finish
  BY ZenonT(30), <1>2 DEF Finish
<1>3. CASE Submit
  BY <1>3 DEF Submit
<1>4. CASE CancelFuture
  BY <1>4, CancelFutureMoves
<1>5. CASE Shutdown
  BY <1>5 DEF Shutdown, Forget, Waiting
<1>6. CASE UNCHANGED future
  BY <1>6
<1> QED
  BY ZenonT(30), <1>1, <1>2, <1>3, <1>4, <1>5, <1>6 DEF Next, WorkerStep, ClientStep, vars, Skip,
    Snapshot, Register, Begins, Abandon, Abandoned, Request, GiveUp, Reply, Settle,
    Merge, Merged, Restore, Claim, Claims, Restoring, Absorb, ForgetJob, Forget,
    Track, Finished, ClientRestore, ClientRestoring, StopAgent, StoreOutcome, Told,
    Join, StartTurn, Ready, CommitTurn, RollBackTurn, Invalidate, CancelTurn,
    AskOutcome, IngestObservation, Close

\* the outcomes
LEMMA OutcomeTyped ==
  ASSUME TypeOK, [Next]_vars
  PROVE  outcome' \in [Turns -> SUBSET Marks]
<1> outcome \in [Turns -> SUBSET Marks] /\ client.told \in SUBSET Marks
  BY DEF TypeOK
<1> USE DEF Goes, AtStep, Marks, driver, agent
<1>1. CASE Abandoned
  BY <1>1 DEF Abandoned
<1>2. CASE Merge
  BY <1>2 DEF Merge, Merged
<1>3. CASE StoreOutcome
  BY <1>3 DEF StoreOutcome, Told
<1>4. ASSUME NEW t \in Turns, AskOutcome(t) PROVE outcome' \in [Turns -> SUBSET
  Marks]
  BY <1>4 DEF AskOutcome, Merged
<1>5. CASE UNCHANGED outcome
  BY <1>5
<1> QED
  BY ZenonT(30), <1>1, <1>2, <1>3, <1>4, <1>5 DEF Next, WorkerStep, ClientStep, vars, Take, Skip,
    Snapshot, Register, Begins, Abandon, Request, GiveUp, Reply, Settle, Restore,
    Claim, Claims, Restoring, Absorb, Finish, ForgetJob, Forget, Submit, Track,
    Finished, ClientRestore, ClientRestoring, CancelFuture, StopAgent, Shutdown,
    Waiting, Join, StartTurn, Ready, CommitTurn, RollBackTurn, Invalidate,
    CancelTurn, IngestObservation, Close

(* The types of the other variables. *)
SetsTyped ==
  /\ tracked \subseteq Work
  /\ snapshots \in [Turns -> SUBSET Work] /\ snapped \subseteq Turns
  /\ invalidated \subseteq Turns /\ complete \subseteq Turns /\ rolledBack \subseteq Turns
  /\ closing \in BOOLEAN /\ closed \in BOOLEAN
  /\ memory \subseteq Work
  /\ requests \in Seq(Turns)
  /\ dropped \subseteq Turns /\ marked \subseteq Turns
  /\ live \in Turns \cup {Nothing}

\* the other variables keep their types
LEMMA SetsStep ==
  ASSUME TypeOK, WorkerOk, ClientOk, [Next]_vars
  PROVE  SetsTyped'
<1> SetsTyped
  BY DEF TypeOK, SetsTyped
<1> /\ worker.at \in Stages /\ client.at \in Calls
    /\ worker.held \subseteq Work /\ client.held \subseteq Work
    /\ worker.job \in Work \cup {Nothing} /\ client.on \in Work \cup {Nothing}
    /\ worker.at = "absorb" => worker.job \in Work
    /\ worker.at \in TurnStages => worker.job \in Turns /\ worker.job \in Work
    /\ client.at \in {"submit", "track"} => client.on \in Work
    /\ client.at \in CanceledCall => client.on \in Turns
  BY DEF TypeOK, WorkerOk, ClientOk, Work
<1> USE DEF TurnStages, Stages, CanceledCall
<1> USE DEF SetsTyped, Goes, AtStep, driver, agent
<1>1. CASE Register
  BY <1>1 DEF Register, Begins
<1>2. CASE Abandon
  BY <1>2 DEF Abandon
<1>3. CASE Abandoned
  BY <1>3 DEF Abandoned
<1>4. CASE Request
  <2>1. CASE requests' = requests
    BY <1>4, <2>1 DEF Request
  <2>2. CASE requests' = Append(requests, worker.job)
    BY <1>4, <2>2 DEF Request
  <2> QED
    BY <1>4, <2>1, <2>2 DEF Request
<1>5. CASE GiveUp
  BY <1>5 DEF GiveUp
<1>6. CASE Reply
  BY <1>6 DEF Reply
<1>7. CASE Settle
  BY <1>7, SettleMoves
<1>8. CASE Restore
  BY <1>8 DEF Restore, Claim, Claims
<1>9. CASE Restoring
  BY <1>9 DEF Restoring
<1>10. CASE Absorb
  BY <1>10 DEF Absorb
<1>11. CASE ForgetJob
  BY <1>11 DEF ForgetJob, Forget
<1>12. CASE Track
  BY <1>12 DEF Track, Finished
<1>13. CASE ClientRestore
  BY <1>13 DEF ClientRestore, Claim, Claims
<1>14. CASE ClientRestoring
  BY <1>14 DEF ClientRestoring
<1>15. CASE CancelFuture
  BY <1>15, CancelFutureMoves DEF CancelFuture, Forget
<1>16. CASE StopAgent
  BY ZenonT(30), <1>16 DEF StopAgent
<1>17. CASE StoreOutcome
  BY <1>17 DEF StoreOutcome, Told
<1>18. CASE Shutdown
  BY <1>18 DEF Shutdown, Forget, Waiting
<1>19. CASE Join
  BY <1>19 DEF Join
<1>20. ASSUME NEW t \in Turns, StartTurn(t) PROVE SetsTyped'
  BY <1>20 DEF StartTurn, Ready
<1>21. ASSUME NEW t \in Turns, CommitTurn(t) PROVE SetsTyped'
  BY <1>21 DEF CommitTurn, Ready
<1>22. ASSUME NEW t \in Turns, RollBackTurn(t) PROVE SetsTyped'
  BY <1>22 DEF RollBackTurn, Invalidate, Ready
<1>23. ASSUME NEW t \in Turns, CancelTurn(t) PROVE SetsTyped'
  BY <1>23 DEF CancelTurn, Invalidate, Ready
<1>24. ASSUME NEW waits \in BOOLEAN, Close(waits) PROVE SetsTyped'
  BY <1>24 DEF Close, Ready
<1>25. CASE UNCHANGED <<tracked, snapshots, snapped, invalidated, complete,
  rolledBack, closing, closed, memory, requests, dropped, marked, live>>
  BY <1>25
<1> QED
  BY ZenonT(30), <1>1, <1>2, <1>3, <1>4, <1>5, <1>6, <1>7, <1>8, <1>9, <1>10, <1>11, <1>12,
    <1>13, <1>14, <1>15, <1>16, <1>17, <1>18, <1>19, <1>20, <1>21, <1>22, <1>23,
    <1>24, <1>25 DEF Next, WorkerStep, ClientStep, vars, Take, Skip, Snapshot, Merge,
    Merged, Finish, Submit, AskOutcome, IngestObservation, Ready

\* all of them together
LEMMA TypeStep ==
  ASSUME TypeOK, WorkerOk, ClientOk, [Next]_vars
  PROVE  TypeOK'
BY ZenonT(30), WorkerTyped, ClientTyped, RangeTyped, LineTyped, FutureTyped, OutcomeTyped, SetsStep
DEF TypeOK, WorkerRec, ClientRec, RangeRec, Futures, SetsTyped

----------------------------------------------------------------------------
(* Each part of the invariant is kept by every step *)
\* WorkerOk depends on these variables alone
LEMMA WorkerOkUnchanged ==
  ASSUME Inv, UNCHANGED <<worker, future, tracked>>
  PROVE  WorkerOk'
BY DEF Inv, WorkerOk, Busy

\* the thread, its job and that job's future
LEMMA WorkerOkStep ==
  ASSUME Inv, [Next]_vars
  PROVE  WorkerOk'
<1> /\ Turns \cap Observations = {} /\ Nothing \notin Work /\ worker \in WorkerRec
    /\ client \in ClientRec /\ future \in [Work -> Futures] /\ line \in Seq(Work)
    /\ tracked \subseteq Work
  BY InvTypes
<1> USE DEF Inv, Work, WorkerRec, ClientRec, Goes, AtStep, WorkerOk, TurnStages,
  Stages, Busy, AtTurn, LineOk, TrackedOk, driver, agent
<1>1. CASE Take
  BY <1>1 DEF Take
<1>2. CASE Snapshot
  BY <1>2 DEF Snapshot
<1>3. CASE Register
  BY <1>3 DEF Register, Begins
<1>4. CASE Abandon
  BY <1>4 DEF Abandon
<1>5. CASE Abandoned
  BY <1>5 DEF Abandoned
<1>6. CASE Request
  BY <1>6 DEF Request
<1>7. CASE GiveUp
  BY <1>7 DEF GiveUp
<1>8. CASE Reply
  BY <1>8 DEF Reply
<1>9. CASE Settle
  BY <1>9, SettleMoves
<1>10. CASE Merge
  BY <1>10 DEF Merge, Merged
<1>11. CASE Restore
  BY <1>11 DEF Restore, Claim, Claims
<1>12. CASE Restoring
  BY <1>12 DEF Restoring
<1>13. CASE Absorb
  BY <1>13 DEF Absorb
<1>14. CASE Finish
  BY <1>14 DEF Finish
<1>15. CASE ForgetJob
  BY <1>15 DEF ForgetJob, Forget
<1>16. CASE Submit
  BY <1>16 DEF Submit, ClientOk
<1>17. CASE Track
  BY <1>17 DEF Track, Finished
<1>18. CASE CancelFuture
  BY <1>18, CancelFutureMoves
<1>19. CASE Shutdown
  BY <1>19 DEF Shutdown, Forget, Waiting
<1>20. CASE UNCHANGED <<worker, future, tracked>>
  <2> HIDE DEF Inv, WorkerOk
  <2> QED
    BY <1>20, WorkerOkUnchanged
<1> QED
  BY ZenonT(30), <1>1, <1>2, <1>3, <1>4, <1>5, <1>6, <1>7, <1>8, <1>9, <1>10, <1>11, <1>12,
    <1>13, <1>14, <1>15, <1>16, <1>17, <1>18, <1>19, <1>20 DEF Next, WorkerStep,
    ClientStep, vars, Skip, ClientRestore, Claim, Claims, ClientRestoring, StopAgent,
    StoreOutcome, Told, Join, StartTurn, Ready, CommitTurn, RollBackTurn, Invalidate,
    CancelTurn, AskOutcome, Merged, IngestObservation, Close

\* work enters the queue with its future and leaves it at the head
LEMMA LineOkStep ==
  ASSUME Inv, [Next]_vars
  PROVE  LineOk'
<1> /\ Turns \cap Observations = {} /\ Nothing \notin Work /\ worker \in WorkerRec
    /\ client \in ClientRec /\ future \in [Work -> Futures] /\ line \in Seq(Work)
  BY InvTypes
<1> USE DEF Inv, Work, WorkerRec, ClientRec, Goes, AtStep, LineOk, ClientOk, Futures,
  WorkerOk, Busy, driver, agent
<1>1. CASE Take
  <2>1. /\ line # <<>> /\ line' = Tail(line) /\ Head(line) = line[1] /\ line[1] \in Work
        /\ future' = [future EXCEPT ![line[1]] = "running"]
    BY <1>1, TailIndexes DEF Take
  <2>2. /\ \A i \in DOMAIN line' : line'[i] # line[1]
        /\ \A i, j \in DOMAIN line' : line'[i] = line'[j] => i = j
    BY <2>1, TailIndexes
  <2>3. \A i \in DOMAIN line' : /\ future'[line'[i]] \in {"pending", "canceled"}
                                /\ future'[line'[i]] = "canceled" => line'[i] \in Turns
    BY <2>1, <2>2, TailIndexes
  <2>4. ASSUME NEW w \in Work, future'[w] = "pending"
        PROVE  \E i \in DOMAIN line' : line'[i] = w
    <3>1. PICK i \in DOMAIN line : line[i] = w /\ i # 1
      BY <2>1, <2>4
    <3>2. i - 1 \in DOMAIN line' /\ line'[i - 1] = w
      BY <2>1, <3>1, TailIndexes
    <3> QED
      BY <3>2
  <2> QED
    BY <2>2, <2>3, <2>4
<1>2. CASE Skip
  <2>1. line # <<>> /\ line' = Tail(line) /\ future' = future /\ future[line[1]] = "canceled"
    BY <1>2, TailIndexes DEF Skip
  <2>2. /\ \A i, j \in DOMAIN line' : line'[i] = line'[j] => i = j
        /\ \A i \in DOMAIN line' : /\ future'[line'[i]] \in {"pending", "canceled"}
                                   /\ future'[line'[i]] = "canceled" => line'[i] \in Turns
    BY <2>1, TailIndexes
  <2>3. ASSUME NEW w \in Work, future'[w] = "pending"
        PROVE  \E i \in DOMAIN line' : line'[i] = w
    <3>1. PICK i \in DOMAIN line : line[i] = w /\ i # 1
      BY <2>1, <2>3
    <3>2. i - 1 \in DOMAIN line' /\ line'[i - 1] = w
      BY <2>1, <3>1, TailIndexes
    <3> QED
      BY <3>2
  <2> QED
    BY <2>2, <2>3
<1>3. CASE Finish
  BY <1>3 DEF Finish
<1>4. CASE Submit
  BY SMTT(30), <1>4 DEF Submit
<1>5. CASE CancelFuture
  BY <1>5, CancelFutureMoves
<1>6. CASE Shutdown
  BY <1>6 DEF Shutdown, Forget, Waiting
<1>7. CASE UNCHANGED <<line, future>>
  BY <1>7
<1> QED
  BY ZenonT(30), <1>1, <1>2, <1>3, <1>4, <1>5, <1>6, <1>7 DEF Next, WorkerStep, ClientStep, vars,
    Snapshot, Register, Begins, Abandon, Abandoned, Request, GiveUp, Reply, Settle,
    Merge, Merged, Restore, Claim, Claims, Restoring, Absorb, ForgetJob, Forget,
    Track, Finished, ClientRestore, ClientRestoring, StopAgent, StoreOutcome, Told,
    Join, StartTurn, Ready, CommitTurn, RollBackTurn, Invalidate, CancelTurn,
    AskOutcome, IngestObservation, Close

\* the caller's calls, step by step
LEMMA ClientOkStep ==
  ASSUME Inv, [Next]_vars
  PROVE  ClientOk'
<1> /\ Turns \cap Observations = {} /\ Nothing \notin Work /\ worker \in WorkerRec
    /\ client \in ClientRec /\ future \in [Work -> Futures]
    /\ live \in Turns \cup {Nothing} /\ invalidated \subseteq Turns
    /\ complete \subseteq Turns /\ rolledBack \subseteq Turns /\ snapped \subseteq Turns
  BY InvTypes
<1> USE DEF Inv, Work, WorkerRec, ClientRec, Goes, AtStep, ClientOk, CanceledCall,
  Calls, LiveOk, TurnsOk, AtTurn, After, Busy, WorkerOk, Waiting, Quiet, driver,
  agent
<1>1. CASE Take
  BY <1>1 DEF Take
<1>2. CASE Abandoned
  BY <1>2 DEF Abandoned
<1>3. CASE Settle
  BY <1>3, SettleMoves
<1>4. CASE Finish
  BY <1>4 DEF Finish
<1>5. CASE Submit
  BY <1>5 DEF Submit
<1>6. CASE Track
  BY <1>6 DEF Track, Finished
<1>7. CASE ClientRestore
  BY <1>7 DEF ClientRestore, Claim, Claims
<1>8. CASE ClientRestoring
  BY <1>8 DEF ClientRestoring
<1>9. CASE CancelFuture
  BY <1>9, CancelFutureMoves DEF TrackedOk
<1>10. CASE StopAgent
  BY <1>10, StopMoves
<1>11. CASE StoreOutcome
  BY <1>11 DEF StoreOutcome, Told
<1>12. CASE Shutdown
  BY <1>12 DEF Shutdown, Forget, Waiting
<1>13. CASE Join
  BY <1>13 DEF Join
<1>14. ASSUME NEW t \in Turns, StartTurn(t) PROVE ClientOk'
  BY <1>14 DEF StartTurn, Ready
<1>15. ASSUME NEW t \in Turns, CommitTurn(t) PROVE ClientOk'
  BY <1>15 DEF CommitTurn, Ready
<1>16. ASSUME NEW t \in Turns, RollBackTurn(t) PROVE ClientOk'
  BY <1>16 DEF RollBackTurn, Invalidate, Ready
<1>17. ASSUME NEW t \in Turns, CancelTurn(t) PROVE ClientOk'
  BY <1>17 DEF CancelTurn, Invalidate, Ready
<1>18. ASSUME NEW o \in Observations, IngestObservation(o) PROVE ClientOk'
  BY <1>18 DEF IngestObservation, Ready
<1>19. ASSUME NEW waits \in BOOLEAN, Close(waits) PROVE ClientOk'
  BY <1>19 DEF Close, Ready
<1>20. CASE UNCHANGED <<client, closing, future, live, invalidated, complete>>
  BY <1>20
<1> QED
  BY <1>1, <1>2, <1>3, <1>4, <1>5, <1>6, <1>7, <1>8, <1>9, <1>10, <1>11, <1>12,
    <1>13, <1>14, <1>15, <1>16, <1>17, <1>18, <1>19, <1>20 DEF Next, WorkerStep,
    ClientStep, vars, Skip, Snapshot, Register, Begins, Abandon, Request, GiveUp,
    Reply, Merge, Merged, Restore, Claim, Claims, Restoring, Absorb, ForgetJob,
    Forget, AskOutcome

\* a callback forgets the work, or finds it done
LEMMA TrackedOkStep ==
  ASSUME Inv, [Next]_vars
  PROVE  TrackedOk'
<1> /\ Turns \cap Observations = {} /\ Nothing \notin Work /\ worker \in WorkerRec
    /\ client \in ClientRec /\ future \in [Work -> Futures] /\ tracked \subseteq Work
  BY InvTypes
<1> USE DEF Inv, Work, WorkerRec, ClientRec, Goes, AtStep, TrackedOk, AtTurn,
  ClientOk, WorkerOk, Busy, driver, agent
<1>1. CASE Take
  BY <1>1 DEF Take
<1>2. CASE Snapshot
  BY <1>2 DEF Snapshot
<1>3. CASE Register
  BY <1>3 DEF Register, Begins
<1>4. CASE Abandon
  BY <1>4 DEF Abandon
<1>5. CASE Abandoned
  BY <1>5 DEF Abandoned
<1>6. CASE Request
  BY <1>6 DEF Request
<1>7. CASE GiveUp
  BY <1>7 DEF GiveUp
<1>8. CASE Reply
  BY <1>8 DEF Reply
<1>9. CASE Settle
  BY <1>9, SettleMoves
<1>10. CASE Merge
  BY <1>10 DEF Merge, Merged
<1>11. CASE Restore
  BY <1>11 DEF Restore, Claim, Claims
<1>12. CASE Restoring
  BY <1>12 DEF Restoring
<1>13. CASE Absorb
  BY <1>13 DEF Absorb
<1>14. CASE Finish
  BY <1>14 DEF Finish
<1>15. CASE ForgetJob
  BY <1>15 DEF ForgetJob, Forget
<1>16. CASE Submit
  BY <1>16 DEF Submit
<1>17. CASE Track
  <2>1. CASE Finished(client.on)
    BY <1>17, <2>1 DEF Track, Finished
  <2>2. CASE ~Finished(client.on)
    BY <1>17, <2>2 DEF Track, Finished, Futures
  <2> QED
    BY <2>1, <2>2
<1>18. CASE ClientRestore
  BY <1>18 DEF ClientRestore, Claim, Claims
<1>19. CASE ClientRestoring
  BY <1>19 DEF ClientRestoring
<1>20. CASE CancelFuture
  BY <1>20, CancelFutureMoves
<1>21. CASE StopAgent
  BY <1>21, StopMoves
<1>22. CASE StoreOutcome
  BY <1>22 DEF StoreOutcome, Told
<1>23. CASE Shutdown
  BY <1>23 DEF Shutdown, Forget, Waiting
<1>24. CASE Join
  BY <1>24 DEF Join
<1>25. ASSUME NEW t \in Turns, StartTurn(t) PROVE TrackedOk'
  BY <1>25 DEF StartTurn, Ready
<1>26. ASSUME NEW t \in Turns, RollBackTurn(t) PROVE TrackedOk'
  BY <1>26 DEF RollBackTurn, Invalidate, Ready
<1>27. ASSUME NEW t \in Turns, CancelTurn(t) PROVE TrackedOk'
  BY <1>27 DEF CancelTurn, Invalidate, Ready
<1>28. ASSUME NEW o \in Observations, IngestObservation(o) PROVE TrackedOk'
  BY <1>28 DEF IngestObservation, Ready
<1>29. ASSUME NEW waits \in BOOLEAN, Close(waits) PROVE TrackedOk'
  BY <1>29 DEF Close, Ready
<1>30. CASE UNCHANGED <<client, tracked, future, worker>>
  BY SMTT(30), <1>30
<1> QED
  BY <1>1, <1>2, <1>3, <1>4, <1>5, <1>6, <1>7, <1>8, <1>9, <1>10, <1>11, <1>12,
    <1>13, <1>14, <1>15, <1>16, <1>17, <1>18, <1>19, <1>20, <1>21, <1>22, <1>23,
    <1>24, <1>25, <1>26, <1>27, <1>28, <1>29, <1>30 DEF Next, WorkerStep, ClientStep,
    vars, Skip, CommitTurn, Ready, AskOutcome, Merged

\* the coordinator has one turn undecided
LEMMA LiveOkStep ==
  ASSUME Inv, [Next]_vars
  PROVE  LiveOk'
<1> /\ Turns \cap Observations = {} /\ Nothing \notin Work /\ worker \in WorkerRec
    /\ client \in ClientRec /\ future \in [Work -> Futures]
    /\ live \in Turns \cup {Nothing} /\ tracked \subseteq Work
    /\ invalidated \subseteq Turns /\ complete \subseteq Turns
    /\ rolledBack \subseteq Turns /\ snapped \subseteq Turns /\ line \in Seq(Work)
  BY InvTypes
<1> USE DEF Inv, Work, WorkerRec, ClientRec, Goes, AtStep, LiveOk, CanceledCall,
  ClientOk, WorkerOk, Busy, TrackedOk, LineOk, AtTurn, Futures, After, TurnsOk,
  Quiet, driver, agent
<1>1. CASE Take
  BY <1>1 DEF Take
<1>2. CASE Finish
  BY <1>2 DEF Finish
<1>3. CASE Submit
  BY <1>3 DEF Submit
<1>4. CASE Track
  BY <1>4 DEF Track, Finished
<1>5. CASE ClientRestore
  BY <1>5 DEF ClientRestore, Claim, Claims
<1>6. CASE ClientRestoring
  BY <1>6 DEF ClientRestoring
<1>7. CASE CancelFuture
  BY <1>7, CancelFutureMoves
<1>8. CASE StopAgent
  BY <1>8, StopMoves
<1>9. CASE StoreOutcome
  BY <1>9 DEF StoreOutcome, Told
<1>10. CASE Shutdown
  BY <1>10 DEF Shutdown, Forget, Waiting
<1>11. CASE Join
  BY <1>11 DEF Join
<1>12. ASSUME NEW t \in Turns, StartTurn(t) PROVE LiveOk'
  BY <1>12 DEF StartTurn, Ready
<1>13. ASSUME NEW t \in Turns, CommitTurn(t) PROVE LiveOk'
  BY <1>13 DEF CommitTurn, Ready
<1>14. ASSUME NEW t \in Turns, RollBackTurn(t) PROVE LiveOk'
  BY <1>14 DEF RollBackTurn, Invalidate, Ready
<1>15. ASSUME NEW t \in Turns, CancelTurn(t) PROVE LiveOk'
  BY <1>15 DEF CancelTurn, Invalidate, Ready
<1>16. ASSUME NEW o \in Observations, IngestObservation(o) PROVE LiveOk'
  BY <1>16 DEF IngestObservation, Ready
<1>17. ASSUME NEW waits \in BOOLEAN, Close(waits) PROVE LiveOk'
  BY <1>17 DEF Close, Ready
<1>18. CASE UNCHANGED <<client, live, invalidated, closing, future>>
  BY SMTT(30), <1>18
<1> QED
  BY <1>1, <1>2, <1>3, <1>4, <1>5, <1>6, <1>7, <1>8, <1>9, <1>10, <1>11, <1>12,
    <1>13, <1>14, <1>15, <1>16, <1>17, <1>18 DEF Next, WorkerStep, ClientStep, vars,
    Skip, Snapshot, Register, Begins, Abandon, Abandoned, Request, GiveUp, Reply,
    Settle, Merge, Merged, Restore, Claim, Claims, Restoring, Absorb, ForgetJob,
    Forget, AskOutcome

\* one thread restores a turn
LEMMA TurnsOkStep ==
  ASSUME Inv, [Next]_vars
  PROVE  TurnsOk'
<1> /\ Turns \cap Observations = {} /\ Nothing \notin Work /\ worker \in WorkerRec
    /\ client \in ClientRec /\ future \in [Work -> Futures]
    /\ live \in Turns \cup {Nothing} /\ invalidated \subseteq Turns
    /\ complete \subseteq Turns /\ rolledBack \subseteq Turns /\ snapped \subseteq Turns
  BY InvTypes
<1> USE DEF Inv, Work, WorkerRec, ClientRec, Goes, AtStep, TurnsOk, CanceledCall,
  ClientOk, WorkerOk, Busy, LiveOk, AtTurn, After, Writing, TurnStages, Stages,
  Quiet, driver, agent
<1>1. CASE Take
  BY <1>1 DEF Take
<1>2. CASE Snapshot
  BY <1>2 DEF Snapshot
<1>3. CASE Register
  BY <1>3 DEF Register, Begins
<1>4. CASE Abandon
  BY <1>4 DEF Abandon
<1>5. CASE Abandoned
  BY <1>5 DEF Abandoned
<1>6. CASE Request
  BY <1>6 DEF Request
<1>7. CASE GiveUp
  BY <1>7 DEF GiveUp
<1>8. CASE Reply
  BY <1>8 DEF Reply
<1>9. CASE Settle
  BY <1>9, SettleMoves
<1>10. CASE Merge
  BY <1>10 DEF Merge, Merged
<1>11. CASE Restore
  BY <1>11 DEF Restore, Claim, Claims
<1>12. CASE Restoring
  BY <1>12 DEF Restoring
<1>13. CASE Absorb
  BY <1>13 DEF Absorb
<1>14. CASE Finish
  BY <1>14 DEF Finish
<1>15. CASE ForgetJob
  BY <1>15 DEF ForgetJob, Forget
<1>16. CASE Submit
  BY <1>16 DEF Submit
<1>17. CASE Track
  BY <1>17 DEF Track, Finished
<1>18. CASE ClientRestore
  BY <1>18 DEF ClientRestore, Claim, Claims
<1>19. CASE ClientRestoring
  BY <1>19 DEF ClientRestoring
<1>20. CASE CancelFuture
  BY <1>20, CancelFutureMoves
<1>21. CASE StopAgent
  BY <1>21, StopMoves
<1>22. CASE StoreOutcome
  BY <1>22 DEF StoreOutcome, Told
<1>23. CASE Shutdown
  BY <1>23 DEF Shutdown, Forget, Waiting
<1>24. CASE Join
  BY <1>24 DEF Join
<1>25. ASSUME NEW t \in Turns, StartTurn(t) PROVE TurnsOk'
  BY <1>25 DEF StartTurn, Ready
<1>26. ASSUME NEW t \in Turns, CommitTurn(t) PROVE TurnsOk'
  BY <1>26 DEF CommitTurn, Ready
<1>27. ASSUME NEW t \in Turns, RollBackTurn(t) PROVE TurnsOk'
  BY <1>27 DEF RollBackTurn, Invalidate, Ready
<1>28. ASSUME NEW t \in Turns, CancelTurn(t) PROVE TurnsOk'
  BY <1>28 DEF CancelTurn, Invalidate, Ready
<1>29. ASSUME NEW o \in Observations, IngestObservation(o) PROVE TurnsOk'
  BY <1>29 DEF IngestObservation, Ready
<1>30. ASSUME NEW waits \in BOOLEAN, Close(waits) PROVE TurnsOk'
  BY <1>30 DEF Close, Ready
<1>31. CASE UNCHANGED <<client, live, invalidated, complete, rolledBack, snapped,
  worker, future>>
  BY <1>31
<1> QED
  BY <1>1, <1>2, <1>3, <1>4, <1>5, <1>6, <1>7, <1>8, <1>9, <1>10, <1>11, <1>12,
    <1>13, <1>14, <1>15, <1>16, <1>17, <1>18, <1>19, <1>20, <1>21, <1>22, <1>23,
    <1>24, <1>25, <1>26, <1>27, <1>28, <1>29, <1>30, <1>31 DEF Next, WorkerStep,
    ClientStep, vars, Skip, AskOutcome, Merged

\* Claimable depends on these variables alone
LEMMA ClaimableUnchanged ==
  ASSUME Inv, UNCHANGED <<client, live, invalidated, snapped, worker, future>>
  PROVE  Claimable'
BY DEF Inv, Claimable, AtTurn, Quiet

\* nothing else begins before a snapshot is claimed
LEMMA ClaimableStep ==
  ASSUME Inv, [Next]_vars
  PROVE  Claimable'
<1> /\ Turns \cap Observations = {} /\ Nothing \notin Work /\ worker \in WorkerRec
    /\ client \in ClientRec /\ future \in [Work -> Futures]
    /\ live \in Turns \cup {Nothing} /\ invalidated \subseteq Turns
    /\ complete \subseteq Turns /\ rolledBack \subseteq Turns /\ snapped \subseteq Turns
  BY InvTypes
<1> USE DEF Inv, Work, WorkerRec, ClientRec, Goes, AtStep, Claimable, CanceledCall,
  ClientOk, WorkerOk, Busy, LiveOk, TurnsOk, AtTurn, After, Writing, TurnStages,
  Stages, Quiet, driver, agent
<1>1. CASE Take
  BY <1>1 DEF Take
<1>2. CASE Snapshot
  BY <1>2 DEF Snapshot
<1>3. CASE Register
  BY <1>3 DEF Register, Begins
<1>4. CASE Abandon
  BY <1>4 DEF Abandon
<1>5. CASE Abandoned
  BY <1>5 DEF Abandoned
<1>6. CASE Request
  BY <1>6 DEF Request
<1>7. CASE GiveUp
  BY <1>7 DEF GiveUp
<1>8. CASE Reply
  BY <1>8 DEF Reply
<1>9. CASE Settle
  BY <1>9, SettleMoves
<1>10. CASE Merge
  BY <1>10 DEF Merge, Merged
<1>11. CASE Restore
  BY <1>11 DEF Restore, Claim, Claims
<1>12. CASE Restoring
  BY <1>12 DEF Restoring
<1>13. CASE Absorb
  BY <1>13 DEF Absorb
<1>14. CASE Finish
  BY <1>14 DEF Finish
<1>15. CASE ForgetJob
  BY <1>15 DEF ForgetJob, Forget
<1>16. CASE Submit
  BY <1>16 DEF Submit
<1>17. CASE Track
  BY <1>17 DEF Track, Finished
<1>18. CASE ClientRestore
  BY <1>18 DEF ClientRestore, Claim, Claims
<1>19. CASE ClientRestoring
  BY <1>19 DEF ClientRestoring
<1>20. CASE CancelFuture
  BY <1>20, CancelFutureMoves
<1>21. CASE StopAgent
  BY <1>21, StopMoves
<1>22. CASE StoreOutcome
  BY <1>22 DEF StoreOutcome, Told
<1>23. CASE Shutdown
  BY <1>23 DEF Shutdown, Forget, Waiting
<1>24. CASE Join
  BY <1>24 DEF Join
<1>25. ASSUME NEW t \in Turns, StartTurn(t) PROVE Claimable'
  BY <1>25 DEF StartTurn, Ready
<1>26. ASSUME NEW t \in Turns, CommitTurn(t) PROVE Claimable'
  BY <1>26 DEF CommitTurn, Ready
<1>27. ASSUME NEW t \in Turns, RollBackTurn(t) PROVE Claimable'
  BY <1>27 DEF RollBackTurn, Invalidate, Ready
<1>28. ASSUME NEW t \in Turns, CancelTurn(t) PROVE Claimable'
  BY <1>28 DEF CancelTurn, Invalidate, Ready
<1>29. ASSUME NEW o \in Observations, IngestObservation(o) PROVE Claimable'
  BY <1>29 DEF IngestObservation, Ready
<1>30. ASSUME NEW waits \in BOOLEAN, Close(waits) PROVE Claimable'
  BY <1>30 DEF Close, Ready
<1>31. CASE UNCHANGED <<client, live, invalidated, snapped, worker, future>>
  <2> HIDE DEF Inv, Claimable
  <2> QED
    BY <1>31, ClaimableUnchanged
<1> QED
  BY <1>1, <1>2, <1>3, <1>4, <1>5, <1>6, <1>7, <1>8, <1>9, <1>10, <1>11, <1>12,
    <1>13, <1>14, <1>15, <1>16, <1>17, <1>18, <1>19, <1>20, <1>21, <1>22, <1>23,
    <1>24, <1>25, <1>26, <1>27, <1>28, <1>29, <1>30, <1>31 DEF Next, WorkerStep,
    ClientStep, vars, Skip, AskOutcome, Merged

\* the agent writes in the turn that the worker is at
LEMMA WrittenStep ==
  ASSUME Inv, [Next]_vars
  PROVE  Written'
<1> /\ Turns \cap Observations = {} /\ Nothing \notin Work /\ worker \in WorkerRec
    /\ client \in ClientRec /\ future \in [Work -> Futures]
    /\ invalidated \subseteq Turns /\ complete \subseteq Turns
    /\ rolledBack \subseteq Turns /\ snapped \subseteq Turns /\ memory \subseteq Work
  BY InvTypes
<1> USE DEF Inv, Work, WorkerRec, ClientRec, Goes, AtStep, Written, WorkerOk, Busy,
  AtTurn, After, Writing, TurnStages, Stages, Held, LiveOk, Quiet, driver, agent
<1>1. CASE Take
  BY <1>1 DEF Take
<1>2. CASE Snapshot
  BY <1>2 DEF Snapshot
<1>3. CASE Register
  BY <1>3 DEF Register, Begins
<1>4. CASE Abandon
  BY <1>4 DEF Abandon
<1>5. CASE Abandoned
  BY <1>5 DEF Abandoned
<1>6. CASE Request
  BY <1>6 DEF Request
<1>7. CASE GiveUp
  BY <1>7 DEF GiveUp
<1>8. CASE Reply
  BY <1>8 DEF Reply
<1>9. CASE Settle
  BY <1>9, SettleMoves
<1>10. CASE Merge
  BY <1>10 DEF Merge, Merged
<1>11. CASE Restore
  BY <1>11 DEF Restore, Claim, Claims
<1>12. CASE Restoring
  BY <1>12 DEF Restoring
<1>13. CASE Absorb
  BY <1>13 DEF Absorb
<1>14. CASE Finish
  BY <1>14 DEF Finish
<1>15. CASE ForgetJob
  BY <1>15 DEF ForgetJob, Forget
<1>16. CASE Submit
  BY <1>16 DEF Submit, ClientOk
<1>17. CASE ClientRestoring
  BY <1>17 DEF ClientRestoring
<1>18. CASE CancelFuture
  BY <1>18, CancelFutureMoves
<1>19. CASE Shutdown
  BY <1>19 DEF Shutdown, Forget, Waiting
<1>20. CASE UNCHANGED <<memory, worker, future>>
  BY <1>20
<1> QED
  BY ZenonT(30), <1>1, <1>2, <1>3, <1>4, <1>5, <1>6, <1>7, <1>8, <1>9, <1>10, <1>11, <1>12,
    <1>13, <1>14, <1>15, <1>16, <1>17, <1>18, <1>19, <1>20 DEF Next, WorkerStep,
    ClientStep, vars, Skip, Track, Finished, ClientRestore, Claim, Claims, StopAgent,
    StoreOutcome, Told, Join, StartTurn, Ready, CommitTurn, RollBackTurn, Invalidate,
    CancelTurn, AskOutcome, Merged, IngestObservation, Close

\* only the turn itself writes between its snapshot and its restore
LEMMA HeldStep ==
  ASSUME Inv, [Next]_vars
  PROVE  Held'
<1> /\ Turns \cap Observations = {} /\ Nothing \notin Work /\ worker \in WorkerRec
    /\ client \in ClientRec /\ future \in [Work -> Futures]
    /\ invalidated \subseteq Turns /\ complete \subseteq Turns
    /\ rolledBack \subseteq Turns /\ snapped \subseteq Turns /\ memory \subseteq Work
    /\ snapshots \in [Turns -> SUBSET Work] /\ live \in Turns \cup {Nothing}
  BY InvTypes
<1> USE DEF Inv, Work, WorkerRec, ClientRec, Goes, AtStep, Held, ClientOk, WorkerOk,
  Busy, AtTurn, After, Writing, TurnStages, Stages, Claimable, Written, Quiet,
  TurnsOk, LiveOk, driver, agent
<1>1. CASE Take
  BY <1>1 DEF Take
<1>2. CASE Snapshot
  BY <1>2 DEF Snapshot
<1>3. CASE Register
  BY <1>3 DEF Register, Begins
<1>4. CASE Abandon
  BY <1>4 DEF Abandon
<1>5. CASE Abandoned
  BY <1>5 DEF Abandoned
<1>6. CASE Request
  BY <1>6 DEF Request
<1>7. CASE GiveUp
  BY <1>7 DEF GiveUp
<1>8. CASE Reply
  BY <1>8 DEF Reply
<1>9. CASE Settle
  BY <1>9, SettleMoves
<1>10. CASE Merge
  BY <1>10 DEF Merge, Merged
<1>11. CASE Restore
  BY <1>11 DEF Restore, Claim, Claims
<1>12. CASE Restoring
  BY <1>12 DEF Restoring
<1>13. CASE Absorb
  BY <1>13 DEF Absorb
<1>14. CASE Finish
  BY <1>14 DEF Finish
<1>15. CASE ForgetJob
  BY <1>15 DEF ForgetJob, Forget
<1>16. CASE Submit
  BY <1>16 DEF Submit
<1>17. CASE Track
  BY <1>17 DEF Track, Finished
<1>18. CASE ClientRestore
  BY <1>18 DEF ClientRestore, Claim, Claims
<1>19. CASE ClientRestoring
  BY <1>19 DEF ClientRestoring
<1>20. CASE CancelFuture
  BY <1>20, CancelFutureMoves
<1>21. CASE StopAgent
  BY <1>21, StopMoves
<1>22. CASE StoreOutcome
  BY <1>22 DEF StoreOutcome, Told
<1>23. CASE Shutdown
  BY <1>23 DEF Shutdown, Forget, Waiting
<1>24. CASE Join
  BY <1>24 DEF Join
<1>25. ASSUME NEW t \in Turns, StartTurn(t) PROVE Held'
  BY <1>25 DEF StartTurn, Ready
<1>26. ASSUME NEW t \in Turns, CommitTurn(t) PROVE Held'
  BY <1>26 DEF CommitTurn, Ready
<1>27. ASSUME NEW t \in Turns, RollBackTurn(t) PROVE Held'
  BY <1>27 DEF RollBackTurn, Invalidate, Ready
<1>28. ASSUME NEW t \in Turns, CancelTurn(t) PROVE Held'
  BY <1>28 DEF CancelTurn, Invalidate, Ready
<1>29. ASSUME NEW o \in Observations, IngestObservation(o) PROVE Held'
  BY <1>29 DEF IngestObservation, Ready
<1>30. ASSUME NEW waits \in BOOLEAN, Close(waits) PROVE Held'
  BY <1>30 DEF Close, Ready
<1>31. CASE UNCHANGED <<client, snapshots, snapped, memory, worker, future>>
  BY <1>31
<1> QED
  BY <1>1, <1>2, <1>3, <1>4, <1>5, <1>6, <1>7, <1>8, <1>9, <1>10, <1>11, <1>12,
    <1>13, <1>14, <1>15, <1>16, <1>17, <1>18, <1>19, <1>20, <1>21, <1>22, <1>23,
    <1>24, <1>25, <1>26, <1>27, <1>28, <1>29, <1>30, <1>31 DEF Next, WorkerStep,
    ClientStep, vars, Skip, AskOutcome, Merged

\* Erased depends on these variables alone
LEMMA ErasedUnchanged ==
  ASSUME Inv, UNCHANGED <<client, snapped, memory, worker, future, invalidated>>
  PROVE  Erased'
BY DEF Inv, Erased, AtTurn

\* an invalidated turn's writes wait for the restore
LEMMA ErasedStep ==
  ASSUME Inv, [Next]_vars
  PROVE  Erased'
<1> /\ Turns \cap Observations = {} /\ Nothing \notin Work /\ worker \in WorkerRec
    /\ client \in ClientRec /\ future \in [Work -> Futures]
    /\ invalidated \subseteq Turns /\ complete \subseteq Turns
    /\ rolledBack \subseteq Turns /\ snapped \subseteq Turns /\ memory \subseteq Work
    /\ snapshots \in [Turns -> SUBSET Work] /\ live \in Turns \cup {Nothing}
  BY InvTypes
<1> USE DEF Inv, Work, WorkerRec, ClientRec, Goes, AtStep, Erased, ClientOk,
  WorkerOk, Busy, AtTurn, After, Writing, TurnStages, Stages, Claimable, Written,
  Held, TurnsOk, LiveOk, Quiet, driver, agent
<1>1. CASE Take
  BY <1>1 DEF Take
<1>2. CASE Snapshot
  BY <1>2 DEF Snapshot
<1>3. CASE Register
  BY <1>3 DEF Register, Begins
<1>4. CASE Abandon
  BY <1>4 DEF Abandon
<1>5. CASE Abandoned
  BY <1>5 DEF Abandoned
<1>6. CASE Request
  BY <1>6 DEF Request
<1>7. CASE GiveUp
  BY <1>7 DEF GiveUp
<1>8. CASE Reply
  BY <1>8 DEF Reply
<1>9. CASE Settle
  BY <1>9, SettleMoves
<1>10. CASE Merge
  BY <1>10 DEF Merge, Merged
<1>11. CASE Restore
  BY <1>11 DEF Restore, Claim, Claims
<1>12. CASE Restoring
  BY <1>12 DEF Restoring
<1>13. CASE Absorb
  BY <1>13 DEF Absorb
<1>14. CASE Finish
  BY <1>14 DEF Finish
<1>15. CASE ForgetJob
  BY <1>15 DEF ForgetJob, Forget
<1>16. CASE Submit
  BY <1>16 DEF Submit
<1>17. CASE Track
  BY <1>17 DEF Track, Finished
<1>18. CASE ClientRestore
  BY <1>18 DEF ClientRestore, Claim, Claims
<1>19. CASE ClientRestoring
  BY <1>19 DEF ClientRestoring
<1>20. CASE CancelFuture
  BY <1>20, CancelFutureMoves
<1>21. CASE StopAgent
  BY <1>21, StopMoves
<1>22. CASE StoreOutcome
  BY <1>22 DEF StoreOutcome, Told
<1>23. CASE Shutdown
  BY <1>23 DEF Shutdown, Forget, Waiting
<1>24. CASE Join
  BY <1>24 DEF Join
<1>25. ASSUME NEW t \in Turns, StartTurn(t) PROVE Erased'
  BY <1>25 DEF StartTurn, Ready
<1>26. ASSUME NEW t \in Turns, CommitTurn(t) PROVE Erased'
  BY <1>26 DEF CommitTurn, Ready
<1>27. ASSUME NEW t \in Turns, RollBackTurn(t) PROVE Erased'
  BY <1>27 DEF RollBackTurn, Invalidate, Ready
<1>28. ASSUME NEW t \in Turns, CancelTurn(t) PROVE Erased'
  BY <1>28 DEF CancelTurn, Invalidate, Ready
<1>29. ASSUME NEW o \in Observations, IngestObservation(o) PROVE Erased'
  BY <1>29 DEF IngestObservation, Ready
<1>30. ASSUME NEW waits \in BOOLEAN, Close(waits) PROVE Erased'
  BY <1>30 DEF Close, Ready
<1>31. CASE UNCHANGED <<client, snapped, memory, worker, future, invalidated>>
  <2> HIDE DEF Inv, Erased
  <2> QED
    BY <1>31, ErasedUnchanged
<1> QED
  BY <1>1, <1>2, <1>3, <1>4, <1>5, <1>6, <1>7, <1>8, <1>9, <1>10, <1>11, <1>12,
    <1>13, <1>14, <1>15, <1>16, <1>17, <1>18, <1>19, <1>20, <1>21, <1>22, <1>23,
    <1>24, <1>25, <1>26, <1>27, <1>28, <1>29, <1>30, <1>31 DEF Next, WorkerStep,
    ClientStep, vars, Skip, AskOutcome, Merged

\* a request of one turn is none of another's
LEMMA AskedByNone ==
  ASSUME NEW q \in Seq(Turns), NEW u \in Turns, NEW t \in Turns, t # u,
         \A i \in DOMAIN q : q[i] # t
  PROVE  \A i \in DOMAIN Append(q, u) : Append(q, u)[i] # t
BY AppendIndexes

\* ... and so leaves the range of another turn as it is,
LEMMA AskedByAnother ==
  ASSUME NEW q \in Seq(Turns), NEW u \in Turns, NEW t \in Turns, t # u,
         NEW from \in Nat, NEW to \in Nat, to <= Len(q),
         \A i \in DOMAIN q : q[i] = t <=> from < i /\ i <= to
  PROVE  \A i \in DOMAIN Append(q, u) : Append(q, u)[i] = t <=> from < i /\ i <= to
<1>1. SUFFICES ASSUME NEW i \in DOMAIN Append(q, u)
               PROVE  Append(q, u)[i] = t <=> from < i /\ i <= to
  OBVIOUS
<1>2. Len(q) \in Nat /\ (i \in DOMAIN q \/ i = Len(q) + 1)
  BY AppendIndexes
<1>3. CASE i \in DOMAIN q
  BY <1>3, AppendIndexes
<1>4. CASE i = Len(q) + 1
  BY <1>2, <1>4, AppendIndexes
<1> QED
  BY <1>2, <1>3, <1>4

\* and ends the range that is still open
LEMMA AskedAgain ==
  ASSUME NEW q \in Seq(Turns), NEW u \in Turns, NEW from \in Nat, from <= Len(q),
         \A i \in DOMAIN q : q[i] = u <=> from < i
  PROVE  \A i \in DOMAIN Append(q, u) : Append(q, u)[i] = u <=> from < i
<1>1. SUFFICES ASSUME NEW i \in DOMAIN Append(q, u)
               PROVE  Append(q, u)[i] = u <=> from < i
  OBVIOUS
<1>2. Len(q) \in Nat /\ (i \in DOMAIN q \/ i = Len(q) + 1)
  BY AppendIndexes
<1>3. CASE i \in DOMAIN q
  BY <1>3, AppendIndexes
<1>4. CASE i = Len(q) + 1
  BY <1>2, <1>4, AppendIndexes
<1> QED
  BY <1>2, <1>3, <1>4

\* the requests of a range are those of its turn
LEMMA RangesStep ==
  ASSUME Inv, [Next]_vars
  PROVE  Ranges'
<1> /\ Turns \cap Observations = {} /\ Nothing \notin Work /\ worker \in WorkerRec
    /\ client \in ClientRec /\ future \in [Work -> Futures]
    /\ invalidated \subseteq Turns /\ complete \subseteq Turns
    /\ rolledBack \subseteq Turns /\ snapped \subseteq Turns
    /\ range \in [Turns -> RangeRec] /\ requests \in Seq(Turns) /\ Len(requests) \in Nat
    /\ live \in Turns \cup {Nothing} /\ line \in Seq(Work)
  BY InvTypes
<1> USE DEF Inv, Work, WorkerRec, ClientRec, Goes, AtStep, Ranges, RangeOk, ClientOk,
  WorkerOk, Busy, AtTurn, After, Writing, TurnStages, Stages, LiveOk, RangeRec,
  Quiet, driver, agent
<1>1. CASE Take
  BY SMTT(30), <1>1, TailIndexes DEF Take, LineOk
<1>2. CASE Snapshot
  BY <1>2 DEF Snapshot
<1>3. CASE Register
  BY SMTT(30), <1>3 DEF Register, Begins
<1>4. CASE Abandon
  BY <1>4 DEF Abandon
<1>5. CASE Abandoned
  BY <1>5 DEF Abandoned
<1>6. CASE Request
  <2>1. CASE worker.job \in dropped
    BY SMTT(30), <1>6, <2>1 DEF Request
  <2>2. CASE worker.job \notin dropped
    <3>1. worker.job \in Turns /\ requests' = Append(requests, worker.job)
      BY <1>6, <2>2 DEF Request
    <3>2. /\ DOMAIN requests = 1..Len(requests) /\ DOMAIN requests' = 1..(Len(requests) + 1)
          /\ Len(requests') = Len(requests) + 1
          /\ \A i \in DOMAIN requests : requests'[i] = requests[i]
          /\ requests'[Len(requests) + 1] = worker.job
      <4> HIDE DEF Inv, WorkerOk, ClientOk, LiveOk, Ranges
      <4> QED
        BY SMTT(30), <3>1, AppendIndexes
    <3>3. /\ AtTurn(worker.job, {"request"}) /\ worker' = [worker EXCEPT !.at = "reply"]
          /\ UNCHANGED <<range, marked, future>>
      BY <1>6, <2>2 DEF Request
    <3>4. Ranges /\ future[worker.job] = "running"
      BY <3>3
    <3> HIDE DEF Inv, WorkerOk, ClientOk, LiveOk, WorkerRec, ClientRec, TurnStages, Stages,
             Busy, Goes, AtStep, Quiet, Work, driver, agent
    <3>5. ASSUME NEW t \in Turns, t # worker.job
          PROVE  /\ \A S : ~AtTurn(t, S) /\ ~AtTurn(t, S)'
                 /\ (\A i \in DOMAIN requests : requests[i] # t)
                      => \A i \in DOMAIN requests' : requests'[i] # t
      <4>1. worker'.job = worker.job
        BY <3>3
      <4>2. \A S : ~AtTurn(t, S) /\ ~AtTurn(t, S)'
        BY <3>5, <4>1
      <4> QED
        BY <3>1, <3>5, <4>2, AskedByNone
    <3>6. ASSUME NEW t \in Turns
          PROVE  range'[t].from <= range'[t].to /\ range'[t].to <= Len(requests')
      BY <3>2, <3>3, <3>4
    <3>7. ASSUME NEW t \in Turns, t # worker.job,
                 \A i \in DOMAIN requests : requests[i] = t <=> range[t].from < i /\ i <= range[t].to
          PROVE  \A i \in DOMAIN requests' :
                   requests'[i] = t <=> range[t].from < i /\ i <= range[t].to
      <4>1. range[t].from \in Nat /\ range[t].to \in Nat /\ range[t].to <= Len(requests)
        BY <3>4
      <4> HIDE DEF Ranges, RangeOk, RangeRec, AtTurn
      <4> QED
        BY <3>1, <3>7, <4>1, AskedByAnother
    <3>8. \A i \in DOMAIN requests' : requests'[i] = worker.job <=> range[worker.job].from < i
      <4>1. /\ range[worker.job].from <= Len(requests) /\ range[worker.job].from \in Nat
            /\ \A i \in DOMAIN requests : requests[i] = worker.job <=> range[worker.job].from < i
        BY <3>1, <3>3, <3>4
      <4> HIDE DEF Ranges, RangeOk, RangeRec, AtTurn
      <4> QED
        BY <3>1, <4>1, AskedAgain
    <3>9. ASSUME NEW t \in Turns, t # worker.job PROVE RangeOk(t)'
      BY ZenonT(30), <3>3, <3>4, <3>5, <3>6, <3>7, <3>9
    <3>10. ASSUME NEW t \in Turns, t = worker.job PROVE RangeOk(t)'
      BY <3>1, <3>3, <3>4, <3>6, <3>8, <3>10
    <3> QED
      BY <3>9, <3>10
  <2> QED
    BY <2>1, <2>2
<1>7. CASE GiveUp
  BY <1>7 DEF GiveUp
<1>8. CASE Reply
  BY SMTT(30), <1>8 DEF Reply
<1>9. CASE Settle
  BY SMTT(30), <1>9 DEF Settle
<1>10. CASE Merge
  <2> worker.job \in Turns
    BY <1>10 DEF Merge
  <2>1. CASE UNCHANGED range
    BY <1>10, <2>1 DEF Merge
  <2>2. ASSUME NEW u \in Turns, u \in marked, range[u].from = range[u].to,
               range' = [range EXCEPT ![u].status = "canceled_before_transport"]
        PROVE  Ranges'
    BY SMTT(30), <1>10, <2>2 DEF Merge
  <2> QED
    BY <1>10, <2>1, <2>2 DEF Merge, Merged
<1>11. CASE Restore
  BY <1>11 DEF Restore, Claim, Claims
<1>12. CASE Restoring
  BY <1>12 DEF Restoring
<1>13. CASE Absorb
  BY <1>13 DEF Absorb
<1>14. CASE Finish
  BY <1>14 DEF Finish
<1>15. CASE ForgetJob
  BY <1>15 DEF ForgetJob, Forget
<1>16. CASE Submit
  BY SMTT(30), <1>16 DEF Submit
<1>17. CASE CancelFuture
  <2>1. /\ client.on \in Turns /\ UNCHANGED <<requests, marked, worker>>
        /\ \/ UNCHANGED <<range, future>>
           \/ /\ future[client.on] = "pending"
              /\ future' = [future EXCEPT ![client.on] = "canceled"]
              /\ range' = [range EXCEPT ![client.on] =
                            [status |-> "canceled_before_provider_call",
                             from |-> Len(requests), to |-> Len(requests)]]
    BY <1>17, CancelFutureMoves
  <2> QED
    BY SMTT(30), <2>1
<1>18. CASE Shutdown
  BY <1>18 DEF Shutdown, Forget, Waiting
<1>19. ASSUME NEW t \in Turns, StartTurn(t) PROVE Ranges'
  BY <1>19 DEF StartTurn, Ready
<1>20. ASSUME NEW t \in Turns, AskOutcome(t) PROVE Ranges'
  <2>1. CASE UNCHANGED range
    BY <1>20, <2>1 DEF AskOutcome
  <2>2. ASSUME NEW u \in Turns, u \in marked, range[u].from = range[u].to,
               range' = [range EXCEPT ![u].status = "canceled_before_transport"]
        PROVE  Ranges'
    BY SMTT(30), <1>20, <2>2 DEF AskOutcome
  <2> QED
    BY <1>20, <2>1, <2>2 DEF AskOutcome, Merged
<1>21. CASE UNCHANGED <<range, requests, marked, worker, future>>
  BY <1>21
<1> QED
  BY ZenonT(30), <1>1, <1>2, <1>3, <1>4, <1>5, <1>6, <1>7, <1>8, <1>9, <1>10, <1>11, <1>12,
    <1>13, <1>14, <1>15, <1>16, <1>17, <1>18, <1>19, <1>20, <1>21 DEF Next,
    WorkerStep, ClientStep, vars, Skip, Track, Finished, ClientRestore, Claim,
    Claims, ClientRestoring, StopAgent, StoreOutcome, Told, Join, CommitTurn, Ready,
    RollBackTurn, Invalidate, CancelTurn, IngestObservation, Close

\* work that is left keeps the agent open
LEMMA ClosedOkStep ==
  ASSUME Inv, Inv', ClosedOk, [Next]_vars
  PROVE  ClosedOk'
<1> /\ worker \in WorkerRec /\ client \in ClientRec /\ future \in [Work -> Futures]
    /\ line \in Seq(Work) /\ tracked \subseteq Work
  BY InvTypes
<1> client' \in ClientRec
  BY DEF Inv, TypeOK, ClientRec
<1> USE DEF ClosedOk, Work
<1>1. CASE Take
  BY <1>1, TailIndexes DEF Take
<1>2. CASE Finish
  BY <1>2 DEF Finish, Futures, agent
<1>3. CASE ForgetJob
  BY <1>3 DEF ForgetJob, Forget, Inv, TrackedOk, ClientOk, agent
<1>4. CASE Submit
  BY <1>4 DEF Submit, Inv, ClientOk, agent
<1>5. CASE CancelFuture
  <2>1. ~closing /\ closing' = closing
    BY <1>5 DEF CancelFuture, Inv, ClientOk, agent
  <2>2. closed' => closed
    BY <1>5, <2>1 DEF CancelFuture, Forget
  <2> QED
    BY <2>1, <2>2
<1>6. CASE Shutdown
  <2>1. closing /\ closing' = closing
    BY <1>6 DEF Shutdown, Inv, ClientOk, agent
  <2>2. \A w \in Work : future'[w] # "pending" /\ (future'[w] = "running" => future[w] = "running")
    BY <1>6 DEF Shutdown, Waiting, Forget, Goes
  <2>3. closed' => closed \/ tracked' = {}
    BY <1>6 DEF Shutdown, Forget
  <2>4. client'.at # "track"
    BY <1>6 DEF Shutdown, Goes, ClientRec
  <2> QED
    BY <2>1, <2>2, <2>3, <2>4 DEF Inv, TrackedOk
<1>7. CASE Join
  BY <1>7 DEF Join, Inv, ClientOk, Waiting, WorkerOk, Busy, AtStep, agent, Futures
<1>8. ASSUME NEW waits \in BOOLEAN, Close(waits) PROVE ClosedOk'
  BY <1>8 DEF Close, agent
<1>9. CASE UNCHANGED <<closed, closing, future>>
  BY <1>9
<1> QED
  BY ZenonT(30), <1>1, <1>2, <1>3, <1>4, <1>5, <1>6, <1>7, <1>8, <1>9 DEF Next, WorkerStep, ClientStep, vars,
    Skip, Snapshot, Register, Abandon, Abandoned, Request, GiveUp, Reply, Settle, Merge, Merged,
    Restore, Restoring, Absorb, Track, ClientRestore, ClientRestoring, StopAgent, StoreOutcome,
    StartTurn, CommitTurn, RollBackTurn, CancelTurn, Invalidate, AskOutcome, IngestObservation,
    driver, agent

\* the invariant holds before the first call
LEMMA InitInv == Init => Inv /\ ClosedOk
<1> SUFFICES ASSUME Init PROVE Inv /\ ClosedOk
  OBVIOUS
<1> USE DEF Init
<1>1. TypeOK
  <2>1. line \in Seq(Work) /\ requests \in Seq(Turns)
    OBVIOUS
  <2>2. worker \in WorkerRec /\ client \in ClientRec
    BY DEF WorkerRec, ClientRec, Stages, Calls
  <2>3. range \in [Turns -> RangeRec]
    BY DEF RangeRec, Audits
  <2>4. /\ future \in [Work -> Futures] /\ snapshots \in [Turns -> SUBSET Work]
        /\ outcome \in [Turns -> SUBSET Marks]
    BY DEF Futures
  <2> QED
    BY <2>1, <2>2, <2>3, <2>4 DEF TypeOK, WorkerRec, ClientRec, RangeRec, Futures
<1>2. WorkerOk
  BY DEF WorkerOk, Busy, TurnStages
<1>3. LineOk
  <2>1. DOMAIN line = {}
    OBVIOUS
  <2> QED
    BY <2>1 DEF LineOk
<1>4. ClientOk
  BY DEF ClientOk, CanceledCall
<1>5. TrackedOk
  BY DEF TrackedOk
<1>6. LiveOk
  BY WorkAssumption DEF LiveOk, Work
<1>7. TurnsOk
  BY WorkAssumption DEF TurnsOk, AtTurn, After, Writing, Work
<1>8. Claimable /\ Written /\ Held /\ Erased
  BY DEF Claimable, Written, Held, Erased
<1>9. Ranges
  <2>1. Len(requests) = 0 /\ DOMAIN requests = {}
    OBVIOUS
  <2> QED
    BY <2>1 DEF Ranges, RangeOk, AtTurn, Writing, After, Work
<1>10. ClosedOk
  BY DEF ClosedOk
<1> QED
  BY <1>1, <1>2, <1>3, <1>4, <1>5, <1>6, <1>7, <1>8, <1>9, <1>10 DEF Inv

\* and every step keeps it
LEMMA InvNext == Inv /\ ClosedOk /\ [Next]_vars => Inv' /\ ClosedOk'
BY TypeStep, WorkerOkStep, LineOkStep, ClientOkStep, TrackedOkStep, LiveOkStep, TurnsOkStep,
   ClaimableStep, WrittenStep, HeldStep, ErasedStep, RangesStep, ClosedOkStep DEF Inv

\* the invariant of the specification
LEMMA InvariantHolds == Spec => [](Inv /\ ClosedOk)
BY InitInv, InvNext, PTL DEF Spec

(* The two threads' locals and the driver's tables keep their types; a turn *)
(* that is snapshotted, restored or asked for is one of the turns.          *)
THEOREM TypeCorrect == Spec => []TypeOK
<1>1. Inv => TypeOK
  BY DEF Inv
<1> QED
  BY <1>1, InvariantHolds, PTL

(* The agent is closed once nothing of it can still run: by the last        *)
(* callback, or by close if there is no work or it waits for the worker.    *)
THEOREM ClosedLast == Spec => []ClosedAfterWork
<1>1. Inv /\ ClosedOk => ClosedAfterWork
  BY DEF Inv, ClosedOk, ClosedAfterWork, ClientOk
<1> QED
  BY <1>1, InvariantHolds, PTL

(* Whoever settles a turn's audit range, and whenever a cancellation comes, *)
(* the range holds that turn's provider requests and no other's.            *)
THEOREM RangesAreExact == Spec => []OwnRange
<1>1. Inv => OwnRange
  <2> SUFFICES ASSUME Inv, NEW t \in Turns, range[t].status \notin {"none", "queued", "running"},
                      NEW i \in 1..Len(requests)
               PROVE  (requests[i] = t) <=> (range[t].from < i /\ i <= range[t].to)
    BY DEF OwnRange
  <2>1. /\ requests \in Seq(Turns) /\ DOMAIN requests = 1..Len(requests) /\ Len(requests) \in Nat
        /\ range[t].from \in Nat /\ range[t].to \in Nat
    BY DEF Inv, TypeOK
  <2>2. CASE future[t] = "canceled" /\ range[t].from = range[t].to
    BY <2>1, <2>2 DEF Inv, Ranges, RangeOk
  <2>3. CASE future[t] = "done" \/ AtTurn(t, After)
    BY <2>1, <2>3 DEF Inv, Ranges, RangeOk
  <2>4. CASE AtTurn(t, {"settle"}) /\ t \in marked
    BY <2>1, <2>4 DEF Inv, Ranges, RangeOk, AtTurn, Writing
  <2> QED
    BY <2>2, <2>3, <2>4 DEF Inv, Ranges, RangeOk
<1> QED
  BY <1>1, InvariantHolds, PTL

(* The execution fence: of a turn that was invalidated before, while or     *)
(* after it ran, nothing is left in the agent's memory when it is over.     *)
THEOREM NothingLeftBehind == Spec => []NoTrace
<1>1. Inv => NoTrace
  <2> SUFFICES ASSUME Inv, NEW t \in invalidated, Finished(t),
                      client.on = t => client.at \notin {"restore", "restoring"}, t \in memory
               PROVE  FALSE
    BY DEF NoTrace
  <2>1. ~(worker.job = t /\ Busy)
    BY DEF Inv, WorkerOk, Finished, TypeOK, Work
  <2>2. t \in snapped
    BY SMTT(30), <2>1 DEF Inv, Erased, AtTurn, Busy
  <2> QED
    BY <2>1, <2>2 DEF Inv, Claimable, AtTurn, Busy, Writing
<1> QED
  BY <1>1, InvariantHolds, PTL

----------------------------------------------------------------------------
(* The refinement *)
(* A step of the driver that its promise does not see. *)
Quiescent ==
  /\ \A u \in Turns : Phase(u)' = Phase(u)
  /\ Line' = Line
  /\ memory' = memory

\* the steps that change nothing but bookkeeping
LEMMA QuietSteps ==
  ASSUME Inv, Inv'
  PROVE  (\/ Snapshot \/ Register \/ Abandoned \/ Request \/ Merge \/ Restore \/ Finish \/ ForgetJob
          \/ Track \/ ClientRestore \/ StopAgent \/ StoreOutcome \/ Join
          \/ CancelFuture /\ future' = future
          \/ \E t \in Turns : StartTurn(t) \/ RollBackTurn(t) \/ CancelTurn(t) \/ AskOutcome(t)
          \/ \E o \in Observations : IngestObservation(o)
          \/ \E waits \in BOOLEAN : Close(waits))
         => Quiescent
<1> /\ Turns \cap Observations = {} /\ Nothing \notin Work /\ worker \in WorkerRec
    /\ client \in ClientRec /\ future \in [Work -> Futures] /\ line \in Seq(Work)
    /\ range \in [Turns -> RangeRec] /\ tracked \subseteq Work
    /\ live \in Turns \cup {Nothing} /\ requests \in Seq(Turns) /\ Len(requests) \in Nat
    /\ snapshots \in [Turns -> SUBSET Work] /\ invalidated \subseteq Turns
    /\ complete \subseteq Turns /\ rolledBack \subseteq Turns /\ snapped \subseteq Turns
    /\ memory \subseteq Work
  BY InvTypes
<1> USE DEF Inv, Phase, Undone, BeingRestored, Asking, AtStep, Goes, Line, Work,
  WorkerRec, ClientRec, TurnStages, Stages, AtTurn, After, Writing, Busy, WorkerOk,
  ClientOk, CanceledCall, LineOk, LiveOk, TurnsOk, Claimable, Quiet, Written, Held,
  driver, agent, Quiescent
<1>1. ASSUME Snapshot PROVE Quiescent
  BY <1>1 DEF Snapshot
<1>2. ASSUME Register PROVE Quiescent
  BY <1>2 DEF Register, Begins
<1>3. ASSUME Abandoned PROVE Quiescent
  BY <1>3 DEF Abandoned
<1>4. ASSUME Request PROVE Quiescent
  BY <1>4 DEF Request
<1>5. ASSUME Merge PROVE Quiescent
  BY <1>5 DEF Merge, Merged
<1>6. ASSUME Restore PROVE Quiescent
  BY <1>6 DEF Restore, Claim, Claims
<1>7. ASSUME Finish PROVE Quiescent
  BY <1>7 DEF Finish
<1>8. ASSUME ForgetJob PROVE Quiescent
  BY <1>8 DEF ForgetJob, Forget
<1>9. ASSUME Track PROVE Quiescent
  BY <1>9 DEF Track, Finished
<1>10. ASSUME ClientRestore PROVE Quiescent
  BY <1>10 DEF ClientRestore, Claim, Claims
<1>11. ASSUME StopAgent PROVE Quiescent
  BY <1>11, StopMoves
<1>12. ASSUME StoreOutcome PROVE Quiescent
  BY <1>12 DEF StoreOutcome, Told
<1>13. ASSUME Join PROVE Quiescent
  BY <1>13 DEF Join
<1>14. ASSUME CancelFuture, future' = future PROVE Quiescent
  BY <1>14, CancelFutureMoves
<1>15. ASSUME NEW t \in Turns, StartTurn(t) PROVE Quiescent
  BY <1>15 DEF StartTurn, Ready
<1>16. ASSUME NEW t \in Turns, RollBackTurn(t) PROVE Quiescent
  BY <1>16 DEF RollBackTurn, Invalidate, Ready
<1>17. ASSUME NEW t \in Turns, CancelTurn(t) PROVE Quiescent
  BY <1>17 DEF CancelTurn, Invalidate, Ready
<1>18. ASSUME NEW t \in Turns, AskOutcome(t) PROVE Quiescent
  BY <1>18 DEF AskOutcome, Merged
<1>19. ASSUME NEW o \in Observations, IngestObservation(o) PROVE Quiescent
  BY <1>19 DEF IngestObservation, Ready
<1>20. ASSUME NEW waits \in BOOLEAN, Close(waits) PROVE Quiescent
  BY <1>20 DEF Close, Ready
<1> QED
  BY <1>1, <1>2, <1>3, <1>4, <1>5, <1>6, <1>7, <1>8, <1>9, <1>10, <1>11, <1>12,
    <1>13, <1>14, <1>15, <1>16, <1>17, <1>18, <1>19, <1>20

\* a turn that is taken runs
LEMMA TakePhase ==
  ASSUME Inv, Inv', NEW u \in Turns, Take
  PROVE  Phase(u)' = IF u = worker'.job THEN "running" ELSE Phase(u)
<1> /\ Turns \cap Observations = {} /\ Nothing \notin Work /\ worker \in WorkerRec
    /\ client \in ClientRec /\ future \in [Work -> Futures] /\ line \in Seq(Work)
    /\ range \in [Turns -> RangeRec] /\ tracked \subseteq Work
    /\ live \in Turns \cup {Nothing} /\ requests \in Seq(Turns) /\ Len(requests) \in Nat
    /\ snapshots \in [Turns -> SUBSET Work] /\ invalidated \subseteq Turns
    /\ complete \subseteq Turns /\ rolledBack \subseteq Turns /\ snapped \subseteq Turns
    /\ memory \subseteq Work
  BY InvTypes
<1> USE DEF Inv, Phase, Undone, BeingRestored, Asking, AtStep, Goes, Line, Work,
  WorkerRec, ClientRec, TurnStages, Stages, AtTurn, After, Writing, Busy, WorkerOk,
  ClientOk, CanceledCall, LineOk, LiveOk, TurnsOk, Claimable, Quiet, Written, Held,
  driver, agent
<1> QED
  BY DEF Take

\* a turn that did not begin is undone at once
LEMMA AbandonPhase ==
  ASSUME Inv, Inv', NEW u \in Turns, Abandon
  PROVE  Phase(u)' = IF u = worker.job THEN "undone" ELSE Phase(u)
<1> /\ Turns \cap Observations = {} /\ Nothing \notin Work /\ worker \in WorkerRec
    /\ client \in ClientRec /\ future \in [Work -> Futures] /\ line \in Seq(Work)
    /\ range \in [Turns -> RangeRec] /\ tracked \subseteq Work
    /\ live \in Turns \cup {Nothing} /\ requests \in Seq(Turns) /\ Len(requests) \in Nat
    /\ snapshots \in [Turns -> SUBSET Work] /\ invalidated \subseteq Turns
    /\ complete \subseteq Turns /\ rolledBack \subseteq Turns /\ snapped \subseteq Turns
    /\ memory \subseteq Work
  BY InvTypes
<1> USE DEF Inv, Phase, Undone, BeingRestored, Asking, AtStep, Goes, Line, Work,
  WorkerRec, ClientRec, TurnStages, Stages, AtTurn, After, Writing, Busy, WorkerOk,
  ClientOk, CanceledCall, LineOk, LiveOk, TurnsOk, Claimable, Quiet, Written, Held,
  driver, agent
<1> QED
  BY DEF Abandon

\* a turn that settles has acted, condemned or not
LEMMA SettlePhase ==
  ASSUME Inv, Inv', NEW u \in Turns, Settle
  PROVE  Phase(u)' = IF u = worker.job THEN "acted" ELSE Phase(u)
<1> /\ Turns \cap Observations = {} /\ Nothing \notin Work /\ worker \in WorkerRec
    /\ client \in ClientRec /\ future \in [Work -> Futures] /\ line \in Seq(Work)
    /\ range \in [Turns -> RangeRec] /\ tracked \subseteq Work
    /\ live \in Turns \cup {Nothing} /\ requests \in Seq(Turns) /\ Len(requests) \in Nat
    /\ snapshots \in [Turns -> SUBSET Work] /\ invalidated \subseteq Turns
    /\ complete \subseteq Turns /\ rolledBack \subseteq Turns /\ snapped \subseteq Turns
    /\ memory \subseteq Work
  BY InvTypes
<1> USE DEF Inv, Phase, Undone, BeingRestored, Asking, AtStep, Goes, Line, Work,
  WorkerRec, ClientRec, TurnStages, Stages, AtTurn, After, Writing, Busy, WorkerOk,
  ClientOk, CanceledCall, LineOk, LiveOk, TurnsOk, Claimable, Quiet, Written, Held,
  driver, agent
<1> QED
  BY SettleMoves

\* the worker's restore undoes its turn
LEMMA RestoringPhase ==
  ASSUME Inv, Inv', NEW u \in Turns, Restoring
  PROVE  Phase(u)' = IF u = worker.job THEN "undone" ELSE Phase(u)
<1> /\ Turns \cap Observations = {} /\ Nothing \notin Work /\ worker \in WorkerRec
    /\ client \in ClientRec /\ future \in [Work -> Futures] /\ line \in Seq(Work)
    /\ range \in [Turns -> RangeRec] /\ tracked \subseteq Work
    /\ live \in Turns \cup {Nothing} /\ requests \in Seq(Turns) /\ Len(requests) \in Nat
    /\ snapshots \in [Turns -> SUBSET Work] /\ invalidated \subseteq Turns
    /\ complete \subseteq Turns /\ rolledBack \subseteq Turns /\ snapped \subseteq Turns
    /\ memory \subseteq Work
  BY InvTypes
<1> USE DEF Inv, Phase, Undone, BeingRestored, Asking, AtStep, Goes, Line, Work,
  WorkerRec, ClientRec, TurnStages, Stages, AtTurn, After, Writing, Busy, WorkerOk,
  ClientOk, CanceledCall, LineOk, LiveOk, TurnsOk, Claimable, Quiet, Written, Held,
  driver, agent
<1> QED
  BY DEF Restoring

\* the caller's restore undoes the turn of its call
LEMMA ClientRestoringPhase ==
  ASSUME Inv, Inv', NEW u \in Turns, ClientRestoring
  PROVE  Phase(u)' = IF u = client.on THEN "undone" ELSE Phase(u)
<1> /\ Turns \cap Observations = {} /\ Nothing \notin Work /\ worker \in WorkerRec
    /\ client \in ClientRec /\ future \in [Work -> Futures] /\ line \in Seq(Work)
    /\ range \in [Turns -> RangeRec] /\ tracked \subseteq Work
    /\ live \in Turns \cup {Nothing} /\ requests \in Seq(Turns) /\ Len(requests) \in Nat
    /\ snapshots \in [Turns -> SUBSET Work] /\ invalidated \subseteq Turns
    /\ complete \subseteq Turns /\ rolledBack \subseteq Turns /\ snapped \subseteq Turns
    /\ memory \subseteq Work
  BY InvTypes
<1> USE DEF Inv, Phase, Undone, BeingRestored, Asking, AtStep, Goes, Line, Work,
  WorkerRec, ClientRec, TurnStages, Stages, AtTurn, After, Writing, Busy, WorkerOk,
  ClientOk, CanceledCall, LineOk, LiveOk, TurnsOk, Claimable, Quiet, Written, Held,
  driver, agent
<1> QED
  BY DEF ClientRestoring

\* a turn that is submitted is queued
LEMMA SubmitPhase ==
  ASSUME Inv, Inv', NEW u \in Turns, Submit
  PROVE  Phase(u)' = IF u = client.on THEN "queued" ELSE Phase(u)
<1> /\ Turns \cap Observations = {} /\ Nothing \notin Work /\ worker \in WorkerRec
    /\ client \in ClientRec /\ future \in [Work -> Futures] /\ line \in Seq(Work)
    /\ range \in [Turns -> RangeRec] /\ tracked \subseteq Work
    /\ live \in Turns \cup {Nothing} /\ requests \in Seq(Turns) /\ Len(requests) \in Nat
    /\ snapshots \in [Turns -> SUBSET Work] /\ invalidated \subseteq Turns
    /\ complete \subseteq Turns /\ rolledBack \subseteq Turns /\ snapped \subseteq Turns
    /\ memory \subseteq Work
  BY InvTypes
<1> USE DEF Inv, Phase, Undone, BeingRestored, Asking, AtStep, Goes, Line, Work,
  WorkerRec, ClientRec, TurnStages, Stages, AtTurn, After, Writing, Busy, WorkerOk,
  ClientOk, CanceledCall, LineOk, LiveOk, TurnsOk, Claimable, Quiet, Written, Held,
  driver, agent
<1> QED
  BY DEF Submit

\* a future that is canceled cancels its turn
LEMMA CancelPhase ==
  ASSUME Inv, Inv', NEW u \in Turns, CancelFuture, future' # future
  PROVE  Phase(u)' = IF u = client.on THEN "canceled" ELSE Phase(u)
<1> /\ Turns \cap Observations = {} /\ Nothing \notin Work /\ worker \in WorkerRec
    /\ client \in ClientRec /\ future \in [Work -> Futures] /\ line \in Seq(Work)
    /\ range \in [Turns -> RangeRec] /\ tracked \subseteq Work
    /\ live \in Turns \cup {Nothing} /\ requests \in Seq(Turns) /\ Len(requests) \in Nat
    /\ snapshots \in [Turns -> SUBSET Work] /\ invalidated \subseteq Turns
    /\ complete \subseteq Turns /\ rolledBack \subseteq Turns /\ snapped \subseteq Turns
    /\ memory \subseteq Work
  BY InvTypes
<1> USE DEF Inv, Phase, Undone, BeingRestored, Asking, AtStep, Goes, Line, Work,
  WorkerRec, ClientRec, TurnStages, Stages, AtTurn, After, Writing, Busy, WorkerOk,
  ClientOk, CanceledCall, LineOk, LiveOk, TurnsOk, Claimable, Quiet, Written, Held,
  driver, agent
<1> QED
  BY CancelFutureMoves

\* a commit decides its turn
LEMMA CommitPhase ==
  ASSUME Inv, Inv', NEW t \in Turns, CommitTurn(t), NEW u \in Turns
  PROVE  Phase(u)' = IF u = t THEN "committed" ELSE Phase(u)
<1> /\ Turns \cap Observations = {} /\ Nothing \notin Work /\ worker \in WorkerRec
    /\ client \in ClientRec /\ future \in [Work -> Futures] /\ line \in Seq(Work)
    /\ range \in [Turns -> RangeRec] /\ tracked \subseteq Work
    /\ live \in Turns \cup {Nothing} /\ requests \in Seq(Turns) /\ Len(requests) \in Nat
    /\ snapshots \in [Turns -> SUBSET Work] /\ invalidated \subseteq Turns
    /\ complete \subseteq Turns /\ rolledBack \subseteq Turns /\ snapped \subseteq Turns
    /\ memory \subseteq Work
  BY InvTypes
<1> USE DEF Inv, Phase, Undone, BeingRestored, Asking, AtStep, Goes, Line, Work,
  WorkerRec, ClientRec, TurnStages, Stages, AtTurn, After, Writing, Busy, WorkerOk,
  ClientOk, CanceledCall, LineOk, LiveOk, TurnsOk, Claimable, Quiet, Written, Held,
  driver, agent
<1> QED
  BY DEF CommitTurn, Ready

\* shutdown cancels every turn that is pending
LEMMA ShutdownPhase ==
  ASSUME Inv, Inv', Shutdown, NEW u \in Turns
  PROVE  Phase(u)' = IF future[u] = "pending" THEN "canceled" ELSE Phase(u)
<1> /\ Turns \cap Observations = {} /\ Nothing \notin Work /\ worker \in WorkerRec
    /\ client \in ClientRec /\ future \in [Work -> Futures] /\ line \in Seq(Work)
    /\ range \in [Turns -> RangeRec] /\ tracked \subseteq Work
    /\ live \in Turns \cup {Nothing} /\ requests \in Seq(Turns) /\ Len(requests) \in Nat
    /\ snapshots \in [Turns -> SUBSET Work] /\ invalidated \subseteq Turns
    /\ complete \subseteq Turns /\ rolledBack \subseteq Turns /\ snapped \subseteq Turns
    /\ memory \subseteq Work
  BY InvTypes
<1> USE DEF Inv, Phase, Undone, BeingRestored, Asking, AtStep, Goes, Line, Work,
  WorkerRec, ClientRec, TurnStages, Stages, AtTurn, After, Writing, Busy, WorkerOk,
  ClientOk, CanceledCall, LineOk, LiveOk, TurnsOk, Claimable, Quiet, Written, Held,
  driver, agent
<1> QED
  BY DEF Shutdown, Forget, Waiting

\* the agent's writes, and work that is passed over, leave the phases alone
LEMMA WritingPhase ==
  ASSUME Inv, Inv', GiveUp \/ Reply \/ Absorb \/ Skip, NEW u \in Turns
  PROVE  Phase(u)' = Phase(u)
<1> /\ Turns \cap Observations = {} /\ Nothing \notin Work /\ worker \in WorkerRec
    /\ client \in ClientRec /\ future \in [Work -> Futures] /\ line \in Seq(Work)
    /\ range \in [Turns -> RangeRec] /\ tracked \subseteq Work
    /\ live \in Turns \cup {Nothing} /\ requests \in Seq(Turns) /\ Len(requests) \in Nat
    /\ snapshots \in [Turns -> SUBSET Work] /\ invalidated \subseteq Turns
    /\ complete \subseteq Turns /\ rolledBack \subseteq Turns /\ snapped \subseteq Turns
    /\ memory \subseteq Work
  BY InvTypes
<1> USE DEF Inv, Phase, Undone, BeingRestored, Asking, AtStep, Goes, Line, Work,
  WorkerRec, ClientRec, TurnStages, Stages, AtTurn, After, Writing, Busy, WorkerOk,
  ClientOk, CanceledCall, LineOk, LiveOk, TurnsOk, Claimable, Quiet, Written, Held,
  driver, agent
<1>1. CASE GiveUp
  BY <1>1 DEF GiveUp
<1>2. CASE Reply
  BY <1>2 DEF Reply
<1>3. CASE Absorb
  BY <1>3 DEF Absorb
<1>4. CASE Skip
  BY <1>4 DEF Skip
<1> QED
  BY <1>1, <1>2, <1>3, <1>4

(* The phases of all turns, as the abstract specification sees them. *)
phases == [t \in Turns |-> Phase(t)]

\* one turn's phase changes
LEMMA PhaseMoves ==
  ASSUME NEW t \in Turns, NEW x, \A u \in Turns : Phase(u)' = IF u = t THEN x ELSE Phase(u)
  PROVE  phases' = [phases EXCEPT ![t] = x]
BY DEF phases

\* no turn's phase changes
LEMMA PhaseStays ==
  ASSUME \A u \in Turns : Phase(u)' = Phase(u)
  PROVE  phases' = phases
BY DEF phases

\* what a turn's phase says of its future, and the other way round
LEMMA PhaseOf ==
  ASSUME Inv, NEW t \in Turns
  PROVE  /\ future[t] = "none" => Phase(t) = "unused"
         /\ future[t] = "pending" <=> Phase(t) = "queued"
         /\ future[t] = "canceled" => Phase(t) = "canceled"
         /\ Phase(t) = "running" => future[t] = "running" /\ worker.at \in Asking
         /\ worker.job = t /\ worker.at \in Asking => Phase(t) = "running"
         /\ worker.job = t /\ worker.at = "restoring" => Phase(t) = "acted"
         /\ client.on = t /\ client.at = "restoring" => Phase(t) = "acted"
         /\ future[t] = "done" /\ t \in complete /\ t \in snapped => Phase(t) = "acted"
BY InvTypes DEF Phase, Undone, BeingRestored, Asking, Inv, WorkerOk, TurnsOk, Claimable, Busy,
  AtTurn, After, Writing, TurnStages, Stages, Quiet, Work, Futures, ClientOk, CanceledCall

\* Take begins a turn; an observation keeps its place in the abstract line
LEMMA TakeRefines ==
  ASSUME Inv, Inv', Take
  PROVE  [Transactions!Next]_(Transactions!driverVars)
<1>1. /\ line # <<>> /\ line \in Seq(Work) /\ Head(line) \in Work /\ worker.at = "idle"
      /\ worker'.job = Head(line) /\ line' = Tail(line) /\ future[Head(line)] = "pending"
      /\ worker'.at = IF Head(line) \in Turns THEN "snapshot" ELSE "absorb"
      /\ memory' = memory
  BY InvTypes, TailIndexes DEF Take, AtStep, WorkerRec, agent
<1>2. \A u \in Turns : Phase(u)' = IF u = worker'.job THEN "running" ELSE Phase(u)
  BY TakePhase
<1>3. CASE Head(line) \in Turns
  <2>1. Line = line /\ Line' = Tail(line)
    BY <1>1, <1>3 DEF Line, AtStep
  <2>2. phases' = [phases EXCEPT ![Head(line)] = "running"]
    BY ZenonT(30), <1>1, <1>2, <1>3, PhaseMoves
  <2>3. phases[Head(line)] = "queued" /\ \A u \in Turns : phases[u] # "running"
    BY <1>1, <1>3, PhaseOf DEF phases, Asking
  <2> QED
    BY <1>1, <1>3, <2>1, <2>2, <2>3 DEF Transactions!Next, Transactions!Begin, phases
<1>4. CASE Head(line) \notin Turns
  <2>1. Line = line /\ Line' = line
    BY <1>1, <1>4, PrependTail DEF Line, AtStep
  <2>2. phases' = phases
    BY <1>1, <1>2, <1>4, PhaseStays
  <2> QED
    BY <1>1, <2>1, <2>2 DEF Transactions!driverVars, phases
<1> QED
  BY <1>3, <1>4

\* Skip passes over a canceled turn
LEMMA SkipRefines ==
  ASSUME Inv, Inv', Skip
  PROVE  [Transactions!Next]_(Transactions!driverVars)
<1>1. /\ line # <<>> /\ line \in Seq(Work) /\ worker.at = "idle" /\ worker' = worker
      /\ line' = Tail(line) /\ future[Head(line)] = "canceled" /\ memory' = memory
  BY InvTypes DEF Skip, AtStep, agent
<1>2. Head(line) \in Turns
  BY <1>1, TailIndexes DEF Inv, LineOk
<1>3. Line = line /\ Line' = Tail(line)
  BY <1>1 DEF Line, AtStep
<1>4. phases' = phases
  BY WritingPhase, PhaseStays
<1>5. phases[Head(line)] = "canceled"
  BY <1>1, <1>2, PhaseOf DEF phases
<1> QED
  BY <1>1, <1>2, <1>3, <1>4, <1>5 DEF Transactions!Next, Transactions!PassOver, phases

\* Abandon and the two restores undo a turn, whose writes alone leave
LEMMA UndoRefines ==
  ASSUME Inv, Inv', Abandon \/ Restoring \/ ClientRestoring
  PROVE  [Transactions!Next]_(Transactions!driverVars)
<1>1. PICK t \in Turns : /\ \A u \in Turns : Phase(u)' = IF u = t THEN "undone" ELSE Phase(u)
                         /\ Phase(t) \in {"running", "acted"} /\ memory' = memory \ {t}
  <2>1. CASE Abandon
    <3>1. /\ worker.at = "abandon" /\ worker.job \in Turns /\ worker.held = memory
          /\ memory' = worker.held
      BY <2>1 DEF Abandon, AtStep, Inv, WorkerOk, TurnStages, Stages, Held
    <3>2. worker.job \notin memory
      BY <3>1, InvTypes DEF Inv, Written, WorkerOk, Busy, AtTurn, Writing, After, Work
    <3> QED
      BY <2>1, <3>1, <3>2, AbandonPhase, PhaseOf DEF Asking
  <2>2. CASE Restoring
    <3>1. /\ worker.at = "restoring" /\ worker.job \in Turns
          /\ worker.held = memory \ {worker.job} /\ memory' = worker.held
      BY <2>2 DEF Restoring, AtStep, Inv, WorkerOk, TurnStages, Stages, Held
    <3> QED
      BY <2>2, <3>1, RestoringPhase, PhaseOf
  <2>3. CASE ClientRestoring
    <3>1. /\ client.at = "restoring" /\ client.on \in Turns
          /\ client.held = memory \ {client.on} /\ memory' = client.held
      BY <2>3, InvTypes DEF ClientRestoring, Inv, ClientOk, Held
    <3> QED
      BY <2>3, <3>1, ClientRestoringPhase, PhaseOf
  <2> QED
    BY <2>1, <2>2, <2>3
<1>2. phases' = [phases EXCEPT ![t] = "undone"]
  BY <1>1, PhaseMoves
<1>3. Line' = Line
  BY InvTypes DEF Line, AtStep, Abandon, Restoring, ClientRestoring, Goes, driver, WorkerRec
<1> QED
  BY <1>1, <1>2, <1>3 DEF Transactions!Next, Transactions!Undo, phases

\* GiveUp and Reply write, or do nothing
LEMMA WriteRefines ==
  ASSUME Inv, Inv', GiveUp \/ Reply
  PROVE  [Transactions!Next]_(Transactions!driverVars)
<1>1. /\ worker.at \in {"request", "reply"} /\ worker.job \in Turns
      /\ memory' \in {memory, memory \cup {worker.job}} /\ line' = line
      /\ worker'.at \in {"settle", "request"}
  BY InvTypes DEF GiveUp, Reply, AtStep, Inv, WorkerOk, TurnStages, Stages, driver, Goes, WorkerRec
<1>2. phases' = phases
  BY WritingPhase, PhaseStays
<1>3. Line' = Line
  BY <1>1 DEF Line, AtStep
<1>4. phases[worker.job] = "running"
  BY <1>1, PhaseOf DEF phases, Asking
<1> QED
  BY <1>1, <1>2, <1>3, <1>4 DEF Transactions!Next, Transactions!Write, phases, Transactions!driverVars

\* Settle ends what the agent does in a turn
LEMMA SettleRefines ==
  ASSUME Inv, Inv', Settle
  PROVE  [Transactions!Next]_(Transactions!driverVars)
<1>1. /\ worker.at = "settle" /\ worker.job \in Turns /\ memory' = memory /\ line' = line
      /\ worker'.at = "merge"
  BY SettleMoves DEF Inv
<1>2. phases' = [phases EXCEPT ![worker.job] = "acted"]
  BY <1>1, SettlePhase, PhaseMoves
<1>3. Line' = Line
  BY <1>1 DEF Line, AtStep
<1>4. phases[worker.job] = "running"
  BY <1>1, PhaseOf DEF phases, Asking
<1> QED
  BY <1>1, <1>2, <1>3, <1>4 DEF Transactions!Next, Transactions!Act, phases

\* Absorb takes the observation that the abstract line still holds
LEMMA AbsorbRefines ==
  ASSUME Inv, Inv', Absorb
  PROVE  [Transactions!Next]_(Transactions!driverVars)
<1>1. /\ worker.at = "absorb" /\ worker.job \in Observations /\ worker'.at = "finish"
      /\ memory' \in {memory, memory \cup {worker.job}} /\ line' = line /\ line \in Seq(Work)
  BY InvTypes DEF Absorb, AtStep, Inv, WorkerOk, Goes, WorkerRec, driver
<1>2. phases' = phases
  BY WritingPhase, PhaseStays
<1>3. Line = <<worker.job>> \o line /\ Line' = line
  BY <1>1 DEF Line, AtStep
<1>4. worker.job \in Work
  BY <1>1 DEF Work
<1>5. Line # <<>> /\ Head(Line) = worker.job /\ Line' = Tail(Line)
  BY <1>1, <1>3, <1>4, Prepend
<1> QED
  BY <1>1, <1>2, <1>5 DEF Transactions!Next, Transactions!Absorb, phases

\* Submit starts a turn or ingests an observation
LEMMA SubmitRefines ==
  ASSUME Inv, Inv', Submit
  PROVE  [Transactions!Next]_(Transactions!driverVars)
<1>1. /\ client.on \in Work /\ future[client.on] = "none" /\ line' = Append(line, client.on)
      /\ line \in Seq(Work) /\ memory' = memory /\ worker' = worker
  BY InvTypes DEF Submit, Inv, ClientOk, agent
<1>2. Line' = Append(Line, client.on)
  <2>1. CASE AtStep("absorb")
    <3>1. worker.job \in Work
      BY <2>1 DEF AtStep, Inv, WorkerOk, Work
    <3> QED
      BY <1>1, <2>1, <3>1, PrependAppend DEF Line, AtStep
  <2>2. CASE ~AtStep("absorb")
    BY <1>1, <2>2 DEF Line, AtStep
  <2> QED
    BY <2>1, <2>2
<1>3. CASE client.on \in Turns
  <2>1. phases' = [phases EXCEPT ![client.on] = "queued"]
    BY <1>3, SubmitPhase, PhaseMoves
  <2>2. phases[client.on] = "unused"
    BY <1>1, <1>3, PhaseOf DEF phases
  <2> QED
    BY <1>1, <1>2, <1>3, <2>1, <2>2 DEF Transactions!Next, Transactions!Start, phases
<1>4. CASE client.on \in Observations
  <2>1. phases' = phases
    BY <1>4, SubmitPhase, PhaseStays, InvTypes
  <2> QED
    BY <1>1, <1>2, <1>4, <2>1 DEF Transactions!Next, Transactions!Ingest, phases
<1> QED
  BY <1>1, <1>3, <1>4 DEF Work

\* CommitTurn commits, which it never has to refuse here
LEMMA CommitRefines ==
  ASSUME Inv, Inv', NEW t \in Turns, CommitTurn(t)
  PROVE  [Transactions!Next]_(Transactions!driverVars)
<1>1. phases' = [phases EXCEPT ![t] = "committed"]
  BY CommitPhase, PhaseMoves
<1>2. /\ future[t] = "done" /\ live = t /\ client.at = "ready"
      /\ memory' = memory /\ line' = line /\ worker' = worker
  BY DEF CommitTurn, Ready, agent
<1>3. t \in complete /\ t \in snapped
  BY <1>2, InvTypes DEF Inv, TurnsOk, LiveOk, CanceledCall
<1>4. phases[t] = "acted"
  BY <1>2, <1>3, PhaseOf DEF phases
<1>5. Line' = Line
  BY <1>2 DEF Line, AtStep
<1> QED
  BY <1>1, <1>2, <1>4, <1>5 DEF Transactions!Next, Transactions!Commit, phases

\* CancelFuture cancels a turn that is pending
LEMMA CancelRefines ==
  ASSUME Inv, Inv', CancelFuture, future' # future
  PROVE  [Transactions!Next]_(Transactions!driverVars)
<1>1. /\ client.on \in Turns /\ future[client.on] = "pending"
      /\ line' = line /\ memory' = memory /\ worker' = worker
  BY CancelFutureMoves DEF Inv, agent
<1>2. phases' = [phases EXCEPT ![client.on] = "canceled"]
  BY <1>1, CancelPhase, PhaseMoves
<1>3. phases[client.on] = "queued"
  BY <1>1, PhaseOf DEF phases
<1>4. Line' = Line
  BY <1>1 DEF Line, AtStep
<1> QED
  BY <1>1, <1>2, <1>3, <1>4 DEF Transactions!Next, Transactions!Cancel, phases

\* Shutdown cuts the line, behind an observation that is being absorbed
LEMMA ShutdownRefines ==
  ASSUME Inv, Inv', Shutdown
  PROVE  [Transactions!Next]_(Transactions!driverVars)
<1> DEFINE n == IF AtStep("absorb") THEN 1 ELSE 0
<1>1. line \in Seq(Work) /\ line' = <<>> /\ memory' = memory /\ worker' = worker
  BY InvTypes DEF Shutdown, agent
<1>2. n \in 0..Len(Line) /\ Line' = SubSeq(Line, 1, n)
  <2>1. CASE AtStep("absorb")
    <3>1. worker.job \in Work
      BY <2>1 DEF AtStep, Inv, WorkerOk, Work
    <3>2. Len(line) \in Nat
      BY <1>1
    <3> QED
      BY <1>1, <2>1, <3>1, <3>2, Prepend, Cuts DEF Line, AtStep
  <2>2. CASE ~AtStep("absorb")
    <3>1. Len(line) \in Nat /\ SubSeq(line, 1, 0) = <<>>
      BY <1>1
    <3> QED
    BY <1>1, <2>2, <3>1 DEF Line, AtStep
  <2> QED
    BY <2>1, <2>2
<1>3. ASSUME NEW u \in Turns, future[u] = "pending"
      PROVE  \E i \in (n + 1)..Len(Line) : Line[i] = u
  <2>1. PICK i \in DOMAIN line : line[i] = u
    BY <1>3 DEF Inv, LineOk, Work
  <2>2. Len(line) \in Nat /\ i \in 1..Len(line)
    BY <1>1, <2>1
  <2>3. CASE AtStep("absorb")
    <3>1. worker.job \in Work
      BY <2>3 DEF AtStep, Inv, WorkerOk, Work
    <3>2. Len(Line) = Len(line) + 1 /\ Line[i + 1] = u
      BY <1>1, <2>1, <2>2, <2>3, <3>1, Prepend DEF Line
    <3> QED
      BY <2>2, <2>3, <3>2
  <2>4. CASE ~AtStep("absorb")
    BY <2>1, <2>2, <2>4 DEF Line
  <2> QED
    BY <2>3, <2>4
<1>4. phases' = [t \in Turns |->
                  IF phases[t] = "queued" /\ \E i \in (n + 1)..Len(Line) : Line[i] = t
                  THEN "canceled" ELSE phases[t]]
  <2>1. \A t \in Turns : phases[t] = "queued" <=> future[t] = "pending"
    BY PhaseOf DEF phases
  <2>2. \A t \in Turns : phases'[t] = IF future[t] = "pending" THEN "canceled" ELSE phases[t]
    BY ShutdownPhase DEF phases
  <2>3. phases' = [t \in Turns |-> phases'[t]]
    BY DEF phases
  <2> HIDE DEF n
  <2> QED
    BY <1>3, <2>1, <2>2, <2>3
<1> HIDE DEF n
<1> QED
  BY <1>1, <1>2, <1>4 DEF Transactions!Next, Transactions!Cut, phases

\* a step that the promise does not see is a stutter of it
LEMMA QuietRefines ==
  ASSUME Quiescent
  PROVE  [Transactions!Next]_(Transactions!driverVars)
BY PhaseStays DEF Transactions!driverVars, phases, Quiescent

\* every step of the driver
LEMMA StepRefines ==
  ASSUME Inv, Inv', [Next]_vars
  PROVE  [Transactions!Next]_(Transactions!driverVars)
<1>1. CASE UNCHANGED vars
  <2>1. Quiescent
    BY <1>1 DEF vars, driver, agent, Phase, Undone, BeingRestored, Line, AtStep, Quiescent
  <2> QED
    BY <2>1, QuietRefines
<1>2. CASE WorkerStep
  BY <1>2, QuietSteps, QuietRefines, TakeRefines, SkipRefines, UndoRefines, WriteRefines,
     SettleRefines, AbsorbRefines DEF WorkerStep
<1>3. CASE ClientStep
  BY <1>3, QuietSteps, QuietRefines, SubmitRefines, UndoRefines, CancelRefines, ShutdownRefines
     DEF ClientStep
<1>4. ASSUME NEW t \in Turns,
             StartTurn(t) \/ CommitTurn(t) \/ RollBackTurn(t) \/ CancelTurn(t) \/ AskOutcome(t)
      PROVE  [Transactions!Next]_(Transactions!driverVars)
  BY <1>4, QuietSteps, QuietRefines, CommitRefines
<1>5. ASSUME NEW o \in Observations, IngestObservation(o)
      PROVE  [Transactions!Next]_(Transactions!driverVars)
  BY <1>5, QuietSteps, QuietRefines
<1>6. ASSUME NEW waits \in BOOLEAN, Close(waits)
      PROVE  [Transactions!Next]_(Transactions!driverVars)
  BY <1>6, QuietSteps, QuietRefines
<1> QED
  BY <1>1, <1>2, <1>3, <1>4, <1>5, <1>6 DEF Next

\* before the first call
LEMMA InitRefines == Init => Transactions!Init
<1> SUFFICES ASSUME Init PROVE Transactions!Init
  OBVIOUS
<1>1. \A t \in Turns : Phase(t) = "unused"
  BY InitInv, PhaseOf DEF Init, Work
<1>2. Line = <<>> /\ memory = {}
  BY DEF Init, Line, AtStep
<1> QED
  BY <1>1, <1>2 DEF Transactions!Init

(* The driver implements TurnTransactions: whatever the moment of a          *)
(* cancellation, the two threads carry out one transaction for each turn.   *)
THEOREM TransactionsImplemented == Spec => ImplementsTransactions
<1>1. Init => Transactions!Init
  BY InitRefines
<1>2. Inv /\ Inv' /\ [Next]_vars => [Transactions!Next]_(Transactions!driverVars)
  BY StepRefines
<1> QED
  BY <1>1, <1>2, InvariantHolds, PTL DEF Spec, ImplementsTransactions, Transactions!Spec
==============================================================================
