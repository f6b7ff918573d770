----------------------------- MODULE RealtimeActor -----------------------------
(***************************************************************************)
(* RealtimeEnvironmentActor (runner/realtime_actor.py): one actor thread   *)
(* owns every env.step and env.execute_investigation call; any number of   *)
(* caller threads submit actions, cancel their futures and ask it to stop. *)
(*                                                                         *)
(* The submissions are numbered in the order of _submit_locked, which is   *)
(* self._submission_sequence, so a submission IS its number.  The lists of *)
(* the code that are kept in submission order (_pending, valid,            *)
(* candidates, _deferred_submissions, _deferred_fence_requests) are sets   *)
(* here; "newest" is the largest number and "in order" is increasing.      *)
(*                                                                         *)
(* self._condition is held from the boundary work of a dispatch until the  *)
(* dispatch is decided.  That section is several steps of the model        *)
(* (pc = "selecting" or "investigationSelecting") because two callers'     *)
(* operations do not take the lock: Future.cancel and _stop.set.           *)
(***************************************************************************)
EXTENDS Integers, FiniteSets

CONSTANTS
  MaxSubmissions,  \* bound: how many actions the callers submit
  Horizon,         \* the environment is done, at the latest, at this tick
  MaxCalls,        \* bound: tool calls of one action
  MaxDelay,        \* bound: largest delay_ticks of a tool
  Leads,           \* bound: valid_from_tick, relative to the tick of submission
  Lifetimes        \* bound: expires_at_tick, likewise; more than Horizon is None

ASSUME ConstantsAssumption ==
  /\ MaxSubmissions \in Nat
  /\ Horizon \in Nat \ {0}
  /\ MaxCalls \in Nat
  /\ MaxDelay \in Nat
  /\ Leads \subseteq Int
  /\ Lifetimes \subseteq Int

Subs  == 1 .. MaxSubmissions
NoSub == 0
Calls == 1 .. MaxCalls

Kinds == {"control", "investigation"}

(* Terminal statuses.  "executed" stands for effected, confirmed, no_effect *)
(* and a delayed action whose calls all ran and failed; "failed" for the    *)
(* other failures; "fence_failed" is failed with EXECUTION_FENCE_FAILED.    *)
Statuses == {"executed", "rejected", "stale", "expired", "canceled",
             "superseded", "failed", "fence_failed"}

Ticks == 0 .. Horizon

\* a queued call is due before the horizon; 0 stands for no queued call
DueTicks == 0 .. (Horizon - 1)

\* the fields of _PendingSubmission the actor decides on
Submission == [kind       : Kinds,
               based      : Nat,
               validFrom  : Int,
               expires    : Int,
               supersedes : Subs \cup {NoSub},
               key        : Subs]

NoSubmission == [kind |-> "control", based |-> 0, validFrom |-> 0,
                 expires |-> 0, supersedes |-> NoSub, key |-> 1]

VARIABLES
  version,     \* self._state_version
  tick,        \* self._observation["tick"]
  submitted,   \* self._submission_sequence
  sub,         \* what a queued submission carries
  future,      \* state of each submission's Future
  receipt,     \* terminal receipt of each submission, "none" until settled
  keys,        \* self._idempotency_keys
  pending,     \* self._pending
  fences,      \* self._deferred_fence_requests, by requesting submission
  valid,       \* the locals valid / candidates of the dispatch in progress
  active,      \* self._active_submission
  passed,      \* the supervisor's disposition of the dispatch was "pass"
  deferred,    \* pending_call_ids of self._deferred_submissions
  native,      \* due tick of each call queued in the tool registry, 0 if none
  accepted,    \* submissions with an "accepted" lifecycle record
  ran,         \* delayed calls whose handler has run in the backend
  done,        \* self._done
  stop,        \* self._stop
  pc           \* where the actor thread is

vars == <<version, tick, submitted, sub, future, receipt, keys, pending, fences,
          valid, active, passed, deferred, native, accepted, ran, done, stop, pc>>

Futures == {"none", "pending", "running", "cancelled", "done"}

(* loop: _run between iterations            investigationDue: lock released *)
(* clockDue: dispatch announced             before _execute_investigation_  *)
(* selecting: lock held in _advance_once    once; investigating: inside     *)
(* stepping: inside env.step                env.execute_investigation       *)
(* dispatched: _advance_once returned       closing, closed: finally block  *)
PCs == {"loop", "clockDue", "selecting", "stepping", "dispatched",
        "investigationDue", "investigationSelecting", "investigating",
        "closing", "closed"}

NoQueue == [c \in Subs \X Calls |-> 0]

TypeOK ==
  /\ version \in Nat
  /\ tick \in Ticks
  /\ submitted \in 0 .. MaxSubmissions
  /\ sub \in [Subs -> Submission]
  /\ future \in [Subs -> Futures]
  /\ receipt \in [Subs -> Statuses \cup {"none"}]
  /\ keys \subseteq Subs
  /\ pending \subseteq Subs
  /\ fences \subseteq Subs
  /\ valid \subseteq Subs
  /\ active \in Subs \cup {NoSub}
  /\ passed \in BOOLEAN
  /\ deferred \in [Subs -> SUBSET Calls]
  /\ native \in [Subs \X Calls -> DueTicks]
  /\ accepted \subseteq Subs
  /\ ran \subseteq Subs \X Calls
  /\ done \in BOOLEAN
  /\ stop \in BOOLEAN
  /\ pc \in PCs

Init ==
  /\ version = 0 /\ tick = 0 /\ submitted = 0
  /\ sub = [s \in Subs |-> NoSubmission]
  /\ future = [s \in Subs |-> "none"]
  /\ receipt = [s \in Subs |-> "none"]
  /\ keys = {} /\ pending = {} /\ fences = {} /\ valid = {}
  /\ active = NoSub /\ passed = FALSE
  /\ deferred = [s \in Subs |-> {}]
  /\ native = NoQueue
  /\ accepted = {} /\ ran = {}
  /\ done = FALSE /\ stop = FALSE
  /\ pc = "loop"

-----------------------------------------------------------------------------
(* What the actor asks of its state.                                       *)

Settled  == {s \in Subs : receipt[s] # "none"}
Deferred == {s \in Subs : deferred[s] # {}}
LockFree == pc \notin {"selecting", "investigationSelecting"}
Newest(S) == CHOOSE s \in S : \A t \in S : t <= s

\* mutant: the compare-and-swap on the state version is lost
VerdictWithoutVersion(s) == IF future[s] = "cancelled" THEN "canceled"
                            ELSE IF tick > sub[s].expires THEN "expired"
                            ELSE "valid"

\* _reject_invalid_submission_locked, and the partition of _advance_once
Verdict(s) == IF future[s] = "cancelled" THEN "canceled"
              ELSE IF tick > sub[s].expires THEN "expired"
              ELSE IF sub[s].based # version THEN "stale"
              ELSE "valid"

InWindow(s) == sub[s].validFrom <= tick /\ tick <= sub[s].expires

\* mutant: decided on any version
StaleInvestigation(s) ==
  s \in pending /\ sub[s].kind = "investigation" /\ InWindow(s)

CurrentInvestigation(s) ==
  /\ s \in pending /\ sub[s].kind = "investigation"
  /\ sub[s].based = version /\ InWindow(s)

\* mutant: the last receipt of a submission is its receipt
LastReceipts(S, status) == [s \in Subs |-> IF s \in S THEN status[s] ELSE receipt[s]]

(* _settle_locked: the first receipt of a submission is its receipt.  Its  *)
(* future leaves the cancellable state; it gets its result when the actor  *)
(* or a caller drains _future_completions after releasing the lock.        *)
Receipts(S, status) ==
  [s \in Subs |-> IF s \in S /\ receipt[s] = "none" THEN status[s] ELSE receipt[s]]

Settle(S, status) ==
  /\ receipt' = Receipts(S, status)
  /\ future' = [s \in Subs |-> IF s \in S /\ future[s] = "pending"
                               THEN "running" ELSE future[s]]

\* the same and the drain that follows it; R is the submission that
\* set_running_or_notify_cancel took, if any
SettleAndDrain(S, R, status) ==
  /\ receipt' = Receipts(S, status)
  /\ future' = [s \in Subs |->
                  IF \/ s \in S /\ future[s] # "cancelled"
                     \/ s \in Settled /\ future[s] = "running"
                  THEN "done"
                  ELSE IF s \in R THEN "running" ELSE future[s]]

Each(status) == [s \in Subs |-> status]

-----------------------------------------------------------------------------
(* Callers.                                                                *)

(* submit and submit_current.  The caller names the state version it       *)
(* decided on: the current one or an older one.                            *)
Parameters(s) ==
  [kind       : Kinds,
   based      : {v \in {version - 1, version} : v >= 0},
   validFrom  : {tick + lead : lead \in Leads},
   expires    : {tick + lifetime : lifetime \in Lifetimes},
   supersedes : (Subs \cup {NoSub}) \cap 0 .. (s - 1),
   key        : {s} \cup keys]

Refuse(s, status) ==
  /\ SettleAndDrain({s}, {}, Each(status))
  /\ UNCHANGED <<sub, pending, fences>>

\* mutant: a reused idempotency key is not noticed
RejectsWindow(p) == p.expires < p.validFrom

\* IDEMPOTENCY_REJECTED and INVALID_WINDOW
Rejects(p) == p.key \in keys \/ p.expires < p.validFrom

Submit(p) ==
  LET s == submitted + 1
      expired == tick > p.expires
      stale   == p.based # version
  IN  /\ s \in Subs /\ LockFree /\ p \in Parameters(s)
      /\ submitted' = s
      /\ \/ /\ done \/ stop
            /\ Refuse(s, "failed") /\ UNCHANGED keys
         \/ /\ ~done /\ ~stop
            /\ Rejects(p)
            /\ Refuse(s, "rejected") /\ UNCHANGED keys
         \/ /\ ~done /\ ~stop /\ ~Rejects(p)
            /\ keys' = keys \cup {p.key}
            /\ \/ expired /\ Refuse(s, "expired")
               \/ ~expired /\ stale /\ Refuse(s, "stale")
               \/ /\ ~expired /\ ~stale
                  /\ sub' = [sub EXCEPT ![s] = p]
                  /\ pending' = pending \cup {s}
                  /\ fences' = IF p.supersedes \in Deferred
                               THEN fences \cup {s} ELSE fences
                  /\ receipt' = receipt
                  /\ future' = [t \in Subs |->
                       IF t = s THEN "pending"
                       ELSE IF t \in Settled /\ future[t] = "running" THEN "done"
                       ELSE future[t]]
      /\ UNCHANGED <<version, tick, valid, active, passed, deferred, native,
                     accepted, ran, done, stop, pc>>

\* Future.cancel by the caller: takes no lock, fails once the future runs
Cancel(s) ==
  /\ future[s] = "pending"
  /\ future' = [future EXCEPT ![s] = "cancelled"]
  /\ UNCHANGED <<version, tick, submitted, sub, receipt, keys, pending, fences,
                 valid, active, passed, deferred, native, accepted, ran, done,
                 stop, pc>>

\* stop(): the flag is set before the lock is taken to notify
Stop ==
  /\ ~stop /\ stop' = TRUE
  /\ UNCHANGED <<version, tick, submitted, sub, future, receipt, keys, pending,
                 fences, valid, active, passed, deferred, native, accepted, ran,
                 done, pc>>

-----------------------------------------------------------------------------
(* The execution fence.                                                    *)

(* cancel_pending_calls_with_audit on the calls of one deferred action: a   *)
(* call that is no longer queued is "not_pending", and a native callback    *)
(* may refuse (the refused calls stay queued).                              *)
QueuedCalls(S) == {c \in S \X Calls : c[2] \in deferred[c[1]] /\ native[c] # 0}

CancellationFails(s, refused) ==
  \E i \in deferred[s] : native[<<s, i>>] = 0 \/ <<s, i>> \in refused

\* mutant: the calls stay in the registry's queue
UnqueueNothing(S, refused) == native' = native

Unqueue(S, refused) ==
  native' = [c \in Subs \X Calls |->
               IF c \in QueuedCalls(S) \ refused THEN 0 ELSE native[c]]

(* _process_deferred_fence_requests_locked before anything is committed:    *)
(* a request whose target is gone or whose requester is settled is dropped, *)
(* an invalid requester is settled (the old work is preserved), the other   *)
(* requests wait for their requester's commit.                              *)
LiveFences    == {s \in fences : sub[s].supersedes \in Deferred /\ s \notin Settled}
InvalidFences == {s \in LiveFences : Verdict(s) # "valid"}

\* mutant: the fence looks at the tick that is ending
ExpiringAlready(fenceTick) == {s \in Deferred : sub[s].expires < tick}

\* _expire_deferred_submissions_locked: whose lifetime ends before fenceTick
Expiring(fenceTick) ==
  {s \in Deferred : sub[s].expires < (IF sub[s].kind = "investigation"
                                      THEN tick ELSE fenceTick)}

\* the expiries that are reached: in order, up to the first that fails
Fenced(E, refused) ==
  {s \in E : \A t \in E : CancellationFails(t, refused) => s <= t}
Unfenceable(E, refused) ==
  {s \in Fenced(E, refused) : CancellationFails(s, refused)}

(* _process_deferred_boundary_locked.  On a failed cancellation the actor   *)
(* fails closed: done, and the dispatch returns without draining.           *)
BoundaryFails(fenceTick, next) ==
  \E refused \in SUBSET QueuedCalls(Expiring(fenceTick)) :
    LET E == Fenced(Expiring(fenceTick), refused)
        F == Unfenceable(Expiring(fenceTick), refused)
    IN  /\ F # {}
        /\ Settle(E \cup InvalidFences,
                  [s \in Subs |-> IF s \in F THEN "fence_failed"
                                  ELSE IF s \in E THEN "expired" ELSE Verdict(s)])
        /\ Unqueue(E, refused)
        /\ deferred' = [s \in Subs |-> IF s \in E THEN {} ELSE deferred[s]]
        /\ pending' = pending \ InvalidFences
        /\ fences' = LiveFences \ InvalidFences
        /\ done' = TRUE
        /\ pc' = next
        /\ UNCHANGED <<version, tick, submitted, sub, keys, valid, active, passed,
                       accepted, ran, stop>>

\* the boundary's effect on deferred work when every cancellation succeeds
BoundaryClears(fenceTick) ==
  /\ \A s \in Expiring(fenceTick) : ~CancellationFails(s, {})
  /\ Unqueue(Expiring(fenceTick), {})
  /\ deferred' = [s \in Subs |-> IF s \in Expiring(fenceTick) THEN {} ELSE deferred[s]]
  /\ fences' = LiveFences \ InvalidFences

-----------------------------------------------------------------------------
(* The actor thread: _run.                                                 *)

\* mutant: the loop's condition forgets _done
ClockDueWhenDone ==
  /\ pc = "loop" /\ ~stop
  /\ pc' = "clockDue"
  /\ UNCHANGED <<version, tick, submitted, sub, future, receipt, keys, pending,
                 fences, valid, active, passed, deferred, native, accepted, ran,
                 done, stop>>

\* the interval elapsed: the clock dispatch is announced
ClockDue ==
  /\ pc = "loop" /\ ~stop /\ ~done
  /\ pc' = "clockDue"
  /\ UNCHANGED <<version, tick, submitted, sub, future, receipt, keys, pending,
                 fences, valid, active, passed, deferred, native, accepted, ran,
                 done, stop>>

\* an investigation can run before the interval elapses; the lock is released
InvestigationDue ==
  /\ pc = "loop" /\ ~stop /\ ~done
  /\ \E s \in Subs : CurrentInvestigation(s)
  /\ pc' = "investigationDue"
  /\ UNCHANGED <<version, tick, submitted, sub, future, receipt, keys, pending,
                 fences, valid, active, passed, deferred, native, accepted, ran,
                 done, stop>>

\* mutant: the loop's condition forgets _stop
LeaveLoopWhenDone ==
  /\ pc = "loop" /\ done
  /\ pc' = "closing"
  /\ UNCHANGED <<version, tick, submitted, sub, future, receipt, keys, pending,
                 fences, valid, active, passed, deferred, native, accepted, ran,
                 done, stop>>

LeaveLoop ==
  /\ pc = "loop" /\ (stop \/ done)
  /\ pc' = "closing"
  /\ UNCHANGED <<version, tick, submitted, sub, future, receipt, keys, pending,
                 fences, valid, active, passed, deferred, native, accepted, ran,
                 done, stop>>

\* _active_clock_dispatch is cleared
DispatchEnds ==
  /\ pc = "dispatched"
  /\ pc' = "loop"
  /\ UNCHANGED <<version, tick, submitted, sub, future, receipt, keys, pending,
                 fences, valid, active, passed, deferred, native, accepted, ran,
                 done, stop>>

\* mutants: one of the two lists is forgotten
UnansweredPending == pending
UnansweredDeferred == Deferred

(* The finally block: whatever is still queued or deferred is settled.     *)
Unanswered == pending \cup Deferred

Close ==
  /\ pc = "closing"
  /\ done' = TRUE
  /\ SettleAndDrain(Unanswered, {}, Each("failed"))
  /\ pending' = {}
  /\ deferred' = [s \in Subs |-> {}]
  /\ pc' = "closed"
  /\ UNCHANGED <<version, tick, submitted, sub, keys, fences, valid, active, passed,
                 native, accepted, ran, stop>>

-----------------------------------------------------------------------------
(* _advance_once and _execute_investigation_once: deciding a dispatch.     *)

\* boundary work, then the partition of the pending submissions
ClockBoundary ==
  /\ pc = "clockDue"
  /\ LET invalid == {s \in pending : Verdict(s) # "valid"} \cup InvalidFences
         expired == Expiring(tick + 1)
         ahead   == {s \in pending \ invalid : tick < sub[s].validFrom}
     IN  /\ BoundaryClears(tick + 1)
         /\ Settle(invalid \cup expired,
                   [s \in Subs |-> IF s \in expired THEN "expired" ELSE Verdict(s)])
         /\ pending' = ahead
         /\ valid' = pending \ (invalid \cup ahead)
  /\ pc' = "selecting"
  /\ UNCHANGED <<version, tick, submitted, sub, keys, active, passed, accepted, ran,
                 done, stop>>

ClockBoundaryFails == pc = "clockDue" /\ BoundaryFails(tick + 1, "dispatched")

\* boundary work, then the candidates; without one nothing is drained
InvestigationBoundary ==
  /\ pc = "investigationDue"
  /\ LET expired == Expiring(tick)
         candidates == {s \in Subs \ InvalidFences : CurrentInvestigation(s)}
     IN  /\ BoundaryClears(tick)
         /\ Settle(InvalidFences \cup expired,
                   [s \in Subs |-> IF s \in expired THEN "expired" ELSE Verdict(s)])
         /\ pending' = pending \ (InvalidFences \cup candidates)
         /\ valid' = candidates
         /\ pc' = IF candidates = {} THEN "loop" ELSE "investigationSelecting"
  /\ UNCHANGED <<version, tick, submitted, sub, keys, active, passed, accepted, ran,
                 done, stop>>

InvestigationBoundaryFails ==
  pc = "investigationDue" /\ BoundaryFails(tick, "loop")

(* The newest candidate is settled and the next one is tried.  When none is *)
(* left the clock asks its supervisor and an investigation gives up.        *)
Discard(status) ==
  LET s == Newest(valid)
      givesUp == pc = "investigationSelecting" /\ valid = {s}
  IN  /\ valid' = valid \ {s}
      /\ pc' = IF givesUp THEN "loop" ELSE pc
      /\ IF givesUp THEN SettleAndDrain({s}, {}, Each(status))
                    ELSE Settle({s}, Each(status))
      /\ UNCHANGED <<version, tick, submitted, sub, keys, pending, fences, active,
                     passed, deferred, native, accepted, ran, done, stop>>

\* set_running_or_notify_cancel reports a caller's cancellation
CandidateCanceled ==
  /\ ~LockFree /\ valid # {}
  /\ future[Newest(valid)] = "cancelled"
  /\ Discard("canceled")

(* Rejected for an invisible evidence reference, by the supervisor while an *)
(* older candidate remains (or, investigating, in any case), or, on the     *)
(* clock and before the future is set running, for an uncancellable managed *)
(* delay.                                                                   *)
CandidateRejected ==
  /\ ~LockFree /\ valid # {}
  /\ \/ future[Newest(valid)] # "cancelled"
     \/ pc = "selecting" /\ sub[Newest(valid)].kind = "control"
  /\ Discard("rejected")

\* the supervisor raises on the clock: fail closed, the rest goes back
ArbitrationFails ==
  /\ pc = "selecting" /\ valid # {}
  /\ LET s == Newest(valid)
     IN  /\ future[s] # "cancelled"
         /\ SettleAndDrain({s}, {}, Each("rejected"))
         /\ pending' = pending \cup (valid \ {s})
  /\ valid' = {}
  /\ done' = TRUE
  /\ pc' = "dispatched"
  /\ UNCHANGED <<version, tick, submitted, sub, keys, fences, active, passed,
                 deferred, native, accepted, ran, stop>>

\* the supervisor overrides the last candidate: its own action is stepped
Override ==
  /\ pc = "selecting" /\ \E s \in Subs : valid = {s} /\ future[s] # "cancelled"
  /\ active' = Newest(valid) /\ passed' = FALSE
  /\ SettleAndDrain({}, valid, receipt)
  /\ valid' = {}
  /\ pc' = "stepping"
  /\ UNCHANGED <<version, tick, submitted, sub, keys, pending, fences,
                 deferred, native, accepted, ran, done, stop>>

\* no candidate: the supervisor's action is stepped, or it raises
Supervise ==
  /\ pc = "selecting" /\ valid = {}
  /\ SettleAndDrain({}, {}, receipt)
  /\ \/ active' = NoSub /\ passed' = FALSE /\ pc' = "stepping" /\ UNCHANGED done
     \/ done' = TRUE /\ pc' = "dispatched" /\ UNCHANGED <<active, passed>>
  /\ UNCHANGED <<version, tick, submitted, sub, keys, pending, fences, valid,
                 deferred, native, accepted, ran, stop>>

\* mutants: every request's fence is executed; none is
ReplacedByAny(s) == {sub[t].supersedes : t \in LiveFences}
ReplacedByNone(s) == {}

\* the work the winner's own fence request cancels
Replaced(s) == IF s \in LiveFences THEN {sub[s].supersedes} ELSE {}

\* the other requests whose target is still there when they are looked at
OtherFences(s) ==
  {t \in LiveFences \ {s} : t < s \/ sub[t].supersedes \notin Replaced(s)}

(* The newest candidate passes: its fence is executed, the older candidates *)
(* and the pending submission it replaces are superseded, it is accepted.   *)
Commit ==
  /\ ~LockFree /\ valid # {}
  /\ LET s == Newest(valid)
         older == (valid \ {s}) \cup {t \in pending : t = sub[s].supersedes}
         dropped == InvalidFences \cap OtherFences(s)
     IN  /\ future[s] # "cancelled"
         /\ \A t \in Replaced(s) : ~CancellationFails(t, {})
         /\ Unqueue(Replaced(s), {})
         /\ deferred' = [t \in Subs |-> IF t \in Replaced(s) THEN {} ELSE deferred[t]]
         /\ fences' = OtherFences(s) \ InvalidFences
         /\ SettleAndDrain(Replaced(s) \cup older \cup dropped, {s},
                           [t \in Subs |-> IF t \in dropped THEN Verdict(t)
                                           ELSE "superseded"])
         /\ pending' = pending \ (older \cup dropped)
         /\ accepted' = accepted \cup {s}
         /\ active' = s
  /\ passed' = TRUE
  /\ valid' = {}
  /\ pc' = IF pc = "selecting" THEN "stepping" ELSE "investigating"
  /\ UNCHANGED <<version, tick, submitted, sub, keys, ran, done, stop>>

(* The native cancellation fails: _fail_execution_fence_locked fails both   *)
(* submissions and closes the environment; later requests are not looked at.*)
CommitFails ==
  /\ ~LockFree /\ valid # {}
  /\ LET s == Newest(valid)
         dropped == {t \in InvalidFences : t < s}
     IN  /\ future[s] # "cancelled"
         /\ \E refused \in SUBSET QueuedCalls(Replaced(s)) :
              /\ \E t \in Replaced(s) : CancellationFails(t, refused)
              /\ Unqueue(Replaced(s), refused)
         /\ deferred' = [t \in Subs |-> IF t \in Replaced(s) THEN {} ELSE deferred[t]]
         /\ fences' = {t \in LiveFences \ InvalidFences : t < s}
         /\ SettleAndDrain(Replaced(s) \cup {s} \cup dropped, {},
                           [t \in Subs |-> IF t \in dropped THEN Verdict(t)
                                           ELSE "fence_failed"])
         /\ pending' = (pending \ dropped) \cup (valid \ {s})
  /\ valid' = {}
  /\ done' = TRUE
  /\ pc' = IF pc = "selecting" THEN "dispatched" ELSE "loop"
  /\ UNCHANGED <<version, tick, submitted, sub, keys, active, passed, accepted, ran,
                 stop>>

-----------------------------------------------------------------------------
(* The environment call returns.  The tool registry, which both env.step    *)
(* and env.execute_investigation enter at the current tick, first runs the  *)
(* queued calls that are due at this tick and then the calls of the action: *)
(* a call is immediate, or queued for a later tick before the horizon.      *)

DueCalls == {c \in Subs \X Calls : native[c] # 0 /\ native[c] = tick}

\* mutant: the horizon does not bound a delay
DelaysPastHorizon == [Calls -> 0 .. MaxDelay]

Delays == {d \in [Calls -> 0 .. MaxDelay] :
             \A i \in Calls : d[i] = 0 \/ tick + d[i] < Horizon}

Queued(d) == {i \in Calls : d[i] # 0}

RegistryRuns(s, d) ==
  /\ native' = [c \in Subs \X Calls |->
                  IF c[1] = s /\ d[c[2]] # 0 THEN tick + d[c[2]]
                  ELSE IF c \in DueCalls THEN 0 ELSE native[c]]
  /\ ran' = ran \cup DueCalls

\* env.step raises: ENVIRONMENT_STEP_FAILED
StepRaises ==
  /\ pc = "stepping"
  /\ SettleAndDrain({active} \cap Subs, {}, Each("failed"))
  /\ active' = NoSub
  /\ done' = TRUE
  /\ pc' = "dispatched"
  /\ UNCHANGED <<version, tick, submitted, sub, keys, pending, fences, valid, passed,
                 deferred, native, accepted, ran, stop>>

\* env.step returns an observation that does not advance the clock: _run's
\* handler settles the active submission and the loop ends without a drain
StepInvalid ==
  /\ pc = "stepping"
  /\ Settle({active} \cap Subs, Each("failed"))
  /\ active' = NoSub
  /\ done' = TRUE
  /\ pc' = "closing"
  /\ UNCHANGED <<version, tick, submitted, sub, keys, pending, fences, valid, passed,
                 deferred, native, accepted, ran, stop>>

(* _resolve_deferred_results_locked: the results of the calls that ran in   *)
(* this step settle a deferred action when none of its calls is left, or    *)
(* when they materialized after its expiry.                                 *)
Remaining(s) == {i \in deferred[s] : <<s, i>> \notin DueCalls}
Late(s)      == tick > sub[s].expires
Resolved     == {s \in Deferred : /\ Remaining(s) # deferred[s]
                                  /\ Remaining(s) = {} \/ Late(s)}

\* the accepted action is deferred on the calls it queued
Defers(d) == active # NoSub /\ passed /\ Queued(d) # {}
\* mutant: the deferral of the accepted action is not recorded
LeftWithoutAction(d) == [t \in Subs |-> IF t \in Resolved THEN {} ELSE Remaining(t)]

Left(d) == [t \in Subs |-> IF Defers(d) /\ t = active THEN Queued(d)
                           ELSE IF t \in Resolved THEN {} ELSE Remaining(t)]

\* DELAYED_ACTION_UNRESOLVED_AT_EPISODE_END
Unresolved(d, end) == {t \in Subs : end /\ Left(d)[t] # {}}

StepReturns(d, end) ==
  LET s == active
      answered == IF Defers(d) THEN {} ELSE {s} \cap Subs
  IN  /\ pc = "stepping"
      /\ d \in Delays
      /\ s = NoSub \/ ~passed => Queued(d) = {}
      /\ tick + 1 = Horizon => end
      /\ version' = version + 1
      /\ tick' = tick + 1
      /\ RegistryRuns(s, d)
      /\ deferred' = [t \in Subs |-> IF end THEN {} ELSE Left(d)[t]]
      /\ SettleAndDrain(Resolved \cup Unresolved(d, end) \cup answered, {},
                        [t \in Subs |-> IF t \in answered
                                        THEN IF passed THEN "executed" ELSE "rejected"
                                        ELSE IF t \in Unresolved(d, end) THEN "failed"
                                        ELSE IF Late(t) THEN "expired" ELSE "executed"])
      /\ active' = NoSub
      /\ done' = end
      /\ pc' = "dispatched"
      /\ UNCHANGED <<submitted, sub, keys, pending, fences, valid, passed, accepted,
                     stop>>

\* env.execute_investigation raises: INVESTIGATION_EXECUTION_FAILED
InvestigationRaises ==
  /\ pc = "investigating"
  /\ SettleAndDrain({active}, {}, Each("failed"))
  /\ active' = NoSub
  /\ pc' = "loop"
  /\ UNCHANGED <<version, tick, submitted, sub, keys, pending, fences, valid, passed,
                 deferred, native, accepted, ran, done, stop>>

(* The investigation's own results settle or defer it.  The results of the  *)
(* queued calls that became due are not looked up in                        *)
(* _deferred_action_by_call_id here, unlike in StepReturns.                 *)
InvestigationReturns(d) ==
  LET s == active
  IN  /\ pc = "investigating"
      /\ d \in Delays
      /\ version' = version + 1
      /\ RegistryRuns(s, d)
      /\ deferred' = [deferred EXCEPT ![s] = Queued(d)]
      /\ SettleAndDrain(IF Queued(d) = {} THEN {s} ELSE {}, {}, Each("executed"))
      /\ active' = NoSub
      /\ pc' = "loop"
      /\ UNCHANGED <<tick, submitted, sub, keys, pending, fences, valid, passed,
                     accepted, done, stop>>

-----------------------------------------------------------------------------
EnvironmentReturns ==
  \/ StepRaises
  \/ StepInvalid
  \/ \E d \in Delays, end \in BOOLEAN : StepReturns(d, end)
  \/ InvestigationRaises
  \/ \E d \in Delays : InvestigationReturns(d)

Actor ==
  \/ ClockDue
  \/ InvestigationDue
  \/ LeaveLoop
  \/ DispatchEnds
  \/ Close
  \/ ClockBoundary
  \/ ClockBoundaryFails
  \/ InvestigationBoundary
  \/ InvestigationBoundaryFails
  \/ CandidateCanceled
  \/ CandidateRejected
  \/ ArbitrationFails
  \/ Override
  \/ Supervise
  \/ Commit
  \/ CommitFails
  \/ EnvironmentReturns

Callers ==
  \/ \E p \in Parameters(submitted + 1) : Submit(p)
  \/ \E s \in Subs : Cancel(s)
  \/ Stop

Next == Actor \/ Callers

(* The actor thread keeps running and the environment's calls return; no    *)
(* caller has to do anything.                                               *)
Spec == Init /\ [][Next]_vars /\ WF_vars(Actor)

-----------------------------------------------------------------------------
(* Safety.                                                                 *)

Made == 1 .. submitted
Open == {s \in Made : receipt[s] = "none"}

Executing == pc = "investigating" \/ (pc = "stepping" /\ active # NoSub /\ passed)

(* Every submission without a receipt is in the hands of the actor, in one *)
(* place: pending, a candidate of the dispatch in progress, active, or     *)
(* deferred.  A submission with a receipt is in none of them, unless the   *)
(* actor is done (a failed fence puts the candidates back unexamined).     *)
(* This is what makes receipt_records "one terminal receipt per submitted  *)
(* action": _run's finally block settles the first and the last place.     *)
HeldInOnePlace ==
  /\ Open \subseteq pending \cup valid \cup Deferred \cup {active}
  /\ pending \cap valid = {}
  /\ (pending \cup valid) \cap Deferred = {}
  /\ active \notin pending \cup valid \cup Deferred
  /\ ~done => Settled \cap (pending \cup valid \cup Deferred \cup {active}) = {}

(* Compare-and-swap: what the model asked for is in the environment's      *)
(* hands only while the state version it was decided on is current, inside *)
(* its validity window, and out of reach of Future.cancel.                 *)
DispatchIsCurrent ==
  Executing => /\ sub[active].based = version
               /\ InWindow(active)
               /\ future[active] = "running"

(* A state version has one winner: two accepted actions were decided on    *)
(* the same version only if one of them is an investigation that failed,   *)
(* the one dispatch that does not produce a new version.                   *)
OneWinnerPerVersion ==
  \A s, t \in accepted :
    s # t /\ sub[s].based = sub[t].based => "failed" \in {receipt[s], receipt[t]}

(* Nothing with a caller's cancellation, and no second submission under an *)
(* idempotency key, is ever accepted.                                      *)
AcceptedOnce ==
  /\ \A s \in accepted : future[s] # "cancelled" /\ receipt[s] # "canceled"
  /\ \A s, t \in accepted : sub[s].key = sub[t].key => s = t

(* While a replacement executes, what it replaces has its receipt and none *)
(* of its delayed calls is left in the tool registry.  (A target that was  *)
(* itself in flight when the replacement was submitted raises no fence     *)
(* request; the version check is what keeps that replacement away.)        *)
ReplacedWorkIsGone ==
  Executing /\ sub[active].supersedes # NoSub =>
    /\ sub[active].supersedes \in Settled
    /\ \A i \in Calls : native[<<sub[active].supersedes, i>>] = 0

(* The actor waits only for results that can still come: between dispatches *)
(* every call it lists as pending is queued in the tool registry.           *)
NoOrphanedPendingResult ==
  pc = "loop" /\ ~done =>
    \A s \in Deferred : \A i \in deferred[s] : native[<<s, i>>] # 0

-----------------------------------------------------------------------------
(* What a step may never do.                                               *)

(* A receipt is final.                                                     *)
ReceiptIsFinal ==
  [][\A s \in Settled : receipt'[s] = receipt[s]]_vars

(* A delayed call runs in the backend only while its action is open: never *)
(* after the action was superseded, expired or failed.                     *)
NoEffectAfterReceipt ==
  [][\A c \in ran' \ ran : c[1] \notin Settled]_vars

(* A delayed control that runs has its effect, at the end of the step, not  *)
(* later than the action's expires_at_tick.                                 *)
EffectWithinLifetime ==
  [][\A c \in ran' \ ran :
       sub[c[1]].kind = "control" => tick' <= sub[c[1]].expires]_vars

(* Delayed work is superseded only in the step that accepts its             *)
(* replacement: a rejected, stale or unselected replacement leaves it alone.*)
FenceBelongsToCommit ==
  [][\A s \in Deferred :
       receipt[s] = "none" /\ receipt'[s] = "superseded" =>
         /\ active' \in accepted' \ accepted
         /\ sub[active'].supersedes = s]_vars

(* Fail closed: once the actor is done, or an execution fence has failed,   *)
(* no call of the environment begins.                                       *)
InEnvironment == pc \in {"stepping", "investigating"}
NothingStartsWhenDone ==
  [][done \/ (\E s \in Subs : receipt[s] = "fence_failed") =>
       (InEnvironment' => InEnvironment)]_vars

-----------------------------------------------------------------------------
(* Liveness.                                                               *)

(* Every submission gets its receipt, and its future is resolved for a     *)
(* caller that waits on it.                                                *)
EverySubmissionAnswered ==
  \A s \in Subs :
    submitted >= s ~> receipt[s] # "none" /\ future[s] \in {"done", "cancelled"}

(* A stopped actor's thread ends.                                          *)
StopEndsTheThread == stop ~> pc = "closed"

-----------------------------------------------------------------------------
(* The promise about one action, and the states that stand for its stages. *)

stage == [s \in Subs |->
            IF s \notin Made THEN "unknown"
            ELSE IF receipt[s] # "none" THEN "closed"
            ELSE IF s = active /\ passed THEN "accepted"
            ELSE IF s \in Deferred THEN "pending"
            ELSE "queued"]

Lifecycle == INSTANCE ActionLifecycle WITH Actions <- Subs

(* The actor implements the lifecycle.                                     *)
ImplementsLifecycle == Lifecycle!Spec
EveryActionCloses   == Lifecycle!EveryActionCloses
=============================================================================
