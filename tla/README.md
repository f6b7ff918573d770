# OPERATE in TLA+

OPERATE is a Python benchmark in which LLM agents supervise simulated
infrastructure: power grids, microgrids, buildings, traffic, logistics. An
episode runs an agent against a simulator tick by tick; agents look at the world
and act on it through tools that may fail, be late or be refused. Campaigns run
many episodes in worker processes that share the provider's request quota and
resume after crashes.

This directory models the parts of that program whose correctness depends on
order: of threads, processes, ticks, calls, messages and crashes. What a scorer
computes, what a simulator integrates and what a prompt says are left out.

## The system

| Part | State it keeps | Operations | Talks to |
|---|---|---|---|
| Real-time actor, `runner/realtime_actor.py` | pending and deferred submissions, fence requests, state version, active submission, receipts, stop and done flags | `submit`, `submit_current`, future cancellation, `stop`; clock and investigation dispatch on its own thread | callers through futures, the environment through `step` and `execute_investigation`, the tool registry through `cancel_pending_calls` |
| Turn driver, `AgentTurnDriver` in `runner/realtime_episode.py` | the pool's queue and futures, behavioural snapshots, invalidated, complete and rolled-back turns, audit ranges, cancel outcomes, close flags | `start_turn`, `ingest_observation`, `commit_turn`, `rollback_turn`, `cancel_turn`, `ensure_turn_cancel_outcome`, `close`, and one worker thread | the agent, which it calls, snapshots and restores |
| Coordinator, `RealtimeEpisodeCoordinator` in `runner/realtime_episode.py` | events with their fates, pending events, turns, the current turn and the one that awaits its receipt, deferred observations, the standing plan, the scheduled review | `run`, and the callbacks that the worker and the actor make | driver, actor, receipts and transitions through queues |
| Tool registry, `core/tool_protocol.py`, and the stages of `core/pomdp_env.py` | counts and cost of the tick, recent calls and failures, idempotency keys, queued calls, retryable failures | `execute_action`, `execute_injected_failure_retry`, `cancel_pending_calls`, `begin_tick` | the domain's handlers; called by an environment's stages |
| Episode checkpoint, `runner/checkpoint.py` | the journal, its head file, the cell's lock, the replay cursor | the agent's methods behind a proxy, `assert_replay_complete` | the file system, the agent, the synchronous runner |
| Request limiter, `core/provider_request_limiter.py` | the scope's state file under a lock file | `acquire` | every process that uses the same provider account |
| Worker deadline, `runner/worker_deadline.py` | a child process group, a pipe, two clocks | `run_with_deadline`, `mark_postprocessing_started` | the batch runner above it, native simulators below it |
| Cascade bus and coupled episodes, `core/cascade_bus.py`, `runner/coupled_episode.py` | the history, a delivery batch, subscribers; the common clock, the joint budget, who is done | `publish`, batches; `reset`, `step` | several environments, each a subscriber |
| Batch runner, `scripts/batch_llm_eval.py`, with `evaluation/batch_status.py` and `runner/recovery_audit.py` | rows, worker starts, the invocation summary, the quota sentinel, trajectory directories, archive bindings, recovery audits | one invocation: resume, dispatch, record | worker processes with their replay journals |
| Campaign lane, `scripts/run_eval_campaign.py` | `state.json`, the attempt ledger, held cells, cooldowns | choose, launch, reconcile, charge, close, extend | the batch runner, through its exit and the files it leaves |
| Plan reviews, event protocol | the latest review; none | replace, resolve, finish; classify | the coordinator |
| Synchronous runner, `runner/episode.py` | the loop's locals | `run_episode` | environment, agent, checkpoint |
| Domains, agents, evaluation, data, audits | simulators, prompts, scores | numeric | the parts above |

What is hard in them:

- *Interleaving.* `Future.cancel` and `stop` reach the actor without its lock;
  a turn is canceled by one thread while another one acts for it, and either of
  them has to restore the agent; the coordinator's loop gives its lock back
  between the steps of one transition, and the worker's callbacks come in between;
  processes of one limiter scope race for a file; a child's last message races
  with its exit.
- *Order.* An action may be executed only on the state version it was decided
  on; replaced work is canceled in the commit of its replacement and not before;
  a decision is durable before the environment sees it; the receipt of an action
  comes after the transition it belongs to; callbacks publish while a batch is delivered.
- *Time.* Validity windows, delayed calls and horizons meet on the same tick; a
  limiter's slot is on the wall clock and the sleep on another clock.
- *Failure.* Processes die between two writes: of a journal and its head, of an
  archive binding and the renaming it describes, of a ledger and the state file.
  Cancellation callbacks refuse, tools fail by injection and may be retried once,
  participants raise in the middle of a joint step, natives hang.

What makes them correct, in a sentence each: every submission gets one receipt, and
what is executed is current (actor); a turn is a transaction on the agent's memory
(driver); the agent remembers a turn exactly if the world took its action, up to one
turn that the shutdown may leave undecided, and no event is lost (coordinator); a tick has one budget and a queued call one fate
(registry); the committed prefix is the only thing an episode is made of
(checkpoint); no window and no day holds more requests than the provider allows
(limiter); a job returns in time and leaves nothing running (deadline); an event
is delivered once and a cascade takes a tick (bus, coupled episodes); each failed
attempt is charged once and no evidence is lost in moving it (batch, campaign).

## Modules

| Module | What it is |
|---|---|
| `RealtimeActor`, `MCRealtimeActor`, `RealtimeActorProofs` | `RealtimeEnvironmentActor`, with the environment and the registry's queue as it uses them |
| `ActionLifecycle` | what the actor promises about one action; `RealtimeActor` implements it |
| `TurnDriver`, `MCTurnDriver`, `TurnDriverProofs` | `AgentTurnDriver`, its worker thread and its caller |
| `TurnTransactions` | what the driver promises the coordinator; `TurnDriver` implements it |
| `EpisodeCoordinator`, `MCEpisodeCoordinator`, `EpisodeCoordinatorProofs` | `RealtimeEpisodeCoordinator` between a reduced actor and a reduced driver |
| `ToolRegistry`, `MCToolRegistry`, `ToolRegistryProofs` | `ToolRegistry` under the stages of a tick |
| `EpisodeCheckpoint`, `MCEpisodeCheckpoint`, `EpisodeCheckpointProofs` | `JournaledAgent`, its files and its attempts; the second half of the proofs is about `WorkerDeadline` |
| `RequestLimiter`, `MCRequestLimiter`, `RequestLimiterProofs` | `ProviderRequestLimiter.acquire` in several processes |
| `WorkerDeadline` | `run_with_deadline` and its child |
| `CascadeBus` | the bus: publish, batch, deliver |
| `CoupledEpisode`, `MCCoupledEpisode`, `CoupledEpisodeProofs` | `CoupledEpisodeRunner`, over `CascadeBus` |
| `EvalBatch` | one invocation of the batch runner and what it leaves on disk |
| `EvalCampaign`, `MCEvalCampaign`, `EvalCampaignProofs` | a lane of the campaign, over `EvalBatch` |

`PROJECT.json` maps each definition to the lines it models. Operators that begin a
comment with "mutant" are deliberate mistakes: put in place of a definition they
make a property fail, which shows that the property depends on it.

### How the modules fit together

The coordinator's module does not contain the full driver and the full actor: their
product is out of TLC's reach. It contains the driver's line and worker as
`TurnTransactions` describes them, and the actor as the coordinator sees it: a clock
that takes one action, makes a transition, and puts a receipt in a queue, at once or
when a delayed outcome is there. `TurnDriver` implements `TurnTransactions`.
`RealtimeActor` implements `ActionLifecycle`, and so does the reduced actor in the
hands of the coordinator (`Stage`, `ImplementsLifecycle`): the two meet in that
abstract specification, which is proved of both.
In the other direction, `TurnDriver` assumes of its caller what the coordinator
keeps: one call at a time, one undecided turn, no observation while a turn is
undecided. `CoupledEpisode` extends `CascadeBus` and `EvalCampaign` extends
`EvalBatch`: there both levels take their real steps.

### RealtimeActor

A submission is its number in the order of `_submit_locked`. The code's lists
that are kept in that order are sets, and "newest" is the largest number.

| Code | Model |
|---|---|
| `_pending`, `_active_submission`, `_deferred_submissions`, `_deferred_fence_requests`, `_state_version`, `_done`, `_stop` | `pending`, `active`, `deferred`, `fences`, `version`, `done`, `stop` |
| receipts and futures | `receipt`, `future` |
| the registry's pending calls, and the calls that ran | `native`, `ran` |
| locals `valid`, `candidates`, `selected` of a dispatch | `valid` |
| where `_run` is | `pc` |

The lock is held from the boundary of a dispatch until the dispatch is decided.
Inside that section the actor still takes several steps, because cancellation and
stop do not take the lock. `env.step` and `env.execute_investigation` run without
it: submissions arrive, and the version may move, while they run. The environment
may raise, return an invalid observation, finish early, or queue calls with any
delay the registry would accept. The supervisor's arbitration may pass, reject,
override or raise.

Statuses that differ only in what the simulator did (`effected`, `confirmed`,
`no_effect`) are one; a failed execution fence has one of its own.

### TurnDriver

| Code | Model |
|---|---|
| the executor's queue, `_turn_futures` and `_ingest_futures` | `line`, `future`, `tracked` |
| `_turn_snapshots` | `snapshots`, `snapped` |
| `_invalidated_turns`, `_execution_complete`, `_rolled_back_turns` | `invalidated`, `complete`, `rolledBack` |
| `_turn_provider_ranges`, `_turn_cancel_outcomes` | `range`, `outcome` |
| `_close_requested`, `_agent_closed` | `closing`, `closed` |
| the agent's behavioural state | `memory`, the set of turns and observations whose writes it holds |
| the agent's provider requests and its canceled turns | `requests`, `dropped`, `marked` |

One action is one section under the driver's lock. `snapshot_behavior_state` and
`restore_behavior_state` are outside the lock and take steps of their own, on the
worker (`Restore`, `Restoring`) and on the caller (`ClientRestore`,
`ClientRestoring`). A call of the caller goes on over several steps (`client.at`);
the next call begins when it has ended. Work whose future was canceled stays in the
executor's queue and is passed over when the worker comes to it (`Skip`; in
`TurnTransactions`, `Cancel` and then `PassOver`). `HardCancel` says whether the agent
can close a provider stream. If it can, `StopAgent` stops a turn the agent is in its
call for (`InCall`); for any other turn the agent says no and `cancel_turn` goes on.
After `close` the caller makes no more calls (`client.at = "gone"`).

### EpisodeCoordinator

`co` is everything that the coordinator's lock protects, `main` where `run` is,
`worker` the pool's thread, `clock` the actor's. An event has a kind, a deadline
and a fate: open, delivered to a turn, merged with a newer one of its key, expired,
suppressed, or delegated to the standing plan. A turn remembers its event and what
became of its memory (`held`). One pass of the loop is `Read`, then for each
transition `SettleTransition`, the flushing of deferred observations (`Release` takes
them under the lock, which the settlement has given back; `SubmitObservation`,
`TrackObservation`, `EndFlush`), `IngestTransition`, `Emit`, `InterruptStep`,
`DispatchStep`, and then the receipts (`DrainReceipt`, `Feedback`, `Drained`).
`FinishTurn` is the worker's callback, with the outcomes a turn may have: an action
that is submitted, none, a failure, a missed deadline. A turn that is canceled before
the worker took it stays in the driver's line and is passed over (`Skip`). The end is `Leave`,
`StopActor`, `Join`, a last drain, `Invalidate`, `Suppress` and `CloseDriver`.
`won` and `failed` are history variables: what the world took.

`Join` is `actor.stop()`, which waits two seconds for the actor's thread and then
raises a `TimeoutError` that `run` catches (3858-3861). If the thread is still in
`env.step`, `run` goes on all the same: it processes the transitions and receipts that
are there and takes back the turn that is still awaiting, whose action the step may yet
apply. `main.abandoned` is that turn, or 0 if the actor was through.

`Watched` are the turns whose actions `ImplementsLifecycle` follows: `Stage` reads the
stage of a turn's action off the slot, the clock's hand, the delayed outcomes and the
turn's status. It is a constant because TLC needs a finite set; the runs that do not
ask for this property set it to `{}`.

### ToolRegistry

A call is a content (tool and arguments) and an idempotency key. One step is one
call through the whole chain of `_execute_one_unlinked`: key conflict, duplicate,
cooldown, schema, cost, injected failure, then the handler or the queue. The
stages of a tick are `Investigate .. EndInvestigation`, any number of times, then
`Control`, optionally `Stage` and one linked `Retry`, then `Advance`. Injected
failures are a choice per tick, tool and key, made when the tick begins, because
the code draws them from a hash of exactly these. Calls that the actor cancels
between two stages are `Cancel`. `log` and `spent` are history variables.

A call that arrives without budget changes nothing in the code but its receipt,
so it is no step. Two bounded deques of the code (128 recent calls, 32 failures)
are sets: within the budgets and windows the adapters set they are never full.
`wait` and `noop` are `Meta`. An episode that the simulator ends before its
horizon leaves its queue behind; the model follows episodes to the horizon.

### EpisodeCheckpoint

A journal line is its boundary: what the environment showed and what the agent
decided. The head's hash chain identifies the whole prefix, so `head` is a
sequence. An attempt locks the cell, reads or creates the pair of files, replays
below the saved frontier, and at the frontier asks the agent, appends the line,
replaces the head and only then answers. A crash may come between any two steps,
may leave a torn line, and releases the lock; an append or a replacement may fail;
the journal may be edited by hand. `acts` and `scored` are history variables.

### RequestLimiter

One step per thing that can be interrupted: take the lock, sample the clock,
refuse, report the quota as exhausted, or reserve a slot (replace the state file
and release the lock), then wait. Writes fail before or after the replacement,
holders die, sleeps are interrupted. The wall clock is `uptime - behind`.

### WorkerDeadline

The supervisor's loop, step by step, against a child that may boot, run, mark
postprocessing, write and announce its result, fail, hang or die, and natives it
starts in its group. Time is counted from `started`. A SIGTERM may come at any
step. Two flags record what the supervisor cannot know: `cut`, that the signal
fell between the spawn and the kill, when no pid is stored yet or the clean-up itself
is interrupted; `early`, that the group was killed before the child led one.

### CascadeBus and CoupledEpisode

An event is its number in the history. `stack` holds the deliveries in progress, the
innermost last: a callback that publishes puts a delivery on top, which ends before
the one under it goes on. `flushing` is what is left of a batch that was closed.
A callback that raises is counted (`dropped`, the code's `failed_deliveries`).

`step` of the runner is `Begin` (budgets and clocks before anything moves), `Advance`
for each participant in turn, `CloseBatch`, the deliveries, and `Account`; a
participant that raises leads over `Raise`, `CloseBatch` and `Unwind` to the caller.
An environment's clock may by a fault not go on (`moves`), and its step may end its
episode. `fresh`, `applied`, `early` and `raised` are history variables.

### EvalBatch and EvalCampaign

A cell is a scenario with a seed, an attempt the number of its start. An attempt is
`Submit`, `Start` (a line in `worker_starts.jsonl`), `Bind` and `MoveAside` (the
archive of the attempt before), `Replay`, `Request` and `Commit` for each boundary,
`Finish` or `Supervise`, and `Record` (the row). A row is its kind, its attempt and
the chain of its recovery audit; eight kinds stand for the code's outcomes, and what
the program asks of an outcome (`Retryable`, `NeedsRepair`, `Audited`,
`QuotaExhausted`) is a set of kinds each. Workers hold the lock of the output
directory as long as they live, also when the runner is dead.

The lane is `LaneStart`, `Choose`, `Launch`, `Return`, `Reconcile`,
`ChargeAttempt` for each attempt that is due, and `Close`. `state.json` is written
where the job changes, so `job` is both the memory and the file. Lane and runner may
die at any step, workers with or after the runner. `settled` and `lost` are history
variables.

## What is checked

| Run | States | Shows |
|---|---|---|
| `realtime_actor_three` | 1.9 M | three submissions that compete, replace and are canceled: one winner per version, an accepted action submitted once, replaced work gone with its replacement and not before |
| `realtime_actor_windows` | 0.4 M | two submissions of two calls with short windows and delays over three ticks: dispatched only while current, effects inside the lifetime and before the receipt, everything answered, and each step a step of `ActionLifecycle` |
| `turn_driver` | 0.4 M | two turns and an observation, canceled and rolled back at any point: a turn that is not committed leaves nothing in the agent's memory, the audit range of a turn holds its own requests only, the agent is closed after its last work, all work ends and every call returns, and each step is a step of `TurnTransactions` |
| `episode_coordinator` | 1.8 M | events, turns, receipts and observations between worker, loop and clock: one open transaction, the agent remembers a turn exactly if the world took it (but for the turn that a timed-out stop leaves with the actor), no event without a fate, turns admitted only between the transitions of the loop, the episode ends |
| `tool_registry` | 3.0 M | one budget per tick over all stages, one meaning per key, equal calls a window apart, queued calls settled once and in time |
| `episode_checkpoint` | 0.2 M | nothing acted before it is durable, the model asked only at the frontier, only whole committed episodes scored, a broken pair held for inspection |
| `request_limiter` | 0.8 M | rolling window and daily budget over midnight, crashes and failed writes; no early return, and every waiting caller decided |
| `worker_deadline` | 0.2 M | the call returns and leaves nothing running |
| `coupled_episode` | 1.5 M | two participants and an auditing subscriber that publish from callbacks and raise: each event delivered once to each subscriber, a cascade takes a tick, the report of a step is exact, the clocks move in lock step |
| `eval_campaign` | 4.0 M | two cells over three invocations with deaths, quota and repairs: each failed attempt charged once, no cell over its budget, archives found after any death, a cell's audit chain complete when it closes |

Runs that end in a violation show a disagreement between the code and what it,
its tests or its documents say:

| Run | The disagreement |
|---|---|
| `realtime_actor_orphan` | an investigation runs a delayed control without telling the action that waits for it; that action is later failed although it took effect |
| `campaign_deaths` | an attempt that is killed after a request was answered and before anything was recorded is in no audit: the next attempt's audit closes without it, although `docs/FRAMEWORK_RECOVERY.md:97-100` says that such deaths "leave recovery accounting unclosed" |

Eight more configurations are beside these and end in a violation as well. Each checks
one property, with `tlc -config <config> <module>`:

| Config | Module | Property | The disagreement |
|---|---|---|---|
| `ToolRegistry_unshared` | `MCToolRegistry` | `OneBudgetPerTick` | three adapters' steps open a second budget in a tick that had an investigation (`SharesBudget = FALSE`) |
| `ToolRegistry_retry` | `MCToolRegistry` | `RetriesAreNoDuplicates` | a linked retry repeats a call that duplicate suppression should refuse: the failure it answers turned suppression off, and the retry bypasses the cooldown |
| `WorkerDeadline_lost` | `WorkerDeadline` | `ResultNotLost` | a child that delivers its result and exits between a poll and `is_alive` is reported as having exited without one |
| `RequestLimiter_mixed` | `MCRequestLimiter` | `OwnStateReadable` | processes that share a scope with different limits write a file that every later call refuses |
| `TurnDriver_proof` | `MCTurnDriver` | `ProofIsKept` | `cancel_turn` overwrites (`realtime_episode.py:1942`) the proof of the stream's end that the worker had merged, which the docstring at 358 says is kept |
| `EpisodeCoordinator_ingest` | `MCEpisodeCoordinator` | `IngestionDeferred` | an observation is submitted after the lock was given back (2203–2214), so it may follow the snapshot of a turn that began in between; `docs/AGENTIC_INTERACTION.md:381` says it is deferred |
| `EpisodeCoordinator_latest` | `MCEpisodeCoordinator` | `LatestWins` | an older event that is queued again replaces a newer one of its kind (2575–2666); the same document says the latest wins |
| `EvalCampaign_repair` | `MCEvalCampaign` | `RepairHeld` | a cell that `docs/FRAMEWORK_RECOVERY.md` wants held for repair is launched again, as `docs/EVALUATION_RECOVERY.md:27` describes it |

One more configuration passes, and is beside the runs because its property is proved:
`EpisodeCoordinator_actor` of `MCEpisodeCoordinator` checks `ImplementsLifecycle` over
0.6 M states. The coordinator hands the actor a turn's action once at most and never one
of a turn that is over, and the reduced actor answers it as `ActionLifecycle` says. With
`LateForCoordinator` in place of `Late` it fails.

### What else the models showed

- *Coordinator.* If `env.step` takes longer than the two seconds of `actor.stop()`, the
  agent's memory of the awaiting turn is rolled back, and the step may apply that turn's
  action afterwards. Without the exception for `main.abandoned` TLC finds
  `MemoryFollowsWorld` violated. No document promises otherwise for an episode that is
  cut off, so that this is an exception of the property and not a finding.
- *Coupled episodes.* The calls of a participant that raises are not charged to the
  joint budget. A participant that finished in a step that another one aborted is not
  asked for its clock again. The deliveries of an aborted step are made but recorded in
  no report. Nothing in the repository calls `bus.reset`.
- *Campaigns.* A row that is parked for quota hides the audits of the attempts before
  it, so that the chain of that cell can never be closed as complete. An extension of
  the ledger whose process dies before it writes `state.json` leaves the hold in place.
- *Limiter.* A clock that is set back over midnight makes the limiter count the day that
  comes again from zero, so that day may get more than `rpd_limit` slots.
- *Deadline.* The limits documented (21,600 and 10,800 s in
  `docs/EVALUATION_RECOVERY.md`) are not the defaults of `runner/worker_deadline.py`
  (172,800 and 43,200 s); the model takes both as constants.

### Bounds

- *Actor.* Two submissions are enough for a race between an action and its
  replacement; the third lets two replacements compete for one target and a
  version have two candidates while work is deferred (`three`: `Horizon = 2`, one call
  each). The horizon of three ticks fits a submission, a delay of two and the boundary
  after it (`windows`: two calls each). Windows open at the current or the next tick
  and close a tick later, or never close.
- *Driver.* Two turns and one observation: work queued behind a turn that is being
  undone, and a later turn after it; two provider requests (`MaxRequests`); streams
  that can be closed (`HardCancel = TRUE`).
- *Coordinator.* Two ticks (`MaxTicks`) and two realized events (`MaxNews`), which come
  together in one transition, an alarm with a forecast, or not at all: an event that
  interrupts, one that loses and is queued, one that is delegated. Alarms that are
  merged and warnings are in the configurations beside the runs. An action is applied at once or deferred. One review
  delay; expiry without a grace period (`Window = 0`). For `EpisodeCoordinator_actor` two ticks
  and one warning, no reviews, and an action that is applied, deferred, rejected or stale;
  at most five turns begin, and all five are watched.
- *Registry.* Three attempts (`Total`) and two per tick and a cost of two per tick over
  three ticks (`Horizon`): all budgets bind, and a window of one tick is played out on
  either side (the adapters use two or three, with the same comparison). A key may be
  used on different contents. One failure is injected per tick and key; a handler may
  fail at any call.
- *Checkpoint.* Three boundaries and four attempts by two processes give a
  crash, a replay of some lines, an extension and a replay of all. One edit by hand.
- *Limiter.* Two callers and four requests, two slots per window of three, three a day
  of five, six units of time, a clock set back by one: a full window, a midnight inside
  a window, an exhausted day, and a file from the future.
- *Deadline.* Limits of three and one, four units of time, two natives, two marks.
- *Coupled.* Two participants and a subscriber that only listens; two ticks, two
  events, budgets of one call and one unit: a cascade of length two inside a batch, a
  budget that one participant uses up before the other one.
- *Campaign.* Two cells and one worker, so that a death always leaves something
  undone; two boundaries per attempt; three invocations and three starts of a cell against a
  budget of two attempts; one death and one extension of the budget.

`CHECK_DEADLOCK FALSE` is set in all of them: episodes, calls and campaigns end, and a
run stops when its bounds are used up. Symmetry is used where callers, workers,
participants or cells are interchangeable and only safety is checked.

### Fairness

The actor thread runs while it can: `WF_vars(Actor)`. Nothing is assumed of callers.
The driver's worker goes on, and so does a call of its client; no call must come.
`WorkEnds` asks that every call which was made returns, so that a call that is stuck
is not hidden by the deadlocks that are allowed.
In the coordinator, `WF` of the main loop, and `SF` of `Leave`, whose condition is the
wall time of the episode: it is asked at every pass and stays true once it is. Worker
and actor need none: neither a turn that never comes back nor a step of the environment
that hangs keeps an episode from its end, because the wait for the one has a grace
period and the wait for the other a timeout.
A process that holds the limiter's lock goes on, and the kernel grants the lock
in turn: `WF` of the holder's steps, `SF` of taking the lock, which is free again
and again but not always. For a worker under a deadline, the supervisor runs and time
passes; nothing is asked of the child, which is the point of the deadline. Checkpoint,
registry, coupled episodes and campaigns promise nothing in time by themselves, and
have no liveness.

## What is proved

The theorems hold for every number of submissions, calls, ticks, processes,
participants and boundaries, and every limit; the assumptions are the `ASSUME`s of the
modules (types of the constants) and those named below.

- *RealtimeActor* (`RealtimeActorProofs`). `TypeCorrect`; `EverySubmissionHeld`:
  `HeldInOnePlace`; `DispatchCurrent`: `DispatchIsCurrent`; `ReceiptsFinal`;
  `VersionWonOnce`: `OneWinnerPerVersion`. The argument has layers. `Control`
  says where the actor's locals may be used at all. `Places` adds which futures
  and receipts go with which place: a submission is placed once and loses its
  place as it is settled, so it is never settled twice. `CandidatesCurrent` carries the
  version and window test from the boundary to the dispatch: neither can
  change under the lock. `VersionsSpent` says that a version with an accepted
  action is over, unless that action is in flight or was an investigation that failed.
- *RealtimeActor, what it executes* (the second half of the same module). `OnceAccepted`:
  `AcceptedOnce`; `EffectsOfOpenActions`: `NoEffectAfterReceipt`; `EffectsInTime`:
  `EffectWithinLifetime`; `ReplacedGone`: `ReplacedWorkIsGone`; `LifecycleImplemented`:
  `ImplementsLifecycle`. What the registry queues is what a deferred action waits for
  (`QueueOwned`), so a call that runs has an open action; what is still deferred after
  the boundary of a dispatch outlives it (`TimeLeft`). A queued replacement either asked
  for the fence of the work it replaces or was decided on a version that is over
  (`TargetsAsked`), so the commit clears that work. For the refinement, the stage of
  an action is read off the place its submission is in (`StageOf`), and a step
  of the actor moves submissions between places only as the lifecycle allows (`Moves`).
- *RealtimeActor, what a step may never do* (the end of the same module). `FailsClosed`:
  `NothingStartsWhenDone`; `FencesOfCommits`: `FenceBelongsToCommit`. A submission
  gets `superseded` in one place only, the commit of a dispatch, and every other
  settlement gives what `Ordinary` lists (`OrdinaryReceipts`); a failed fence leaves
  the actor done (`FailedClosedStep`), and `done` is never taken back (`DoneStays`).
- *ToolRegistry* (`ToolRegistryProofs`). `TypeCorrect`; `CallsSettle`:
  `QueuedCallsSettle`; `CallsSettleOnce`: `SettledOnce`; `KeysKeepTheirMeaning`: `OneMeaningPerKey`;
  `DuplicatesKeptApart`: `DuplicatesApart`; and, if every stage of a tick shares its
  budget (`SharesBudget`), `TickBudgetKept`: `OneBudgetPerTick`. Without that assumption
  the last one is false, as `ToolRegistry_unshared` shows. `Counted` ties the counters
  of the tick to what was spent in it, `QueueInv` a queued call to its tick and its
  line in the log, `Remembered` the recent calls to the log: a call that is too young
  to be repeated is still remembered. `Books` joins keys to log lines.
- *EpisodeCheckpoint* (`EpisodeCheckpointProofs`). `TypeCorrect`,
  `OnlyDurableActions`, `NoResampling`, `CommittedForGood`; `WholeEpisodesScored`:
  `ScoredIsCommitted`; `BrokenPairsHeld`: `HeldForInspection`. The invariant is that at
  most one attempt holds the cell (`OneAttempt`) and that each attempt `Follows` the
  head: its records are the head, except inside the append, where the head is behind
  by the line in progress; its session and its environment have been through what
  its cursor has passed. Prefixes are compared by index (`PrefixByIndex`). The two last
  ones read off it that an attempt which ends well is at the end of the head, and that
  an idle cell with a broken pair refuses every attempt.
- *RequestLimiter* (`RequestLimiterProofs`). For any limits and any clock: `TypeCorrect`;
  `NeverGrantedEarly`: `GrantedOnTime`; `RefusedOnlyWhenSpent`: `ExhaustedWhenSpent`.
  With the same limits for all processes (`Uniform`): `WindowKept`: `RollingWindow`;
  `BudgetKept`: `DailyBudget`; both speak of the time until the clock is set back.
  If it never is (`MaxBehind = 0`), `FileKeptReadable`: `OwnStateReadable`. The
  invariant ties the file to the history of reservations: the file remembers every
  slot of the last window, forgot only older ones, and counts the slots of its day.
  It holds until the clock is set back (`Until`). Without these conditions the
  properties are false: `RequestLimiter_mixed` shows the one, the refused file and the
  day that is counted twice, both after a backward step, the other.
- *WorkerDeadline* (the second half of `EpisodeCheckpointProofs`, because it is the
  process an attempt runs in; its definitions have names of their own, such as
  `DeadlineSpec`, so that one module can extend both). `DeadlineTypes`;
  `NothingLeft`: `NothingLeftBehind`; `ResultComplete`: `ResultIsComplete`;
  `ChargedFromFirstMark`: `PostprocessingCharged`. What is told over the pipe is true when it
  is received, because files stay and marks are only appended.
- *CoupledEpisode* (`CoupledEpisodeProofs`, which needs the bus as well).
  `TypeCorrect`; `DeliveredExactlyOnce`: `DeliveredOnce`; `CascadeTakesATick`:
  `NeverEarly`; `LockStepKept`: `LockStep`; `ReportExact`: `ReportIsExact`. An event is
  in one place (`OnePlace`: waiting in the batch, being flushed, on the stack, or
  through), what was delivered of it is exactly what its place says (`Progress`), and
  no place holds it twice (`OnceEach`). `Phases` says which places are empty in which
  phase of a step; `Unseen` that a participant has not seen what was published while
  it moved; `Clocks` and `Reported` carry the two remaining properties through a step.
- *EpisodeCoordinator* (`EpisodeCoordinatorProofs`). For any news, verdicts, review delays
  and numbers of ticks: `TypeCorrect`; `OneTransactionHolds`: `OneTransaction`;
  `MemoryFollows`: `MemoryFollowsWorld`; `EventsKept`: `NoEventLost`; `TurnsBetweenTicks`:
  `AdmittedBetweenTicks`; `InterruptedWait`: `InterruptedEventsWait`. The code's helpers call one another, so that a single callback may
  close a turn, flush observations, open an event, interrupt and start the next turn. The
  invariant is therefore a predicate `Good` of the coordinator's record, which each operator
  takes and gives back, and a step is a chain of such lemmas. `Good` says that the turn in
  flight is `current`, the one with the actor `awaiting`, and no other one undecided
  (`Transaction`); that a turn is once in the line or with the worker (`InLine`); that a turn
  which may still be answered is unknown to the actor, and what was committed or rolled back
  agrees with what the world took, but for the turn stop left with the actor (`World`,
  `Left`); and that the open events are the pending ones
  and the one the main loop has in hand (`Events`). Without `InLine` a late callback could
  answer for a turn that is already with the actor. `Actor` says that an answer tells who
  won, `Loop` how far the main loop is behind the clock, `Ending` what is over in which
  phase of the shutdown. TLC checked this invariant on the run's instance before it was
  proved. For `InterruptedWait` each step of the main loop is asked whether it can take the
  turn in flight back: only `Supersede` can, and an event of a higher priority has another
  key, so that queueing it does not push the old one out (`StartLeaves`).
  `ActorKeepsLifecycle`: `ImplementsLifecycle`, for any turns that are `Watched`. Three steps
  of the clock map to `Accept`, `Answer` and `Withdraw` (`BeginTickMaps`, `EndTickMaps`,
  `CloseActorMaps`); every other step leaves the actor alone or gives it the action of the
  turn in flight, which ceases to be in flight with it (`ActorLeftAlone`,
  `ActorGetsAction`). To see that a turn which is over is never `unknown` again, `Admitted`
  says of each operation that a turn opened by it is the current one.
- *TurnDriver* (`TurnDriverProofs`). `TypeCorrect`; `ClosedLast`: `ClosedAfterWork`;
  `RangesAreExact`: `OwnRange`; `NothingLeftBehind`: `NoTrace`;
  `TransactionsImplemented`: `ImplementsTransactions`. First, the worker, the
  executor's queue, the call in progress and the lists of futures agree on which work
  is queued, running or over (`WorkerOk`, `LineOk`, `ClientOk`, `TrackedOk`). Then one
  turn at most is undecided, and of the worker and the caller only one restores it
  (`LiveOk`, `TurnsOk`). The heart is `Claimable`, `Written` and `Held`: as long as a
  turn's snapshot can be claimed, nobody but that turn has written to the agent since it
  was taken, so that writing it back takes out that turn's writes and no others; `Erased`
  draws the conclusion. `Ranges` counts a turn's provider requests in the same way. In
  the refinement the phase of a turn is read off its future, its snapshot and its flags,
  and the abstract queue is the executor's.
- *EvalBatch and EvalCampaign* (`EvalCampaignProofs`). `TypeCorrect`; `EvidenceIsFound`:
  `EvidenceFound`; `LineageIsComplete`: `LineageComplete`; `LedgerExact`:
  `LedgerIsExact`; `BudgetKept`: `BudgetHolds`. Whatever dies, `Placed` says whose
  artifacts a directory holds in each stage of a worker: nothing is moved that was
  recorded and not bound. `RowChain` and `Lineage` say that an audit goes on from the one
  on record; an audit whose entries are all known names what was recorded. For the
  ledger, `Sound` says that a charge, made or due, belongs to a start that counts, and
  `Full` that such a start is charged or belongs to the last invocation; when no
  invocation is open the two meet in `LedgerIsExact`. The charge follows the
  start by a whole invocation, so the budget is kept for another reason (`Room`):
  whatever is to be started has an attempt left. When the runner boots, every start that
  counts is charged (`Full`), a cell whose budget is spent is held (`HoldsOk`), and a
  held cell is not dispatched; from there on an invocation starts a cell once
  (`BatchOk`). `LaneOk` and `Unblocked` say which invocation the lane waits for, and
  that a job goes on only if a cell is not held. This invariant was checked by TLC on
  three instances (that of the run; one cell with four starts, three deaths and two
  extensions; two cells with a budget of one and two deaths) before it was proved.

Model-checked only: the liveness properties (`EverySubmissionAnswered`, `WorkEnds`,
`EpisodeEnds`, `EveryCallDecided`, `Finishes`) and everything else about `ENABLED`, which are out of
the prover's reach.

Proved and in no run any more, because the theorem says more than the instance:
`TypeOK` of the modules with proofs, `HeldInOnePlace`, `ReceiptIsFinal`, `HeadGrows`,
`OwnStateReadable`, `ExhaustedWhenSpent`, `ResultIsComplete`, `PostprocessingCharged`,
`InterruptedEventsWait`, `SettledOnce`, `NothingStartsWhenDone`, `FenceBelongsToCommit`, the
coordinator's `ImplementsLifecycle`.
Stated for a reader who wants to run them, in no run of the manifest and, as liveness, not
proved: `StopEndsTheThread`, `EveryActionCloses`.

## What is not modelled

The simulators, agents, scorers, reports, file formats and admission contracts, for
they compute and do not interact. Of the modelled parts: the content of receipts and
traces, the state deltas of the journal, JSON schemas, the hashing of scopes. Also
not in the models:

- *Actor and registry:* `execute_investigation` that raises after its calls ran
  (`pomdp_env.py:212-240`, while it logs or binds their results). In `InvestigationRaises`
  nothing has run; in `EndInvestigation` the tick's budget stays open, which such a raise
  would keep from being marked.
- *Actor and deadline:* exceptions between the actor's taking of its pending list and
  its choice of an action; pids that are used again; natives that leave their process
  group; an environment object that is reset and used again.
- *Coordinator:* steering, the feedback of tool results, telemetry, and list operations
  of the main thread and the callback that meet inside one step of the interpreter.
- *Bus:* topics (an event goes to all who may see it), and `reset`. Batches are
  counted as in the code, but the coupled runner, its only user, opens one at a time,
  so that a batch inside a batch is not exercised.
- *Campaigns:* a supervised row of a worker that died before its line in
  `worker_starts.jsonl` (`batch_llm_eval.py:4842-4870` says `execution_started` of it all
  the same); `Supervise` settles workers with a recorded start. Also finalization, the STOP file, the repair of metadata, the recovery of
  postprocessing, the import of ledgers from older versions, the scheduler that shares
  models over lanes, and real-time campaigns, which have a script of their own. The
  orphan of a runner that died while its worker booted has the lock before the next
  launch.
- *Without a module:* the classes of the event protocol (a pure table), the
  supervision of natives by sidecars, the clock profile, the synchronous runner apart
  from its use of the checkpoint, POMDP helpers, counterfactual replay. They have
  little state, or their state is the simulator's. Data, audits and release scripts
  run once, alone, over files that do not change; by lines they are most of the
  repository, together with domains, agents and scorers.

## Plan

1. `AbstractBudget`: what the registry promises of one tick, as an abstract
   specification that `ToolRegistry` implements; then `ToolRegistry` under the actor in
   place of the actor's own `native`.
2. `StateDelta`: `_state_patch` and `_apply_patch` of the checkpoint, with the round
   trip checked over small states.
3. `NativeSupervision`: the sidecars' client, its retries and restarts.
4. The real-time campaign script, against `EvalCampaign`.
5. Proofs: that `ToolRegistry` implements `AbstractBudget`.
