------------------------------ MODULE ToolRegistry ------------------------------
(***************************************************************************)
(* ToolRegistry (core/tool_protocol.py) under the two stages in which an      *)
(* environment uses it in one tick: read-only investigations                  *)
(* (POMDPEnvironment.execute_investigation) and one control stage (step, or   *)
(* stage_control with at most one linked retry, then the advance).            *)
(*                                                                         *)
(* Every call passes, in this order, the budgets of the episode and the tick, *)
(* the idempotency keys, the suppression of duplicates, the cooldown of       *)
(* failed calls, validation, cost and failure injection; it then runs at      *)
(* once or is queued for a later tick, from which it may be canceled.         *)
(*                                                                         *)
(* A call is its content (tool and arguments) and its idempotency key.        *)
(***************************************************************************)
EXTENDS Integers, Sequences, FiniteSets

CONSTANTS
  Contents,         \* tool and arguments of the calls an agent makes
  Tools,
  Tool,             \* the tool of a content
  Changing,         \* tools that change state
  Meta,             \* wait and noop
  Delay,            \* delay_ticks of a tool
  Managed,          \* tools whose handler manages the delay
  Cancelable,       \* managed tools with a cancel_pending callback
  Cost,             \* cost_units of a tool
  Invalid,          \* contents that fail the schema
  Keys, NoKey,      \* idempotency keys
  PerTick,          \* max_tool_calls_per_tick
  CostPerTick,      \* max_cost_units_per_tick
  Total,            \* max_total_tool_calls
  DuplicateWindow,  \* duplicate_suppression_window
  Cooldown,         \* cooldown_after_failure
  Horizon,          \* ticks of the episode
  SharesBudget      \* the adapter's step consumes the budget an investigation opened

ASSUME RegistryAssumption ==
  /\ Tool \in [Contents -> Tools]
  /\ Changing \subseteq Tools /\ Meta \subseteq Tools
  /\ Managed \subseteq Tools /\ Cancelable \subseteq Tools
  /\ Delay \in [Tools -> Nat] /\ Cost \in [Tools -> Nat]
  /\ Invalid \subseteq Contents
  /\ NoKey \notin Keys
  /\ PerTick \in Nat /\ CostPerTick \in Nat /\ Total \in Nat
  /\ DuplicateWindow \in Nat /\ Cooldown \in Nat
  /\ Horizon \in Nat \ {0}
  /\ SharesBudget \in BOOLEAN

VARIABLES
  tick,       \* the simulator's tick
  stage,      \* the stage the environment is in
  open,       \* _within_tick_budget_open
  attempts,   \* _attempts_this_tick
  cost,       \* _cost_this_tick
  total,      \* _attempted_total
  failed,     \* _recent_failures: tick and content
  seen,       \* _recent_calls: tick and signature
  keys,       \* _idempotency_keys: the contents a key was used for, one at most
  queue,      \* _pending_invocations and _pending_results: call and due tick
  retryable,  \* _retryable_injected_failures_this_tick: call and tick
  linked,     \* _linked_retry_parent_ids_this_tick
  faulty,     \* the tools and keys that fail in this tick (fail_rate)
  log,        \* every call that was accepted or failed by injection
  spent       \* calls attempted, and cost, since the simulator's tick began

budget == <<open, attempts, cost, total>>
memory == <<failed, seen, keys, queue>>
retries == <<retryable, linked>>
vars   == <<tick, stage, faulty, budget, memory, retries, log, spent>>

Signatures == (Tools \X Keys) \cup (Contents \X {NoKey})

States == {"injected", "ran", "queued", "delivered", "canceled"}

\* failures are injected by tick, tool and key; at most one such in a tick
Faults == {{}} \cup {{<<Tool[c], k>>} : c \in Contents, k \in Keys \cup {NoKey}}

Entry == [what : Contents, key : Keys \cup {NoKey}, at : 0..Horizon,
          retry : BOOLEAN, state : States]

TypeOK ==
  /\ tick \in 0..Horizon
  /\ stage \in {"idle", "investigation", "control", "staged", "retried"}
  /\ open \in BOOLEAN
  /\ attempts \in 0..PerTick /\ cost \in 0..CostPerTick /\ total \in 0..Total
  /\ failed \subseteq (0..Horizon) \X Contents
  /\ seen \subseteq (0..Horizon) \X Signatures
  /\ keys \in [Keys -> SUBSET Contents]
  /\ queue \subseteq [id : 1..Total, due : 0..(Horizon - 1)]
  /\ retryable \subseteq [id : 1..Total, tick : 0..Horizon]
  /\ linked \subseteq 1..Total
  /\ faulty \in Faults
  /\ log \in Seq(Entry) /\ Len(log) <= Total
  /\ spent \in [calls : Nat, cost : Nat]

Init ==
  /\ tick = 0 /\ stage = "idle" /\ open = FALSE
  /\ attempts = 0 /\ cost = 0 /\ total = 0
  /\ failed = {} /\ seen = {} /\ queue = {}
  /\ keys = [k \in Keys |-> {}]
  /\ retryable = {} /\ linked = {}
  /\ faulty \in Faults
  /\ log = <<>> /\ spent = [calls |-> 0, cost |-> 0]

-----------------------------------------------------------------------------
(* The stages of a tick *)

ToolOf(id) == Tool[log[id].what]

Due == {p \in queue : p.due = tick}

\* queued calls run, some of them failing; results of managed ones are handed
\* out
Materialize(due) ==
  /\ queue' = queue \ due
  /\ log' = [i \in DOMAIN log |-> IF \E p \in due : p.id = i
                                  THEN [log[i] EXCEPT !.state = "delivered"]
                                  ELSE log[i]]
  /\ \E bad \in SUBSET {log[p.id].what : p \in {q \in due : ToolOf(q.id) \notin Managed}} :
       failed' = failed \cup {<<tick, c>> : c \in bad}

\* execute_action opens a tick's budget or goes on with the open one
BeginTick(fresh) ==
  IF fresh
  THEN attempts' = 0 /\ cost' = 0 /\ retryable' = {} /\ linked' = {}
  ELSE UNCHANGED <<attempts, cost, retries>>

Investigate ==
  /\ stage = "idle" /\ tick < Horizon
  /\ stage' = "investigation"
  /\ BeginTick(~open)
  /\ Materialize(Due)
  /\ UNCHANGED <<tick, open, total, seen, keys, faulty, spent>>

EndInvestigation ==
  /\ stage = "investigation"
  /\ stage' = "idle" /\ open' = TRUE
  /\ UNCHANGED <<tick, attempts, cost, total, memory, retries, faulty, log, spent>>

\* mutant: the step forgets that an investigation opened the budget
ControlOpensBudget ==
  /\ stage = "idle" /\ tick < Horizon
  /\ stage' = "control"
  /\ open' = FALSE
  /\ BeginTick(TRUE)
  /\ Materialize(Due)
  /\ UNCHANGED <<tick, total, seen, keys, faulty, spent>>

Control ==
  /\ stage = "idle" /\ tick < Horizon
  /\ stage' = "control"
  /\ open' = (open /\ ~SharesBudget)
  /\ BeginTick(~(SharesBudget /\ open))
  /\ Materialize(Due)
  /\ UNCHANGED <<tick, total, seen, keys, faulty, spent>>

\* the receipts are out; one retry may follow
Stage ==
  /\ stage = "control"
  /\ stage' = "staged"
  /\ UNCHANGED <<tick, faulty, budget, memory, retries, log, spent>>

\* the simulator advances
Advance ==
  /\ stage \in {"control", "staged", "retried"}
  /\ stage' = "idle" /\ tick' = tick + 1
  /\ faulty' \in Faults
  /\ spent' = [calls |-> 0, cost |-> 0]
  /\ UNCHANGED <<budget, memory, retries, log>>

-----------------------------------------------------------------------------
(* One call *)

Signature(c, k) == IF k = NoKey THEN <<c, NoKey>> ELSE <<Tool[c], k>>

\* mutant: any use of a key is taken for the first one
NeverConflicts(c, k) == FALSE

Conflict(c, k) == k # NoKey /\ keys[k] \cup {c} # {c}

FailedRecently(c) == \E f \in failed : f[2] = c /\ f[1] >= tick - Cooldown

\* mutant: the tick at the window's far end is left out
DuplicateOffByOne(c, k) ==
  /\ Tool[c] \notin Meta /\ ~FailedRecently(c)
  /\ \E s \in seen : s[2] = Signature(c, k) /\ s[1] > tick - DuplicateWindow

\* a call that failed recently is left to the cooldown
Duplicate(c, k) ==
  /\ Tool[c] \notin Meta /\ ~FailedRecently(c)
  /\ \E s \in seen : s[2] = Signature(c, k) /\ s[1] >= tick - DuplicateWindow

Refused(c, k, retry) ==
  \/ Conflict(c, k)
  \/ Duplicate(c, k)
  \/ ~retry /\ FailedRecently(c)

Fails(c) == failed' = failed \cup {<<tick, c>>}

Logged(c, k, retry, state) ==
  log' = Append(log, [what |-> c, key |-> k, at |-> tick, retry |-> retry, state |-> state])

\* duplicate suppression and the key's meaning are recorded at submission
Recorded(c, k) ==
  /\ seen' = seen \cup {<<tick, Signature(c, k)>>}
  /\ keys' = IF k # NoKey /\ keys[k] = {} THEN [keys EXCEPT ![k] = {c}] ELSE keys

Charged(c) ==
  /\ cost' = cost + Cost[Tool[c]]
  /\ spent' = [calls |-> spent.calls + 1, cost |-> spent.cost + Cost[Tool[c]]]

Uncharged ==
  UNCHANGED cost /\ spent' = [spent EXCEPT !.calls = @ + 1]

OverCost(c) == cost + Cost[Tool[c]] > CostPerTick

Injected(c, k) == <<Tool[c], k>> \in faulty

\* mutant: due at the horizon, when no tick is left
LateAfterHorizon(c) == Delay[Tool[c]] > 0 /\ tick + Delay[Tool[c]] > Horizon

Late(c) == Delay[Tool[c]] > 0 /\ tick + Delay[Tool[c]] >= Horizon

\* no effect: refused, invalid or over the cost budget
Turned(c, k, retry) ==
  /\ \/ Refused(c, k, retry) /\ UNCHANGED failed
     \/ ~Refused(c, k, retry) /\ c \in Invalid /\ Fails(c)
     \/ ~Refused(c, k, retry) /\ c \notin Invalid /\ OverCost(c) /\ UNCHANGED failed
  /\ Uncharged
  /\ UNCHANGED <<seen, keys, queue, retryable, log>>

Admitted(c, k, retry) == ~Refused(c, k, retry) /\ c \notin Invalid /\ ~OverCost(c)

Inject(c, k, retry) ==
  /\ Admitted(c, k, retry) /\ Injected(c, k)
  /\ Charged(c) /\ Fails(c)
  /\ Logged(c, k, retry, "injected")
  /\ retryable' = IF ~retry /\ Tool[c] \in Changing
                  THEN retryable \cup {[id |-> Len(log) + 1, tick |-> tick]}
                  ELSE retryable
  /\ UNCHANGED <<seen, keys, queue>>

\* charged, although a delay past the horizon is refused
TooLate(c, k, retry) ==
  /\ Admitted(c, k, retry) /\ ~Injected(c, k) /\ Late(c)
  /\ Charged(c)
  /\ UNCHANGED <<memory, retryable, log>>

\* a handler that manages its delay runs, and may fail, now
Enqueue(c, k, retry) ==
  /\ Admitted(c, k, retry) /\ ~Injected(c, k) /\ ~Late(c) /\ Delay[Tool[c]] > 0
  /\ Charged(c) /\ Recorded(c, k)
  /\ Logged(c, k, retry, "queued")
  /\ queue' = queue \cup {[id |-> Len(log) + 1, due |-> tick + Delay[Tool[c]]]}
  /\ UNCHANGED failed \/ (Tool[c] \in Managed /\ Fails(c))
  /\ UNCHANGED retryable

Run(c, k, retry) ==
  /\ Admitted(c, k, retry) /\ ~Injected(c, k) /\ Delay[Tool[c]] = 0
  /\ Charged(c) /\ Recorded(c, k)
  /\ Logged(c, k, retry, "ran")
  /\ UNCHANGED failed \/ Fails(c)
  /\ UNCHANGED <<queue, retryable>>

\* mutant: refused calls cost no attempt, and any number may be made
RoomForCost == total < Total /\ attempts <= PerTick

Room == total < Total /\ attempts < PerTick

Execute(c, k, retry) ==
  /\ Room
  /\ attempts' = attempts + 1 /\ total' = total + 1
  /\ \/ Turned(c, k, retry) \/ Inject(c, k, retry) \/ TooLate(c, k, retry)
     \/ Enqueue(c, k, retry) \/ Run(c, k, retry)
  /\ UNCHANGED <<tick, open, faulty>>

\* read-only tools in an investigation, any tool in the control stage
Call ==
  /\ stage \in {"investigation", "control"}
  /\ \E c \in Contents, k \in Keys \cup {NoKey} :
       /\ stage = "investigation" => Tool[c] \notin Changing
       /\ Execute(c, k, FALSE)
  /\ UNCHANGED <<stage, linked>>

\* an unknown tool or malformed arguments: an attempt, and nothing else
Malformed ==
  /\ stage \in {"investigation", "control"} /\ Room
  /\ attempts' = attempts + 1 /\ total' = total + 1 /\ Uncharged
  /\ UNCHANGED <<tick, stage, open, faulty, memory, retries, log>>

\* one retry, linked to an injected failure of the same tool in this tick; the
\* cooldown is bypassed
Retry ==
  /\ stage = "staged" /\ stage' = "retried"
  /\ \E p \in retryable, c \in Contents, k \in Keys \cup {NoKey} :
       /\ p.tick = tick /\ ToolOf(p.id) = Tool[c] /\ p.id \notin linked
       /\ linked' = linked \cup {p.id}
       /\ Execute(c, k, TRUE)

\* mutant: a canceled call stays in the queue
CancelKeepsCall(p) ==
  /\ log' = [log EXCEPT ![p.id].state = "canceled"]
  /\ UNCHANGED queue

\* a managed call leaves the queue if its callback says so
Dequeue(p) ==
  /\ log' = [log EXCEPT ![p.id].state = "canceled"]
  /\ queue' = queue \ {p}

\* cancel_pending_calls, between two stages
Cancel ==
  /\ stage = "idle"
  /\ \E p \in queue : (ToolOf(p.id) \in Managed => ToolOf(p.id) \in Cancelable) /\ Dequeue(p)
  /\ UNCHANGED <<tick, stage, faulty, budget, failed, seen, keys, retries, spent>>

Next ==
  \/ Investigate \/ EndInvestigation \/ Control \/ Stage \/ Advance
  \/ Call \/ Malformed \/ Retry \/ Cancel

Spec == Init /\ [][Next]_vars

-----------------------------------------------------------------------------
\* Between two advances of the simulator no more calls are attempted, and no
\* more cost is charged, than one tick's budget, whatever the investigations,
\* the control stage and the retry ask for.
OneBudgetPerTick == spent.calls <= PerTick /\ spent.cost <= CostPerTick

\* A queued call is accounted for: it waits in the queue for a tick that is
\* still to come, and no call waits when the episode is over.
QueuedCallsSettle ==
  /\ \A i \in DOMAIN log :
       log[i].state = "queued" <=> \E p \in queue : p.id = i /\ p.due >= tick
  /\ tick = Horizon => queue = {}

\* What became of a call is final: a call that was canceled is not delivered,
\* and one that was delivered is neither canceled nor delivered again.
SettledOnce ==
  [][\A i \in DOMAIN log :
       /\ i \in DOMAIN log'
       /\ log[i].state # "queued" => log'[i] = log[i]]_vars

Accepted(i) == log[i].state # "injected"

\* All calls accepted under one key have the same content, for the episode.
OneMeaningPerKey ==
  \A i, j \in DOMAIN log :
    (Accepted(i) /\ Accepted(j) /\ log[i].key = log[j].key /\ log[i].key # NoKey)
      => log[i].what = log[j].what

SameSignature(i, j) ==
  Signature(log[i].what, log[i].key) = Signature(log[j].what, log[j].key)

Apart(i, j) == log[j].at > log[i].at + DuplicateWindow

\* Two calls with one signature are accepted more than a window apart, though
\* a recent failure turns the suppression off; retries are excepted.
DuplicatesApart ==
  \A i, j \in DOMAIN log :
    (i < j /\ Accepted(i) /\ Accepted(j) /\ SameSignature(i, j)
       /\ Tool[log[j].what] \notin Meta /\ ~log[j].retry) => Apart(i, j)

\* A retry bypasses the cooldown and nothing else: a call that was accepted
\* within the window is not accepted again.
RetriesAreNoDuplicates ==
  \A i, j \in DOMAIN log :
    (i < j /\ Accepted(i) /\ Accepted(j) /\ SameSignature(i, j)
       /\ Tool[log[j].what] \notin Meta /\ log[j].retry) => Apart(i, j)
=============================================================================
