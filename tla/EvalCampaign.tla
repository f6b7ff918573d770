----------------------------- MODULE EvalCampaign -----------------------------
(***************************************************************************)
(* A lane of the evaluation campaign (scripts/run_eval_campaign.py) with one *)
(* job: it launches one invocation of the batch runner at a time, closes it  *)
(* from what the runner left on disk, charges the failed attempts of each    *)
(* cell to a ledger and holds the cells that must not run again.  The lane,  *)
(* the runner and the workers die independently.                             *)
(*                                                                         *)
(* state.json is written at the end of Start, Choose and Close, which is     *)
(* where the job changes, so that `job` is both the memory and the file.     *)
(***************************************************************************)
EXTENDS EvalBatch

CONSTANTS MaxAttempts,      \* max_episode_attempts
          MaxInvocations,   \* bound: invocations of the runner
          MaxDeaths,        \* bound: deaths of the lane or of the runner
          MaxExtensions     \* bound: --extend-attempts 1

ASSUME CampaignAssumption ==
  /\ MaxAttempts \in Nat \ {0} /\ {MaxInvocations, MaxDeaths, MaxExtensions} \subseteq Nat

VARIABLES lane,       \* where the lane's process is, and what it has yet to charge
          job,        \* the job's entry in state.json
          ledger,     \* attempts.jsonl: charges, in the order of their writing
          extra,      \* attempts.jsonl: the extensions of each cell's budget
          pool,       \* the provider pool of the job cools down
          deaths

campaignVars == <<lane, job, ledger, extra, pool, deaths>>
vars == <<batchVars, campaignVars>>

Holds == {"no", "budget", "repair", "cooldown"}
Charge == [cell : Cells, id : Attempts]

CampaignTypeOK ==
  /\ BatchTypeOK
  /\ lane \in [at : {"off", "loop", "launch", "wait", "charge"}, due : SUBSET Charge]
  /\ job \in [status : {"ready", "attention", "closed"},
              reason : {"none", "exhausted", "held", "access", "interrupted", "missing"},
              held : [Cells -> Holds], cool : SUBSET Cells, waits : BOOLEAN,
              pending : Nat, inv : 0..MaxInvocations, active : BOOLEAN]
  /\ ledger \in Seq(Charge) /\ extra \in [Cells -> 0..MaxExtensions]
  /\ pool \in BOOLEAN /\ deaths \in 0..MaxDeaths

Init ==
  /\ BatchInit
  /\ lane = [at |-> "off", due |-> {}]
  /\ job = [status |-> "ready", reason |-> "none", held |-> [c \in Cells |-> "no"],
            cool |-> {}, waits |-> FALSE, pending |-> 0, inv |-> 0, active |-> FALSE]
  /\ ledger = <<>> /\ extra = [c \in Cells |-> 0] /\ pool = FALSE /\ deaths = 0

(* restore_attempt_ledger: the counts are rebuilt from the ledger. *)
Charged == {ledger[i] : i \in DOMAIN ledger}
Failures(c) == Cardinality({x \in Charged : x.cell = c})
HeldCells(j) == {c \in Cells : j.held[c] # "no"}

----------------------------------------------------------------------------
\* mutant: a cell is held one attempt too late
UpdateHoldsLate(j, more) ==
  [j EXCEPT !.held = [c \in Cells |->
     IF Failures(c) > MaxAttempts + more[c] THEN "budget" ELSE j.held[c]]]

(* update_cell_holds, for the extensions that the ledger has by then *)
UpdateHolds(j, more) ==
  LET h == [j EXCEPT !.held = [c \in Cells |->
              IF /\ j.held[c] # "repair" /\ Failures(c) > 0
                 /\ Failures(c) >= MaxAttempts + more[c]
              THEN "budget" ELSE j.held[c]]]
      held == HeldCells(h)
      blocked == held # {} /\ h.pending <= Cardinality(held)
      cooling == \E c \in held \cap h.cool : h.held[c] = "cooldown"
  IN CASE h.reason = "access" -> h
       [] h.reason # "access" /\ blocked /\ cooling ->
            [h EXCEPT !.status = "ready", !.waits = TRUE]
       [] h.reason # "access" /\ blocked /\ ~cooling ->
            [h EXCEPT !.status = "attention",
                      !.reason = IF \A c \in held : h.held[c] = "budget"
                                 THEN "exhausted" ELSE "held"]
       [] h.reason # "access" /\ ~blocked /\ h.reason \in {"exhausted", "held"} ->
            [h EXCEPT !.status = "ready", !.reason = "none"]
       [] OTHER -> h

(* refresh_cell_cooldowns, when the time of some cells has come.  The job    *)
(* waits for the first of the cells that are held for their cooldown.        *)
Refreshed(j, over) ==
  [j EXCEPT !.cool = @ \ over,
            !.held = [c \in Cells |-> IF c \in over /\ @[c] = "cooldown" THEN "no" ELSE @[c]],
            !.waits = @ /\ \A c \in over : j.held[c] # "cooldown"]

(* worker, before its loop *)
LaneStart ==
  /\ lane.at = "off"
  /\ lane' = [at |-> "loop", due |-> {}]
  /\ \E over \in SUBSET job.cool : job' = UpdateHolds(Refreshed(job, over), extra)
  /\ UNCHANGED <<batchVars, ledger, extra, pool, deaths>>

(* choose_job; a job with an orphaned runner waits for it *)
Choose ==
  /\ lane.at = "loop" /\ ~job.active /\ job.status = "ready" /\ ~job.waits /\ ~pool
  /\ ~Locked /\ job.inv < MaxInvocations
  /\ job' = [job EXCEPT !.active = TRUE, !.inv = @ + 1]
  /\ lane' = [lane EXCEPT !.at = "launch"]
  /\ UNCHANGED <<batchVars, ledger, extra, pool, deaths>>

(* The held cells go with the command.  (A runner that a dead lane launched    *)
(* has got its lock by the time another one is launched.)                    *)
Launch ==
  /\ lane.at = "launch" /\ batch.at = "off"
  /\ batch' = [NotRunning EXCEPT !.at = "boot", !.inv = job.inv, !.held = HeldCells(job)]
  /\ lane' = [lane EXCEPT !.at = "wait"]
  /\ UNCHANGED <<run, disk, settled, lost, job, ledger, extra, pool, deaths>>

(* subprocess.run *)
Return ==
  /\ lane.at = "wait" /\ batch.at = "off"
  /\ lane' = [lane EXCEPT !.at = "loop"]
  /\ UNCHANGED <<batchVars, job, ledger, extra, pool, deaths>>

----------------------------------------------------------------------------
(* What the runner left: a completed summary of this invocation, a summary    *)
(* that says which cells it was to run, or nothing of use.                    *)
Completed == summary.status = "completed" /\ summary.inv = job.inv
Interrupted == summary.status = "running" /\ summary.inv = job.inv /\ summary.dispatched # {}

Transport(k) == k \in {"transport", "deadline"}

\* mutant: an interrupted invocation is charged for what it left unsettled only
DueUnsettled ==
  IF Completed
  THEN {[cell |-> c, id |-> journal[c].id] :
          c \in {d \in summary.dispatched : Transport(journal[d].kind)}}
  ELSE {[cell |-> s.cell, id |-> s.id] :
          s \in {t \in starts : t.inv = job.inv /\ journal[t.cell].id # t.id}}

(* apply_invocation charges the failed attempts that the summary lists, and    *)
(* interrupted_attempts those that were started and not settled as well.      *)
Due ==
  IF Completed
  THEN {[cell |-> c, id |-> journal[c].id] :
          c \in {d \in summary.dispatched : Transport(journal[d].kind)}}
  ELSE {[cell |-> s.cell, id |-> s.id] :
          s \in {t \in starts : /\ t.inv = job.inv
                                /\ \/ journal[t.cell].id # t.id
                                   \/ Transport(journal[t.cell].kind)}}

Reconcile ==
  /\ lane.at = "loop" /\ job.active /\ ~Locked
  /\ IF Completed \/ Interrupted
     THEN lane' = [at |-> "charge", due |-> Due] /\ UNCHANGED job
     ELSE /\ job' = [job EXCEPT !.active = FALSE, !.status = "attention", !.reason = "missing"]
          /\ UNCHANGED lane
  /\ UNCHANGED <<batchVars, ledger, extra, pool, deaths>>

(* charge_attempt: to the ledger before anything else *)
ChargeAttempt ==
  /\ lane.at = "charge"
  /\ \E x \in lane.due :
       /\ lane' = [lane EXCEPT !.due = @ \ {x}]
       /\ ledger' = IF x \in Charged THEN ledger ELSE Append(ledger, x)
  /\ UNCHANGED <<batchVars, job, extra, pool, deaths>>

(* apply_invocation: of the attempts that failed at the transport, some name   *)
(* a time to retry at.                                                        *)
AfterCompletion(timed) ==
  LET access == \E c \in summary.dispatched : journal[c].kind = "config"
      repair == {c \in ToRepair : TRUE} \cup {c \in summary.dispatched : NeedsRepair(journal[c].kind)}
      j == [job EXCEPT
              !.active = FALSE, !.pending = summary.pending, !.waits = FALSE,
              !.status = IF access THEN "attention" ELSE "ready",
              !.reason = IF access THEN "access" ELSE @,
              !.held = [c \in Cells |-> CASE c \in timed -> "cooldown"
                                          [] c \in repair \ timed -> "repair"
                                          [] OTHER -> job.held[c]],
              !.cool = @ \cup timed]
      u == UpdateHolds(j, extra)
  IN IF summary.pending = 0 /\ HeldCells(u) = {} /\ u.status # "attention"
     THEN [u EXCEPT !.status = "closed"] ELSE u

AfterInterruption ==
  LET blocked == \E s \in starts : /\ s.inv = job.inv /\ journal[s.cell].id = s.id
                                   /\ journal[s.cell].kind = "config"
      j == [job EXCEPT !.active = FALSE, !.pending = summary.pending, !.waits = FALSE]
  IN IF blocked THEN [j EXCEPT !.status = "attention", !.reason = "access"]
     ELSE UpdateHolds([j EXCEPT !.status = "ready", !.reason = "interrupted"], extra)

Close ==
  /\ lane.at = "charge" /\ lane.due = {}
  /\ IF Completed
     THEN /\ \E timed \in SUBSET {c \in summary.dispatched : journal[c].kind = "transport"} :
               job' = AfterCompletion(timed)
          /\ pool' = (pool \/ \E c \in summary.dispatched : QuotaExhausted(journal[c].kind))
     ELSE job' = AfterInterruption /\ UNCHANGED pool
  /\ lane' = [lane EXCEPT !.at = "loop"]
  /\ UNCHANGED <<batchVars, ledger, extra, deaths>>

CooldownEnds(c) ==
  /\ c \in job.cool /\ lane.at = "loop"
  /\ job' = Refreshed(job, {c})
  /\ UNCHANGED <<batchVars, lane, ledger, extra, pool, deaths>>

PoolCools ==
  /\ pool /\ pool' = FALSE
  /\ UNCHANGED <<batchVars, lane, job, ledger, extra, deaths>>

(* --extend-attempts, by an operator who holds the lane's lock *)
ExtendAttempts(c) ==
  /\ lane.at = "off" /\ Failures(c) > 0 /\ extra[c] < MaxExtensions
  /\ extra' = [extra EXCEPT ![c] = @ + 1]
  /\ LET heldBack == job.reason \in {"exhausted", "held"}
         j == [job EXCEPT
                 !.held[c] = IF @ # "budget" THEN @ ELSE IF c \in job.cool THEN "cooldown" ELSE "no",
                 !.status = IF heldBack THEN "ready" ELSE @,
                 !.reason = IF heldBack THEN "none" ELSE @,
                 !.waits = @ /\ ~heldBack]
     IN job' = UpdateHolds(j, extra')
  /\ UNCHANGED <<batchVars, lane, ledger, pool, deaths>>

LaneDies ==
  /\ lane.at # "off" /\ deaths < MaxDeaths
  /\ lane' = [at |-> "off", due |-> {}] /\ deaths' = deaths + 1
  /\ UNCHANGED <<batchVars, job, ledger, extra, pool>>

(* The loop ends when no job may run. *)
LaneExits ==
  /\ lane.at = "loop" /\ ~job.active /\ job.status # "ready"
  /\ lane' = [lane EXCEPT !.at = "off"]
  /\ UNCHANGED <<batchVars, job, ledger, extra, pool, deaths>>

----------------------------------------------------------------------------
BatchStep ==
  \/ Boot \/ Complete \/ QuotaResets
  \/ \E c \in Cells : Submit(c) \/ Record(c) \/ Worker(c) \/ WorkerEnds(c)

Next ==
  \/ LaneStart \/ Choose \/ Launch \/ Return \/ Reconcile \/ ChargeAttempt \/ Close
  \/ \E c \in Cells : CooldownEnds(c) \/ ExtendAttempts(c)
  \/ PoolCools \/ LaneDies \/ LaneExits
  \/ BatchStep /\ UNCHANGED campaignVars
  \/ RunnerDies /\ deaths < MaxDeaths /\ deaths' = deaths + 1
     /\ UNCHANGED <<lane, job, ledger, extra, pool>>

Spec == Init /\ [][Next]_vars

----------------------------------------------------------------------------
(* The starts of a cell that count against its budget: those that failed at   *)
(* the transport or were never settled, at a time when nothing runs.          *)
Counts(s) ==
  \A i \in DOMAIN settled[s.cell] :
    settled[s.cell][i].id = s.id => Transport(settled[s.cell][i].kind)

Quiet == ~job.active /\ batch.at = "off" /\ ~Locked

(* No attempt is charged twice, and when no invocation is open the attempts    *)
(* charged are those that failed at the transport or were never settled,      *)
(* whichever process died and however often the lane went over them.          *)
LedgerIsExact ==
  /\ Cardinality(Charged) = Len(ledger)
  /\ Quiet /\ job.reason # "missing" =>
       Charged = {[cell |-> s.cell, id |-> s.id] : s \in {t \in starts : Counts(t)}}

(* A cell is not started more often at a cost than its budget allows. *)
BudgetHolds ==
  \A c \in Cells :
    Cardinality({s \in starts : s.cell = c /\ Counts(s)}) <= MaxAttempts + extra[c]

(* A cell whose last outcome needs repair is not run again. *)
RepairHeld ==
  [][\A c \in Cells : run[c].id = 0 /\ run'[c].id # 0 => ~NeedsRepair(journal[c].kind)]_vars
=============================================================================
