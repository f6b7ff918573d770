------------------------------ MODULE EvalBatch ------------------------------
(***************************************************************************)
(* One invocation of the batch runner (scripts/batch_llm_eval.py) over the   *)
(* cells of one model: resume, the bounded queue of workers, the journal of  *)
(* outcomes, the archive of earlier attempts and the recovery audit          *)
(* (runner/recovery_audit.py).  What is on disk survives a death between     *)
(* any two steps; workers may outlive the runner that started them.          *)
(*                                                                         *)
(* An attempt is its number among all starts.  An episode takes Boundaries   *)
(* provider requests, each committed to the cell's replay journal.           *)
(***************************************************************************)
EXTENDS Naturals, Sequences, FiniteSets

CONSTANTS Cells,        \* the scenario and seed pairs in scope
          Workers,      \* max_workers
          Boundaries,   \* provider requests of an episode
          MaxStarts     \* bound: attempts that are started

ASSUME BatchAssumption ==
  /\ IsFiniteSet(Cells) /\ Cells # {}
  /\ {Workers, Boundaries} \subseteq Nat \ {0} /\ MaxStarts \in Nat

VARIABLES batch,     \* the runner's process
          run,       \* the job of each cell in the pool
          journal,   \* the last outcome of each cell: episodes.jsonl
          starts,    \* worker_starts.jsonl
          summary,   \* invocation_summary.json
          sentinel,  \* the quota sentinel is there and has not expired
          ckpt,      \* committed boundaries of each cell's replay journal
          dir,       \* whose artifacts a cell's trajectory directory holds
          bound,     \* attempts with an archive binding
          moved,     \* attempts whose directory was renamed
          settled,   \* history: the recorded outcomes of each cell's attempts
          lost       \* history: cells that lost a request with its attempt

disk == <<journal, starts, summary, sentinel, ckpt, dir, bound, moved>>
batchVars == <<batch, run, disk, settled, lost>>

Kinds == {"measured", "transport", "quota", "parked", "deadline", "crashed", "harness",
          "config"}
Attempts == 1..MaxStarts

NoRow == [kind |-> "none", id |-> 0, chain |-> <<>>]
Parked == [kind |-> "parked", id |-> 0, chain |-> <<>>]

(* What the rest of the program asks of an outcome.  A measured outcome is an *)
(* ok row or a model's own failure.                                          *)
Retryable(k) == k \in {"transport", "quota", "parked", "deadline"}
NeedsRepair(k) == k \in {"harness", "deadline", "crashed"}
QuotaExhausted(k) == k \in {"quota", "parked"}
Audited(k) == k \in {"measured", "transport", "quota", "harness", "config"}

Entry == [id : 0..MaxStarts, known : BOOLEAN, reused : 0..Boundaries, ok : 0..Boundaries]
Row == [kind : Kinds \cup {"none"}, id : 0..MaxStarts, chain : Seq(Entry)]

Idle == [at |-> "no", id |-> 0, prior |-> NoRow, reused |-> 0, ok |-> 0, total |-> 0,
         row |-> NoRow]
NotRunning == [at |-> "off", inv |-> 0, held |-> {}, todo |-> {}, parked |-> FALSE]
NoSummary == [status |-> "none", inv |-> 0, dispatched |-> {}, pending |-> 0]

BatchTypeOK ==
  /\ batch \in [at : {"off", "boot", "run"}, inv : Nat, held : SUBSET Cells,
                todo : SUBSET Cells, parked : BOOLEAN]
  /\ run \in [Cells -> [at : {"no", "queued", "bind", "move", "play", "call", "commit", "done"},
                        id : 0..MaxStarts, prior : Row, reused : 0..Boundaries,
                        ok : 0..Boundaries, total : 0..Boundaries, row : Row]]
  /\ journal \in [Cells -> Row]
  /\ starts \subseteq [id : Attempts, cell : Cells, inv : Nat]
  /\ summary \in [status : {"none", "running", "completed"}, inv : Nat,
                  dispatched : SUBSET Cells, pending : Nat]
  /\ sentinel \in BOOLEAN
  /\ ckpt \in [Cells -> 0..Boundaries] /\ dir \in [Cells -> 0..MaxStarts]
  /\ bound \subseteq Attempts /\ moved \subseteq Attempts
  /\ settled \in [Cells -> Seq([id : Attempts, kind : Kinds])] /\ lost \subseteq Cells

BatchInit ==
  /\ batch = NotRunning /\ run = [c \in Cells |-> Idle]
  /\ journal = [c \in Cells |-> NoRow] /\ starts = {} /\ summary = NoSummary
  /\ sentinel = FALSE /\ ckpt = [c \in Cells |-> 0] /\ dir = [c \in Cells |-> 0]
  /\ bound = {} /\ moved = {} /\ settled = [c \in Cells |-> <<>>] /\ lost = {}

InPool == {c \in Cells : run[c].at # "no"}
Executing == {c \in InPool : run[c].at \notin {"queued", "done"}}

(* batch_locked: the lock of the output directory.  Workers are forked and    *)
(* hold it open, so that it outlives the runner with them.                    *)
Locked == batch.at = "run" \/ InPool # {}

----------------------------------------------------------------------------
(* The artifacts that a recorded attempt is bound to are found at their place *)
(* or, through its binding, in the archive.                                  *)
Found(c, row) ==
  \/ row.id \in bound \cap moved
  \/ row.id \notin moved /\ dir[c] = row.id

Evident(c) == Audited(journal[c].kind) => Found(c, journal[c])

(* _filter_pending_jobs, with the policy retry-infrastructure: a cell runs    *)
(* again unless its last outcome is final, and one whose evidence does not    *)
(* hold is kept for repair.                                                  *)
Pending == {c \in Cells : Evident(c) /\ (journal[c] = NoRow \/ Retryable(journal[c].kind))}

ToRepair == {c \in Cells : NeedsRepair(journal[c].kind) \/ ~Evident(c)}

(* _run_batch_main, up to the first job. *)
Boot ==
  /\ batch.at = "boot" /\ ~Locked
  /\ \E jobs \in {Pending \ batch.held} \cup {{c} : c \in Pending \ batch.held} :   \* --max-jobs
       /\ batch' = [batch EXCEPT !.at = "run", !.todo = jobs]
       /\ summary' = [status |-> "running", inv |-> batch.inv, dispatched |-> jobs,
                      pending |-> Cardinality(Pending \cup ToRepair)]
  /\ UNCHANGED <<run, journal, starts, sentinel, ckpt, dir, bound, moved, settled, lost>>

(* submit_available: a window of twice the workers; a model that ran out of   *)
(* quota is parked for the rest of the invocation.                           *)
Submit(c) ==
  /\ batch.at = "run" /\ c \in batch.todo /\ Cardinality(InPool) < 2 * Workers
  /\ batch' = [batch EXCEPT !.todo = @ \ {c}]
  /\ IF batch.parked
     THEN journal' = [journal EXCEPT ![c] = Parked] /\ UNCHANGED run
     ELSE run' = [run EXCEPT ![c] = [Idle EXCEPT !.at = "queued", !.prior = journal[c]]]
          /\ UNCHANGED journal
  /\ UNCHANGED <<starts, summary, sentinel, ckpt, dir, bound, moved, settled, lost>>

(* _run_llm_episode_job: the sentinel is looked at before anything is spent,  *)
(* and the start is on record before anything else happens.                  *)
Start(c) ==
  /\ run[c].at = "queued" /\ Cardinality(Executing) < Workers
  /\ IF sentinel
     THEN /\ run' = [run EXCEPT ![c].at = "done", ![c].row = Parked]
          /\ UNCHANGED starts
     ELSE LET id == Cardinality(starts) + 1 IN
          /\ id \in Attempts
          /\ starts' = starts \cup {[id |-> id, cell |-> c, inv |-> summary.inv]}
          /\ run' = [run EXCEPT ![c].id = id,
                       ![c].at = IF dir[c] = 0 THEN "play" ELSE "bind"]
  /\ UNCHANGED <<batch, journal, summary, sentinel, ckpt, dir, bound, moved, settled, lost>>

\* mutant: the directory is moved without a binding
BindLater(c) ==
  /\ run[c].at = "bind"
  /\ run' = [run EXCEPT ![c].at = "move"]
  /\ UNCHANGED <<batch, disk, settled, lost>>

(* _quarantine_retry_trajectory and _quarantine_trajectory_dir: the artifacts *)
(* of the attempt on record get a binding, and then the directory is renamed. *)
(* What is left of an attempt that was never recorded is only moved aside.    *)
Bind(c) ==
  /\ run[c].at = "bind"
  /\ bound' = bound \cup ({run[c].prior.id} \ ({0} \cup moved))
  /\ run' = [run EXCEPT ![c].at = "move"]
  /\ UNCHANGED <<batch, journal, starts, summary, sentinel, ckpt, dir, moved, settled, lost>>

MoveAside(c) ==
  /\ run[c].at = "move"
  /\ moved' = moved \cup {dir[c]}
  /\ dir' = [dir EXCEPT ![c] = 0]
  /\ run' = [run EXCEPT ![c].at = "play"]
  /\ UNCHANGED <<batch, journal, starts, summary, sentinel, ckpt, bound, settled, lost>>

(* The episode begins with what its replay journal restores. *)
Replay(c) ==
  /\ run[c].at = "play"
  /\ dir' = [dir EXCEPT ![c] = run[c].id]
  /\ run' = [run EXCEPT ![c].at = "call", ![c].reused = ckpt[c], ![c].ok = ckpt[c],
                        ![c].total = ckpt[c]]
  /\ UNCHANGED <<batch, journal, starts, summary, sentinel, ckpt, bound, moved, settled, lost>>

(* build_recovery_audit: the chain of known attempts, ending in this one.     *)
EntryOf(row, j) == [id |-> row.id, known |-> Audited(row.kind), reused |-> j.reused,
                    ok |-> j.ok]

\* mutant: the audit of the attempt before is taken over as if it stood alone
BeforeOnly(prior) ==
  IF prior.kind = "none" THEN <<>> ELSE <<EntryOf(prior, Idle)>>

Before(prior) ==
  IF prior.kind = "none" THEN <<>>
  ELSE IF prior.chain # <<>> THEN prior.chain
  ELSE <<EntryOf(prior, Idle)>>

Outcome(c, kind, j) ==
  LET row == [kind |-> kind, id |-> j.id, chain |-> <<>>]
  IN  [row EXCEPT !.chain = IF Audited(kind)
                            THEN Append(Before(j.prior), EntryOf(row, j)) ELSE <<>>]

Settle(c, kind, j) == run' = [run EXCEPT ![c] = [j EXCEPT !.at = "done", !.row = Outcome(c, kind, j)]]

(* One provider request.  An answer is committed in a step of its own.        *)
Request(c) ==
  /\ run[c].at = "call" /\ run[c].ok < Boundaries
  /\ LET j == [run[c] EXCEPT !.total = @ + 1] IN
       \/ run' = [run EXCEPT ![c] = [j EXCEPT !.at = "commit"]] /\ UNCHANGED sentinel
       \/ Settle(c, "transport", j) /\ UNCHANGED sentinel
       \/ Settle(c, "quota", j) /\ sentinel' = TRUE
  /\ UNCHANGED <<batch, journal, starts, summary, ckpt, dir, bound, moved, settled, lost>>

Commit(c) ==
  /\ run[c].at = "commit"
  /\ ckpt' = [ckpt EXCEPT ![c] = @ + 1]
  /\ run' = [run EXCEPT ![c].at = "call", ![c].ok = @ + 1]
  /\ UNCHANGED <<batch, journal, starts, summary, sentinel, dir, bound, moved, settled, lost>>

(* The episode is scored; or it fails of itself, or for its configuration. *)
Finish(c) ==
  /\ run[c].at = "call"
  /\ \/ run[c].ok = Boundaries /\ Settle(c, "measured", run[c])
     \/ \E kind \in {"harness", "config"} : Settle(c, kind, run[c])
  /\ UNCHANGED <<batch, disk, settled, lost>>

(* The supervisor of a worker that exceeds its deadline, or that exits without *)
(* a result, writes a row that binds no artifacts.                            *)
Supervise(c) ==
  /\ c \in Executing
  /\ \E kind \in {"deadline", "crashed"} : Settle(c, kind, run[c])
  /\ UNCHANGED <<batch, disk, settled, lost>>

(* record_completed *)
Record(c) ==
  /\ batch.at = "run" /\ run[c].at = "done"
  /\ LET row == run[c].row IN
       /\ journal' = [journal EXCEPT ![c] = row]
       /\ settled' = IF row.id = 0 THEN settled ELSE [settled EXCEPT ![c] = Append(@, [id |-> row.id, kind |-> row.kind])]
       /\ batch' = [batch EXCEPT !.parked = @ \/ QuotaExhausted(row.kind)]
  /\ run' = [run EXCEPT ![c] = Idle]
  /\ UNCHANGED <<starts, summary, sentinel, ckpt, dir, bound, moved, lost>>

Complete ==
  /\ batch.at = "run" /\ batch.todo = {} /\ InPool = {}
  /\ summary' = [summary EXCEPT !.status = "completed", !.pending = Cardinality(Pending \cup ToRepair)]
  /\ batch' = NotRunning
  /\ UNCHANGED <<run, journal, starts, sentinel, ckpt, dir, bound, moved, settled, lost>>

(* The runner dies.  Its workers go on, with nobody to record their outcomes, *)
(* until each of them ends.                                                  *)
RunnerDies ==
  /\ batch.at # "off"
  /\ batch' = NotRunning
  /\ UNCHANGED <<run, disk, settled, lost>>

WorkerEnds(c) ==
  /\ batch.at # "run" /\ run[c].at # "no"
  /\ run' = [run EXCEPT ![c] = Idle]
  /\ lost' = IF run[c].total > run[c].reused THEN lost \cup {c} ELSE lost
  /\ UNCHANGED <<batch, disk, settled>>

QuotaResets ==
  /\ sentinel /\ sentinel' = FALSE
  /\ UNCHANGED <<batch, run, journal, starts, summary, ckpt, dir, bound, moved, settled, lost>>

Worker(c) ==
  \/ Start(c) \/ Bind(c) \/ MoveAside(c) \/ Replay(c) \/ Request(c) \/ Commit(c)
  \/ Finish(c) \/ Supervise(c)

----------------------------------------------------------------------------
(* _evaluate: an audit is closed when every attempt in it is identified, has  *)
(* its artifacts, and replays nothing that the attempt before it cannot show. *)
Closed(chain) ==
  \A i \in DOMAIN chain :
    /\ chain[i].known /\ chain[i].id # 0
    /\ chain[i].reused <= (IF i = 1 THEN 0 ELSE chain[i - 1].ok)

(* The artifacts of the last recorded attempt of a cell are found, whatever    *)
(* died between the writing of a binding, the renaming of a directory and the *)
(* next attempt: a resume never holds a cell for evidence it moved itself.    *)
EvidenceFound == \A c \in Cells : Evident(c)

(* An audit that is closed leaves out no attempt whose outcome was recorded,   *)
(* and names each of them once, in order.                                    *)
LineageComplete ==
  \A c \in Cells :
    LET chain == journal[c].chain IN
      chain # <<>> /\ Closed(chain) =>
        [i \in DOMAIN chain |-> chain[i].id] = [i \in DOMAIN settled[c] |-> settled[c][i].id]

(* What docs/FRAMEWORK_RECOVERY.md says of the accounting of requests: "Missing *)
(* parent audits, unmatched prefixes or unsettled request evidence leave      *)
(* recovery accounting unclosed ... This includes hard process deaths whose   *)
(* failed suffix was never persisted."                                       *)
DeathsLeaveItOpen ==
  \A c \in Cells : journal[c].chain # <<>> /\ Closed(journal[c].chain) => c \notin lost
=============================================================================
