-------------------------- MODULE EvalCampaignProofs --------------------------
(***************************************************************************)
(* Theorems about EvalBatch and EvalCampaign, for any cells, workers,        *)
(* boundaries and budgets, and any number of invocations, deaths and         *)
(* extensions.                                                               *)
(*                                                                           *)
(* Four processes change the same files: the lane, the runner, its workers   *)
(* and the operator.  IInv says what each of them may rely on.               *)
(*   - PoolOk, StartsOk, SettledOk: the jobs in the pool, the numbers that   *)
(*     attempts are given, and the outcomes of a cell in the order of their  *)
(*     recording, of which the journal shows the last;                       *)
(*   - Placed: whose artifacts a directory holds, from the binding of one    *)
(*     attempt to the replay of the next.  EvidenceFound is kept with it;    *)
(*   - RowChain, Lineage: the audit of a job goes on from the one on record, *)
(*     and an audit whose entries are all known names the outcomes recorded; *)
(*   - BatchOk: every cell that an invocation dispatched is still to do, in  *)
(*     the pool, or has an outcome of that invocation;                       *)
(*   - LaneOk, HoldsOk, Unblocked: which invocation the lane waits for, and  *)
(*     that a cell is held when its budget is spent, before the job may go on; *)
(*   - Sound, Full, Room: the ledger against the starts that count.  What is *)
(*     charged counts; what counts is charged or belongs to the last         *)
(*     invocation; a cell that is to be started has one attempt left.        *)
(* A lemma ...Moves says what a step does to the variables it changes, a     *)
(* lemma ...Kept that a step keeps the conjunct, action by action.           *)
(***************************************************************************)
EXTENDS EvalCampaign, FiniteSetTheorems, SequenceTheorems, TLAPS

(* The types of the records, as in the type invariants. *)
BatchRec == [at : {"off", "boot", "run"}, inv : Nat, held : SUBSET Cells,
             todo : SUBSET Cells, parked : BOOLEAN]
RunRec == [at : {"no", "queued", "bind", "move", "play", "call", "commit", "done"},
           id : 0..MaxStarts, prior : Row, reused : 0..Boundaries,
           ok : 0..Boundaries, total : 0..Boundaries, row : Row]
StartRec == [id : Attempts, cell : Cells, inv : Nat]
SummaryRec == [status : {"none", "running", "completed"}, inv : Nat,
               dispatched : SUBSET Cells, pending : Nat]
SettledRec == [id : Attempts, kind : Kinds]
LaneRec == [at : {"off", "loop", "launch", "wait", "charge"}, due : SUBSET Charge]
JobRec == [status : {"ready", "attention", "closed"},
           reason : {"none", "exhausted", "held", "access", "interrupted", "missing"},
           held : [Cells -> Holds], cool : SUBSET Cells, waits : BOOLEAN,
           pending : Nat, inv : 0..MaxInvocations, active : BOOLEAN]

(* The cells that a resume has something to do for, or keeps for repair; the *)
(* attempts of a cell whose outcome is recorded, and the last of them.       *)
Todo == {c \in Cells : \/ journal[c].kind = "none"
                       \/ Retryable(journal[c].kind) \/ NeedsRepair(journal[c].kind)}
Ids(c) == {settled[c][i].id : i \in DOMAIN settled[c]}
Last(c) == settled[c][Len(settled[c])]

(* A worker's stages between its start and its outcome. *)
Playing == {"bind", "move", "play", "call", "commit"}

(* Something of an invocation is alive; the lane can use what it left.       *)
Working == batch.at # "off" \/ InPool # {}
Read == Completed \/ Interrupted

(* The starts of a cell that count against its budget, and their charges.    *)
Counted(c) == {s \in starts : s.cell = c /\ Counts(s)}
ChargeOf(s) == [cell |-> s.cell, id |-> s.id]

----------------------------------------------------------------------------
(* The invariant *)

(* The jobs in the pool, stage by stage: a job has an attempt once it is past *)
(* the sentinel, and a row, of that attempt, when it is done.                *)
JobOk(c) ==
  /\ run[c].at \in {"no", "queued"} => run[c].id = 0
  /\ run[c].at \in Playing => run[c].id # 0
  /\ run[c].at = "done" => run[c].row.id = run[c].id
  /\ run[c].at = "done" /\ run[c].id = 0 => run[c].row = Parked
  /\ run[c].at = "done" /\ run[c].id # 0 => run[c].row.kind \in Kinds \ {"parked"}
  /\ run[c].at # "no" => run[c].prior = journal[c]
  /\ run[c].at \in {"call", "commit"} => run[c].ok = ckpt[c]
  /\ run[c].at = "call" => run[c].total = run[c].ok
  /\ run[c].at = "commit" => run[c].total = run[c].ok + 1 /\ run[c].ok < Boundaries

PoolOk == \A c \in Cells : JobOk(c)

(* Attempts are numbered in the order of their starts, and a cell is started *)
(* once in an invocation.  Every number on disk is one of a start.           *)
StartsOk ==
  /\ IsFiniteSet(starts)
  /\ \A s \in starts : s.id <= Cardinality(starts) /\ s.inv <= summary.inv
  /\ \A s, t \in starts : s.id = t.id \/ (s.cell = t.cell /\ s.inv = t.inv) => s = t
  /\ \A c \in Cells : run[c].id # 0
     => [id |-> run[c].id, cell |-> c, inv |-> summary.inv] \in starts
  /\ \A c \in Cells : dir[c] # 0 => \E s \in starts : s.id = dir[c] /\ s.cell = c
  /\ \A n \in moved : \E s \in starts : s.id = n
  /\ \A c \in Cells : \A i \in DOMAIN settled[c] :
       \E s \in starts : s.id = settled[c][i].id /\ s.cell = c

(* The outcomes of a cell are those of different attempts, and the journal   *)
(* shows the last of them, unless the cell was parked after it.              *)
OutcomesOk(c) ==
  /\ \A i, j \in DOMAIN settled[c] : settled[c][i].id = settled[c][j].id => i = j
  /\ run[c].id \notin Ids(c)
  /\ journal[c].id # 0 =>
       settled[c] # <<>> /\ Last(c) = [id |-> journal[c].id, kind |-> journal[c].kind]
  /\ journal[c].id = 0 => journal[c] \in {NoRow, Parked}
  /\ journal[c].kind = "none" => settled[c] = <<>>
  /\ \A s \in starts : s.cell = c /\ s.inv = summary.inv /\ s.id \in Ids(c)
                         => s.id = journal[c].id

SettledOk == \A c \in Cells : OutcomesOk(c)

(* What an invocation dispatched is still to do, in the pool, or has an      *)
(* outcome of its own; and nothing is started outside it.                    *)
Dispatched ==
  /\ batch.at = "boot" => summary.inv < batch.inv /\ InPool = {}
  /\ batch.at = "run" =>
       /\ summary.inv = batch.inv /\ summary.status = "running"
       /\ batch.todo \subseteq Todo \cap summary.dispatched /\ batch.todo \cap InPool = {}
  /\ batch.at # "run" => batch.todo = {}
  /\ InPool \subseteq Todo \cap summary.dispatched
  /\ InPool # {} => summary.status = "running"

Invoked ==
  \A s \in starts : s.inv = summary.inv =>
    /\ s.cell \in summary.dispatched
    /\ run[s.cell].at = "no" \/ run[s.cell].id # 0
    /\ s.cell \notin batch.todo

Summed ==
  /\ summary.status = "none" => starts = {} /\ summary.inv = 0 /\ Todo = Cells
  /\ summary.status # "none" => Cardinality(Todo) <= summary.pending

Answered ==
  batch.at = "run" \/ summary.status = "completed" =>
    /\ \A c \in summary.dispatched \ (batch.todo \cup InPool) :
         \/ journal[c].kind = "parked"
         \/ \E s \in starts : s.cell = c /\ s.inv = summary.inv /\ s.id = journal[c].id
    /\ \A s \in starts : s.inv = summary.inv =>
         s.id = journal[s.cell].id \/ s.id = run[s.cell].id

BatchOk == Dispatched /\ Invoked /\ Summed /\ Answered

(* Where the artifacts of an attempt are while the next one prepares: the    *)
(* directory is the attempt's own from its replay on, what was moved is in   *)
(* no directory, and what moves next has its binding if it was recorded.     *)
PlacedAt(c) ==
  /\ run[c].at \in {"call", "commit"} => dir[c] = run[c].id /\ run[c].id \notin moved
  /\ run[c].at = "done" /\ Audited(run[c].row.kind) => dir[c] = run[c].id /\ run[c].id \notin moved
  /\ run[c].at = "play" => dir[c] = 0
  /\ run[c].at \in {"bind", "move"} => dir[c] # 0
  /\ run[c].at = "move" /\ Audited(journal[c].kind) /\ dir[c] = journal[c].id
       => journal[c].id \in bound
  /\ dir[c] \notin moved
  /\ run[c].at \in {"bind", "move", "play"} => run[c].id \notin moved /\ dir[c] # run[c].id

Placed == \A c \in Cells : PlacedAt(c)

(* An audit all of whose entries are known names the recorded attempts.      *)
Known(chain) == \A i \in DOMAIN chain : chain[i].known
Named(chain, seq) == Len(chain) = Len(seq) /\ \A i \in DOMAIN chain : chain[i].id = seq[i].id

Listed(c) ==
  /\ journal[c].chain # <<>> <=> Audited(journal[c].kind)
  /\ journal[c].chain # <<>> /\ Known(journal[c].chain) => Named(journal[c].chain, settled[c])

Lineage == \A c \in Cells : Listed(c)

(* The audit of a job that is done goes on from the one on record.           *)
Continued(c) ==
  run[c].at = "done" =>
    IF Audited(run[c].row.kind)
    THEN \E e \in Entry : e.id = run[c].id /\ run[c].row.chain = Append(Before(journal[c]), e)
    ELSE run[c].row.chain = <<>>

RowChain == \A c \in Cells : Continued(c)

(* The lane, the invocation it waits for or has found, and what is alive.    *)
LaneOk ==
  /\ summary.inv <= job.inv
  /\ batch.at # "off" => batch.inv = job.inv
  /\ Working => job.active \/ job.reason = "missing"
  /\ InPool # {} => summary.inv = job.inv
  /\ lane.at = "launch" => job.active /\ ~Working /\ summary.inv < job.inv
  /\ lane.at = "wait" => job.active
  /\ lane.at = "charge" => job.active /\ ~Working /\ Read
  /\ lane.at # "charge" => lane.due = {}
  /\ job.active => job.reason \notin {"missing", "access"}
  /\ job.reason \in {"missing", "access"} => job.status = "attention"
  /\ job.inv = 0 => /\ ~job.active /\ HeldCells(job) = {} /\ ~job.waits
                    /\ starts = {} /\ job.reason = "none"

(* What is charged, or is about to be, is a start that counts, and no attempt *)
(* in the pool; and nothing is charged twice.                                *)
Sound ==
  /\ \A x \in Charged \cup lane.due : \E s \in starts : ChargeOf(s) = x /\ Counts(s)
  /\ \A c \in Cells : run[c].id # 0 => [cell |-> c, id |-> run[c].id] \notin Charged
  /\ \A i, j \in DOMAIN ledger : ledger[i] = ledger[j] => i = j

(* A start that counts is charged, or belongs to the last invocation: an open *)
(* one, or one that left nothing to charge from.                             *)
Full ==
  \A s \in starts : Counts(s) =>
    \/ ChargeOf(s) \in Charged
    \/ s.inv = job.inv /\ job.active /\ (lane.at = "charge" => ChargeOf(s) \in lane.due)
    \/ s.inv = job.inv /\ job.reason = "missing"

(* A cell whose budget is spent is held, except while an invocation is being *)
(* closed and in a job that has lost its access; a cell that is held has     *)
(* something to do, and no invocation does it.                               *)
Spent(c) == Failures(c) > 0 /\ Failures(c) >= MaxAttempts + extra[c]
Stale == (job.active /\ Read /\ ~Working) \/ job.reason = "access"

HoldsOk ==
  /\ HeldCells(job) \subseteq Todo
  /\ ~Stale => \A c \in Cells : Spent(c) /\ job.held[c] # "repair" => job.held[c] = "budget"
  /\ batch.at = "boot" => HeldCells(job) \subseteq batch.held
  /\ batch.at = "run" => batch.todo \cap HeldCells(job) = {}
  /\ InPool \cap HeldCells(job) = {}

(* What will be started, and what is finished, has one attempt left.         *)
Room ==
  \A c \in Cells :
    /\ \/ c \notin Todo \/ run[c].at = "queued" \/ (batch.at = "run" /\ c \in batch.todo)
         => Cardinality(Counted(c)) < MaxAttempts + extra[c]
    /\ Cardinality(Counted(c)) <= MaxAttempts + extra[c]

(* A job that may go on has a cell that is not held: more is pending than is *)
(* held, for as long as the counts of the last invocation are good.          *)
Goes(j) == HeldCells(j) = {} \/ Cardinality(HeldCells(j)) < j.pending

Unblocked ==
  /\ ~job.active /\ job.status = "ready" /\ ~job.waits => Goes(job)
  /\ job.active /\ (~Read \/ Working) => Goes(job)
  /\ job.reason = "missing" => Goes(job)
  /\ ~job.active /\ job.reason # "missing" /\ job.inv > 0 => Cardinality(Todo) <= job.pending

----------------------------------------------------------------------------
(* Types *)
Typed ==
  /\ batch \in BatchRec /\ run \in [Cells -> RunRec] /\ journal \in [Cells -> Row]
  /\ starts \subseteq StartRec /\ summary \in SummaryRec /\ sentinel \in BOOLEAN
  /\ ckpt \in [Cells -> 0..Boundaries] /\ dir \in [Cells -> 0..MaxStarts]
  /\ bound \subseteq Attempts /\ moved \subseteq Attempts
  /\ settled \in [Cells -> Seq(SettledRec)] /\ lost \subseteq Cells

LaneTyped ==
  /\ lane \in LaneRec /\ job \in JobRec /\ ledger \in Seq(Charge)
  /\ extra \in [Cells -> 0..MaxExtensions] /\ pool \in BOOLEAN /\ deaths \in 0..MaxDeaths

\* the types by name are those of the invariant
LEMMA TypesByName == CampaignTypeOK <=> Typed /\ LaneTyped
BY DEF CampaignTypeOK, BatchTypeOK, Typed, LaneTyped, BatchRec, RunRec, StartRec, SummaryRec,
       SettledRec, LaneRec, JobRec

\* sets of cells are finite
LEMMA CellsFinite ==
  ASSUME NEW S \in SUBSET Cells
  PROVE  IsFiniteSet(S) /\ Cardinality(S) \in Nat
BY BatchAssumption, FS_Subset, FS_CardinalityType

\* the rows and the jobs that are given
LEMMA GivenRows ==
  /\ NoRow \in Row /\ Parked \in Row /\ Idle \in RunRec
  /\ NoRow.kind = "none" /\ NoRow.id = 0 /\ NoRow.chain = <<>>
  /\ Parked.kind = "parked" /\ Parked.id = 0 /\ Parked.chain = <<>>
  /\ Idle.at = "no" /\ Idle.id = 0 /\ Idle.ok = 0 /\ Idle.reused = 0
<1>1. 0 \in 0..MaxStarts /\ 0 \in 0..Boundaries
  BY BatchAssumption
<1>2. NoRow \in Row /\ Parked \in Row
  BY <1>1 DEF NoRow, Parked, Row, Kinds
<1> QED BY <1>1, <1>2 DEF NoRow, Parked, Idle, RunRec

\* an entry and the row that an attempt is given
LEMMA OutcomeTyped ==
  ASSUME NEW c \in Cells, NEW kind \in Kinds, NEW j \in RunRec
  PROVE  /\ Before(j.prior) \in Seq(Entry)
         /\ Outcome(c, kind, j) \in Row
         /\ Outcome(c, kind, j).kind = kind /\ Outcome(c, kind, j).id = j.id
         /\ Audited(kind) => \E e \in Entry : /\ e.id = j.id
                                              /\ Outcome(c, kind, j).chain = Append(Before(j.prior), e)
         /\ ~Audited(kind) => Outcome(c, kind, j).chain = <<>>
<1>1. j.prior \in Row /\ j.id \in 0..MaxStarts /\ j.reused \in 0..Boundaries
         /\ j.ok \in 0..Boundaries
  BY DEF RunRec
<1>2. ASSUME NEW row, row.id \in 0..MaxStarts, NEW i, i.reused \in 0..Boundaries,
             i.ok \in 0..Boundaries
      PROVE  EntryOf(row, i) \in Entry /\ EntryOf(row, i).id = row.id
             /\ (EntryOf(row, i).known <=> Audited(row.kind))
  <2> DEFINE b == Audited(row.kind)
  <2>1. b \in BOOLEAN /\ (b <=> Audited(row.kind))
    BY DEF Audited
  <2>2. EntryOf(row, i) = [id |-> row.id, known |-> b, reused |-> i.reused, ok |-> i.ok]
    BY DEF EntryOf
  <2> HIDE DEF b
  <2>3. EntryOf(row, i) \in Entry /\ EntryOf(row, i).id = row.id /\ EntryOf(row, i).known = b
    BY <1>2, <2>1, <2>2 DEF Entry
  <2> QED BY <2>1, <2>3
<1>3. Before(j.prior) \in Seq(Entry)
  <2>1. j.prior.id \in 0..MaxStarts /\ j.prior.chain \in Seq(Entry)
           /\ Idle.reused \in 0..Boundaries /\ Idle.ok \in 0..Boundaries
    BY <1>1, GivenRows DEF Row, RunRec
  <2>2. EntryOf(j.prior, Idle) \in Entry
    BY <2>1, <1>2
  <2> QED BY <2>1, <2>2 DEF Before
<1> DEFINE row == [kind |-> kind, id |-> j.id, chain |-> <<>>]
<1>4. row.id = j.id /\ row.kind = kind
  OBVIOUS
<1>5. EntryOf(row, j) \in Entry /\ EntryOf(row, j).id = j.id
  BY <1>1, <1>2, <1>4
<1>6. Append(Before(j.prior), EntryOf(row, j)) \in Seq(Entry) /\ <<>> \in Seq(Entry)
  BY <1>3, <1>5
<1>7. Outcome(c, kind, j) = [kind |-> kind, id |-> j.id,
        chain |-> IF Audited(kind) THEN Append(Before(j.prior), EntryOf(row, j)) ELSE <<>>]
  BY DEF Outcome
<1> HIDE DEF row
<1>8. Outcome(c, kind, j) \in Row
  BY <1>1, <1>6, <1>7 DEF Row
<1>9. /\ Outcome(c, kind, j).kind = kind /\ Outcome(c, kind, j).id = j.id
      /\ Outcome(c, kind, j).chain = IF Audited(kind) THEN Append(Before(j.prior), EntryOf(row, j)) ELSE <<>>
  BY <1>7
<1> QED BY <1>3, <1>5, <1>8, <1>9

(* A job ends: what becomes of its entry in the pool. *)
Ends(c, kind) ==
  /\ kind \in Kinds \ {"parked"} /\ run[c].at \in Playing
  /\ Audited(kind) => run[c].at = "call"
  /\ run' \in [Cells -> RunRec] /\ \A d \in Cells \ {c} : run'[d] = run[d]
  /\ run'[c].at = "done" /\ run'[c].id = run[c].id /\ run'[c].prior = run[c].prior
  /\ run'[c].row.kind = kind /\ run'[c].row.id = run[c].id
  /\ IF Audited(kind)
     THEN \E e \in Entry : e.id = run[c].id /\ run'[c].row.chain = Append(Before(run[c].prior), e)
     ELSE run'[c].row.chain = <<>>

\* an outcome that is settled ends its job
LEMMA SettleEnds ==
  ASSUME run \in [Cells -> RunRec], NEW c \in Cells, NEW kind \in Kinds \ {"parked"},
         NEW j \in RunRec, j.id = run[c].id, j.prior = run[c].prior,
         run[c].at \in Playing, Audited(kind) => run[c].at = "call", Settle(c, kind, j)
  PROVE  Ends(c, kind)
<1> DEFINE o == Outcome(c, kind, j)
<1>1. /\ o \in Row /\ o.kind = kind /\ o.id = j.id
      /\ Audited(kind) => \E e \in Entry : e.id = j.id /\ o.chain = Append(Before(j.prior), e)
      /\ ~Audited(kind) => o.chain = <<>>
  BY OutcomeTyped
<1>2. run' = [run EXCEPT ![c] = [j EXCEPT !.at = "done", !.row = o]]
  BY DEF Settle
<1> HIDE DEF o
<1> DEFINE k == [j EXCEPT !.at = "done", !.row = o]
<1>3. k \in RunRec /\ k.at = "done" /\ k.id = j.id /\ k.prior = j.prior /\ k.row = o
  BY <1>1 DEF RunRec
<1> HIDE DEF k
<1>4. run' \in [Cells -> RunRec] /\ run'[c] = k /\ \A d \in Cells \ {c} : run'[d] = run[d]
  BY <1>2, <1>3 DEF k
<1> QED BY <1>1, <1>3, <1>4 DEF Ends

\* a request is answered, or ends the attempt
LEMMA RequestMoves ==
  ASSUME run \in [Cells -> RunRec], NEW c \in Cells, run[c].total = run[c].ok, Request(c)
  PROVE  /\ run[c].at = "call" /\ run[c].ok < Boundaries
         /\ \/ /\ run' \in [Cells -> RunRec] /\ \A d \in Cells \ {c} : run'[d] = run[d]
               /\ run'[c].at = "commit" /\ run'[c].id = run[c].id /\ run'[c].prior = run[c].prior
               /\ run'[c].ok = run[c].ok /\ run'[c].total = run[c].total + 1
            \/ \E kind \in Kinds \ {"parked"} : Ends(c, kind)
<1> DEFINE j == [run[c] EXCEPT !.total = @ + 1]
<1>0. run[c] \in RunRec /\ run[c].at = "call" /\ run[c].ok < Boundaries
  BY DEF Request
<1>1. j \in RunRec /\ j.id = run[c].id /\ j.prior = run[c].prior /\ j.at = "call"
         /\ j.ok = run[c].ok
      /\ j.total = run[c].total + 1
  BY <1>0, BatchAssumption DEF RunRec
<1>2. \/ run' = [run EXCEPT ![c] = [j EXCEPT !.at = "commit"]]
      \/ Settle(c, "transport", j) \/ Settle(c, "quota", j)
  BY DEF Request
<1> HIDE DEF j
<1>3. CASE run' = [run EXCEPT ![c] = [j EXCEPT !.at = "commit"]]
  <2> DEFINE k == [j EXCEPT !.at = "commit"]
  <2>1. k \in RunRec /\ k.at = "commit" /\ k.id = j.id /\ k.prior = j.prior /\ k.ok = j.ok
         /\ k.total = j.total
    BY <1>1 DEF RunRec
  <2> HIDE DEF k
  <2>2. run' \in [Cells -> RunRec] /\ run'[c] = k /\ \A d \in Cells \ {c} : run'[d] = run[d]
    BY <1>3, <2>1 DEF k
  <2> QED BY <1>0, <1>1, <2>1, <2>2
<1>4. ASSUME NEW kind \in {"transport", "quota"}, Settle(c, kind, j) PROVE Ends(c, kind)
  <2>1. kind \in Kinds \ {"parked"} /\ run[c].at \in Playing
    BY <1>0 DEF Kinds, Playing
  <2> QED BY <1>0, <1>1, <1>4, <2>1, SettleEnds
<1>5. {"transport", "quota"} \subseteq Kinds \ {"parked"}
  BY DEF Kinds
<1> QED BY <1>0, <1>2, <1>3, <1>4, <1>5

\* an episode that is scored, or that fails, ends
LEMMA FinishEnds ==
  ASSUME run \in [Cells -> RunRec], NEW c \in Cells, Finish(c)
  PROVE  \E kind \in Kinds \ {"parked"} : Ends(c, kind)
<1>1. PICK kind \in {"measured", "harness", "config"} : Settle(c, kind, run[c])
  BY DEF Finish
<1>2. kind \in Kinds \ {"parked"} /\ run[c].at = "call" /\ run[c].at \in Playing
         /\ run[c] \in RunRec
  BY DEF Finish, Kinds, Playing
<1> QED BY <1>1, <1>2, SettleEnds

\* and so does a job whose worker is lost
LEMMA SuperviseEnds ==
  ASSUME run \in [Cells -> RunRec], NEW c \in Cells, Supervise(c)
  PROVE  \E kind \in Kinds \ {"parked"} : Ends(c, kind)
<1>1. PICK kind \in {"deadline", "crashed"} : Settle(c, kind, run[c])
  BY DEF Supervise
<1>2. kind \in Kinds \ {"parked"} /\ ~Audited(kind)
  BY DEF Kinds, Audited
<1>3. run[c].at \in Playing /\ run[c] \in RunRec
  BY DEF Supervise, Executing, InPool, RunRec, Playing
<1> QED BY <1>1, <1>2, <1>3, SettleEnds


----------------------------------------------------------------------------
(* What single steps do to the pool *)
Alone(c) == run' \in [Cells -> RunRec] /\ \A d \in Cells \ {c} : run'[d] = run[d]
Keeps(c) == run'[c].id = run[c].id /\ run'[c].prior = run[c].prior

\* an entry that is replaced
LEMMA AloneExcept ==
  ASSUME run \in [Cells -> RunRec], NEW c \in Cells, NEW k \in RunRec, run' = [run EXCEPT ![c] = k]
  PROVE  Alone(c) /\ run'[c] = k
BY DEF Alone

\* a job goes to the pool with the outcome on record, or the cell is parked
LEMMA SubmitMoves ==
  ASSUME run \in [Cells -> RunRec], journal \in [Cells -> Row], batch \in BatchRec,
         NEW c \in Cells, Submit(c)
  PROVE  /\ batch.at = "run" /\ c \in batch.todo
         /\ batch' \in BatchRec /\ batch'.at = "run" /\ batch'.inv = batch.inv
         /\ batch'.held = batch.held /\ batch'.todo = batch.todo \ {c}
         /\ \/ journal' = [journal EXCEPT ![c] = Parked] /\ UNCHANGED run
            \/ /\ Alone(c) /\ run'[c].at = "queued" /\ run'[c].id = 0 /\ run'[c].prior = journal[c]
               /\ UNCHANGED journal
<1>1. batch.at = "run" /\ c \in batch.todo /\ batch' = [batch EXCEPT !.todo = @ \ {c}]
  BY DEF Submit
<1>2. batch' \in BatchRec /\ batch'.at = "run" /\ batch'.inv = batch.inv
      /\ batch'.held = batch.held /\ batch'.todo = batch.todo \ {c}
  BY <1>1 DEF BatchRec
<1> DEFINE k == [Idle EXCEPT !.at = "queued", !.prior = journal[c]]
<1>3. k \in RunRec /\ k.at = "queued" /\ k.id = 0 /\ k.prior = journal[c]
  BY GivenRows DEF RunRec
<1>4. CASE run' = [run EXCEPT ![c] = k] /\ UNCHANGED journal
  <2> HIDE DEF k
  <2> QED BY <1>1, <1>2, <1>3, <1>4, AloneExcept
<1> QED BY <1>1, <1>2, <1>4 DEF Submit

\* a job meets the sentinel, or starts an attempt with the next number
LEMMA StartMoves ==
  ASSUME run \in [Cells -> RunRec], dir \in [Cells -> 0..MaxStarts], IsFiniteSet(starts),
         summary \in SummaryRec, starts \subseteq StartRec, NEW c \in Cells, Start(c)
  PROVE  /\ run[c].at = "queued" /\ Alone(c) /\ run'[c].prior = run[c].prior
         /\ \/ /\ run'[c].at = "done" /\ run'[c].row = Parked /\ run'[c].id = run[c].id
               /\ UNCHANGED starts
            \/ \E id \in Attempts :
                 /\ id = Cardinality(starts) + 1 /\ run'[c].id = id
                 /\ run'[c].at = IF dir[c] = 0 THEN "play" ELSE "bind"
                 /\ [id |-> id, cell |-> c, inv |-> summary.inv] \in StartRec
                 /\ starts' = starts \cup {[id |-> id, cell |-> c, inv |-> summary.inv]}
<1>1. run[c].at = "queued" /\ run[c] \in RunRec
  BY DEF Start
<1>2. CASE sentinel
  <2> DEFINE k == [run[c] EXCEPT !.at = "done", !.row = Parked]
  <2>1. k \in RunRec /\ k.at = "done" /\ k.row = Parked /\ k.id = run[c].id
           /\ k.prior = run[c].prior
    BY <1>1, GivenRows DEF RunRec
  <2>2. run' = [run EXCEPT ![c] = k] /\ UNCHANGED starts
    BY <1>1, <1>2 DEF Start
  <2> HIDE DEF k
  <2> QED BY <1>1, <2>1, <2>2, AloneExcept
<1>3. CASE ~sentinel
  <2> DEFINE id == Cardinality(starts) + 1
             at == IF dir[c] = 0 THEN "play" ELSE "bind"
             k == [run[c] EXCEPT !.id = id, !.at = at]
  <2>1. id \in Attempts /\ starts' = starts \cup {[id |-> id, cell |-> c, inv |-> summary.inv]}
    BY <1>3 DEF Start
  <2>2. run' = [run EXCEPT ![c] = k]
    BY <1>1, <1>3 DEF Start
  <2>3. id \in 0..MaxStarts /\ id \in Attempts /\ at \in {"play", "bind"}
    BY <2>1, BatchAssumption DEF Attempts
  <2>4. [id |-> id, cell |-> c, inv |-> summary.inv] \in StartRec
    BY <2>1 DEF SummaryRec, StartRec
  <2> HIDE DEF id, at
  <2>5. k \in RunRec /\ k.at = at /\ k.id = id /\ k.prior = run[c].prior
    BY <1>1, <2>3 DEF RunRec
  <2> HIDE DEF k
  <2>6. Alone(c) /\ run'[c] = k
    BY <2>2, <2>5, AloneExcept
  <2> QED BY <1>1, <2>1, <2>4, <2>5, <2>6 DEF id, at
<1> QED BY <1>2, <1>3

\* a job prepares the directory, and starts its episode
LEMMA PrepareMoves ==
  ASSUME run \in [Cells -> RunRec], ckpt \in [Cells -> 0..Boundaries], NEW c \in Cells
  PROVE  /\ Bind(c) => run[c].at = "bind" /\ Alone(c) /\ Keeps(c) /\ run'[c].at = "move"
         /\ MoveAside(c) => run[c].at = "move" /\ Alone(c) /\ Keeps(c) /\ run'[c].at = "play"
         /\ Replay(c) => /\ run[c].at = "play" /\ Alone(c) /\ Keeps(c) /\ run'[c].at = "call"
                         /\ run'[c].ok = ckpt[c] /\ run'[c].total = ckpt[c]
<1>1. run[c] \in RunRec /\ ckpt[c] \in 0..Boundaries
  OBVIOUS
<1>2. ASSUME NEW at \in {"move", "play"}, run' = [run EXCEPT ![c].at = at]
      PROVE  Alone(c) /\ Keeps(c) /\ run'[c].at = at
  <2> DEFINE k == [run[c] EXCEPT !.at = at]
  <2>1. k \in RunRec /\ k.at = at /\ k.id = run[c].id /\ k.prior = run[c].prior
    BY <1>1, <1>2 DEF RunRec
  <2>2. run' = [run EXCEPT ![c] = k]
    BY <1>2
  <2> HIDE DEF k
  <2> QED BY <2>1, <2>2, AloneExcept DEF Keeps
<1>3. ASSUME Replay(c)
      PROVE  /\ Alone(c) /\ Keeps(c) /\ run'[c].at = "call"
             /\ run'[c].ok = ckpt[c] /\ run'[c].total = ckpt[c]
  <2> DEFINE n == ckpt[c]
             k == [run[c] EXCEPT !.at = "call", !.reused = n, !.ok = n, !.total = n]
  <2>1. run' = [run EXCEPT ![c] = k]
    BY <1>3 DEF Replay
  <2>2. n \in 0..Boundaries
    BY <1>1
  <2> HIDE DEF n
  <2>3. k \in RunRec /\ k.at = "call" /\ k.id = run[c].id /\ k.prior = run[c].prior /\ k.ok = n
           /\ k.total = n
    BY <1>1, <2>2 DEF RunRec
  <2> HIDE DEF k
  <2> QED BY <2>1, <2>3, AloneExcept DEF Keeps, n
<1> QED BY <1>2, <1>3 DEF Bind, MoveAside, Replay

\* an answer is committed
LEMMA CommitMoves ==
  ASSUME run \in [Cells -> RunRec], NEW c \in Cells, run[c].ok < Boundaries, Commit(c)
  PROVE  /\ run[c].at = "commit" /\ Alone(c) /\ Keeps(c) /\ run'[c].at = "call"
         /\ run'[c].ok = run[c].ok + 1 /\ run'[c].total = run[c].total
<1> DEFINE k == [run[c] EXCEPT !.at = "call", !.ok = @ + 1]
<1>1. run[c] \in RunRec /\ run[c].at = "commit" /\ run' = [run EXCEPT ![c] = k]
  BY DEF Commit
<1>2. k \in RunRec /\ k.at = "call" /\ k.id = run[c].id /\ k.prior = run[c].prior
      /\ k.ok = run[c].ok + 1 /\ k.total = run[c].total
  <2> DEFINE n == run[c].ok + 1
  <2>1. run[c].ok \in 0..Boundaries /\ Boundaries \in Nat
    BY <1>1, BatchAssumption DEF RunRec
  <2>2. n \in 0..Boundaries
    BY <2>1
  <2>3. k = [run[c] EXCEPT !.at = "call", !.ok = n]
    BY <1>1 DEF RunRec
  <2> HIDE DEF n, k
  <2>4. k \in RunRec /\ k.at = "call" /\ k.id = run[c].id /\ k.prior = run[c].prior
        /\ k.ok = n /\ k.total = run[c].total
    BY <1>1, <2>2, <2>3 DEF RunRec
  <2> QED BY <2>4 DEF n
<1> HIDE DEF k
<1> QED BY <1>1, <1>2, AloneExcept DEF Keeps

\* a job leaves the pool
LEMMA LeaveMoves ==
  ASSUME run \in [Cells -> RunRec], NEW c \in Cells, run' = [run EXCEPT ![c] = Idle]
  PROVE  Alone(c) /\ run'[c] = Idle /\ run'[c].at = "no" /\ run'[c].id = 0
BY GivenRows, AloneExcept

\* an outcome is recorded
LEMMA RecordMoves ==
  ASSUME run \in [Cells -> RunRec], batch \in BatchRec, journal \in [Cells -> Row],
         settled \in [Cells -> Seq(SettledRec)], NEW c \in Cells,
         run[c].id # 0 => run[c].row.kind \in Kinds /\ run[c].row.id = run[c].id,
         run[c].id = 0 => run[c].row = Parked, Record(c)
  PROVE  /\ batch.at = "run" /\ run[c].at = "done" /\ Alone(c) /\ run'[c].at = "no"
            /\ run'[c].id = 0
         /\ run'[c] = Idle
         /\ journal' \in [Cells -> Row] /\ journal'[c] = run[c].row
         /\ \A d \in Cells \ {c} : journal'[d] = journal[d] /\ settled'[d] = settled[d]
         /\ settled' \in [Cells -> Seq(SettledRec)]
         /\ IF run[c].id = 0 THEN settled'[c] = settled[c]
            ELSE LET e == [id |-> run[c].id, kind |-> run[c].row.kind]
                 IN  e \in SettledRec /\ settled'[c] = Append(settled[c], e)
         /\ batch' \in BatchRec /\ batch'.at = "run" /\ batch'.inv = batch.inv
         /\ batch'.held = batch.held /\ batch'.todo = batch.todo
<1> DEFINE row == run[c].row
<1>1. /\ batch.at = "run" /\ run[c].at = "done" /\ run[c] \in RunRec /\ row \in Row
      /\ run' = [run EXCEPT ![c] = Idle] /\ journal' = [journal EXCEPT ![c] = row]
  BY DEF Record, RunRec
<1>2. row.id = run[c].id
  BY GivenRows
<1>3. settled' \in [Cells -> Seq(SettledRec)] /\ (\A d \in Cells \ {c} : settled'[d] = settled[d])
      /\ IF run[c].id = 0 THEN settled'[c] = settled[c]
         ELSE LET e == [id |-> run[c].id, kind |-> row.kind]
              IN  e \in SettledRec /\ settled'[c] = Append(settled[c], e)
  <2>1. CASE run[c].id = 0
    BY <1>2, <2>1 DEF Record
  <2>2. CASE run[c].id # 0
    <3> DEFINE e == [id |-> row.id, kind |-> row.kind]
    <3>1. row.id \in Attempts /\ row.kind \in Kinds
      BY <1>1, <1>2, <2>2, BatchAssumption DEF RunRec, Attempts
    <3>2. e \in SettledRec
      BY <3>1 DEF SettledRec
    <3>3. settled' = [settled EXCEPT ![c] = Append(@, e)]
      BY <1>2, <2>2 DEF Record
    <3> HIDE DEF e
    <3>4. settled' \in [Cells -> Seq(SettledRec)] /\ settled'[c] = Append(settled[c], e)
          /\ \A d \in Cells \ {c} : settled'[d] = settled[d]
      BY <3>2, <3>3
    <3> QED BY <1>2, <2>2, <3>2, <3>4 DEF e
  <2> QED BY <2>1, <2>2
<1>4. batch' \in BatchRec /\ batch'.at = "run" /\ batch'.inv = batch.inv
      /\ batch'.held = batch.held /\ batch'.todo = batch.todo
  <2> DEFINE p == batch.parked \/ QuotaExhausted(row.kind)
  <2>1. batch' = [batch EXCEPT !.parked = p] /\ p \in BOOLEAN
    BY DEF Record
  <2> HIDE DEF p
  <2> QED BY <1>1, <2>1 DEF BatchRec
<1>5. Alone(c) /\ run'[c].at = "no" /\ run'[c].id = 0 /\ run'[c] = Idle
  BY <1>1, LeaveMoves
<1> QED BY <1>1, <1>3, <1>4, <1>5


----------------------------------------------------------------------------
(* What single steps do to the job *)
\* the part of a cell's hold that update_cell_holds decides
Updated(j, more, c) ==
  IF /\ j.held[c] # "repair" /\ Failures(c) > 0 /\ Failures(c) >= MaxAttempts + more[c]
  THEN "budget" ELSE j.held[c]

\* a job after its holds were updated: whether it may go on
LEMMA UpdateMoves ==
  ASSUME NEW j \in JobRec, NEW more
  PROVE  LET u == UpdateHolds(j, more) IN
         /\ u \in JobRec /\ \A c \in Cells : u.held[c] = Updated(j, more, c)
         /\ u.cool = j.cool /\ u.pending = j.pending /\ u.inv = j.inv /\ u.active = j.active
         /\ j.reason = "access" => u.reason = "access" /\ u.status = j.status /\ u.waits = j.waits
         /\ j.reason # "access" =>
              \/ u.status = "ready" /\ u.waits /\ u.reason = j.reason
                 /\ HeldCells(u) # {} /\ u.pending <= Cardinality(HeldCells(u))
              \/ u.status = "attention" /\ u.reason \in {"exhausted", "held"} /\ u.waits = j.waits
                 /\ HeldCells(u) # {} /\ u.pending <= Cardinality(HeldCells(u))
              \/ /\ ~(HeldCells(u) # {} /\ u.pending <= Cardinality(HeldCells(u)))
                 /\ u.waits = j.waits
                 /\ IF j.reason \in {"exhausted", "held"} THEN u.status = "ready"
                    /\ u.reason = "none"
                    ELSE u.status = j.status /\ u.reason = j.reason
<1> DEFINE g == [c \in Cells |-> Updated(j, more, c)]
           h == [j EXCEPT !.held = g]
           H == HeldCells(h)
           blocked == H # {} /\ h.pending <= Cardinality(H)
           cooling == \E c \in H \cap h.cool : h.held[c] = "cooldown"
           why == IF \A c \in H : h.held[c] = "budget" THEN "exhausted" ELSE "held"
<1>1. g \in [Cells -> Holds]
  BY DEF JobRec, Holds, Updated
<1>2. UpdateHolds(j, more) =
        CASE h.reason = "access" -> h
          [] h.reason # "access" /\ blocked
             /\ cooling -> [h EXCEPT !.status = "ready", !.waits = TRUE]
          [] h.reason # "access" /\ blocked
             /\ ~cooling -> [h EXCEPT !.status = "attention", !.reason = why]
          [] h.reason # "access" /\ ~blocked /\ h.reason \in {"exhausted", "held"} ->
               [h EXCEPT !.status = "ready", !.reason = "none"]
          [] OTHER -> h
  BY DEF UpdateHolds, Updated
<1> HIDE DEF g
<1>3. h \in JobRec /\ h.held = g /\ h.cool = j.cool /\ h.pending = j.pending /\ h.inv = j.inv
      /\ h.active = j.active /\ h.status = j.status /\ h.reason = j.reason /\ h.waits = j.waits
  BY <1>1 DEF JobRec
<1>4. \A u : u.held = g => HeldCells(u) = H
  BY <1>3 DEF HeldCells
<1>5. why \in {"exhausted", "held"}
  OBVIOUS
<1>6. \A c \in Cells : g[c] = Updated(j, more, c)
  BY DEF g
<1> HIDE DEF h, H, blocked, cooling, why
<1>7. CASE h.reason = "access" \/ (~blocked /\ h.reason \notin {"exhausted", "held"})
  <2>1. UpdateHolds(j, more) = h
    BY <1>2, <1>7
  <2> QED BY <1>3, <1>4, <1>6, <1>7, <2>1 DEF blocked
<1>8. CASE h.reason # "access" /\ blocked /\ cooling
  <2> DEFINE u == [h EXCEPT !.status = "ready", !.waits = TRUE]
  <2>1. UpdateHolds(j, more) = u
    BY <1>2, <1>8
  <2>2. u \in JobRec /\ u.held = g /\ u.cool = h.cool /\ u.pending = h.pending /\ u.inv = h.inv
        /\ u.active = h.active /\ u.status = "ready" /\ u.reason = h.reason /\ u.waits = TRUE
    BY <1>3 DEF JobRec
  <2> HIDE DEF u
  <2> QED BY <1>3, <1>4, <1>6, <1>8, <2>1, <2>2 DEF blocked
<1>9. CASE h.reason # "access" /\ blocked /\ ~cooling
  <2> DEFINE u == [h EXCEPT !.status = "attention", !.reason = why]
  <2>1. UpdateHolds(j, more) = u
    BY <1>2, <1>9
  <2>2. u \in JobRec /\ u.held = g /\ u.cool = h.cool /\ u.pending = h.pending /\ u.inv = h.inv
        /\ u.active = h.active /\ u.status = "attention" /\ u.reason = why /\ u.waits = h.waits
    BY <1>3, <1>5 DEF JobRec
  <2> HIDE DEF u
  <2> QED BY <1>3, <1>4, <1>5, <1>6, <1>9, <2>1, <2>2 DEF blocked
<1>10. CASE h.reason # "access" /\ ~blocked /\ h.reason \in {"exhausted", "held"}
  <2> DEFINE u == [h EXCEPT !.status = "ready", !.reason = "none"]
  <2>1. UpdateHolds(j, more) = u
    BY <1>2, <1>10
  <2>2. u \in JobRec /\ u.held = g /\ u.cool = h.cool /\ u.pending = h.pending /\ u.inv = h.inv
        /\ u.active = h.active /\ u.status = "ready" /\ u.reason = "none" /\ u.waits = h.waits
    BY <1>3 DEF JobRec
  <2> HIDE DEF u
  <2> QED BY <1>3, <1>4, <1>6, <1>10, <2>1, <2>2 DEF blocked
<1> QED BY <1>7, <1>8, <1>9, <1>10

\* a job some of whose cooldowns are over
LEMMA RefreshMoves ==
  ASSUME NEW j \in JobRec, NEW over \in SUBSET Cells
  PROVE  LET r == Refreshed(j, over) IN
         /\ r \in JobRec
         /\ \A c \in Cells : r.held[c] = IF c \in over
            /\ j.held[c] = "cooldown" THEN "no" ELSE j.held[c]
         /\ r.cool = j.cool \ over /\ r.pending = j.pending /\ r.inv = j.inv /\ r.active = j.active
         /\ r.status = j.status /\ r.reason = j.reason
         /\ r.waits <=> j.waits /\ \A c \in over : j.held[c] # "cooldown"
<1> DEFINE g == [c \in Cells |-> IF c \in over /\ j.held[c] = "cooldown" THEN "no" ELSE j.held[c]]
           w == j.waits /\ \A c \in over : j.held[c] # "cooldown"
           r == [j EXCEPT !.cool = @ \ over, !.held = g, !.waits = w]
<1>1. Refreshed(j, over) = r
  BY DEF Refreshed
<1>2. g \in [Cells -> Holds] /\ w \in BOOLEAN
  BY DEF JobRec, Holds
<1>3. \A c \in Cells : g[c] = IF c \in over /\ j.held[c] = "cooldown" THEN "no" ELSE j.held[c]
  OBVIOUS
<1>4. w <=> j.waits /\ \A c \in over : j.held[c] # "cooldown"
  OBVIOUS
<1> HIDE DEF g, w
<1>5. /\ r \in JobRec /\ r.held = g /\ r.cool = j.cool \ over /\ r.pending = j.pending
      /\ r.inv = j.inv /\ r.active = j.active /\ r.status = j.status /\ r.reason = j.reason
      /\ r.waits = w
  BY <1>2 DEF JobRec
<1> HIDE DEF r
<1> QED BY <1>1, <1>3, <1>4, <1>5

\* a job is blocked, or it goes on
LEMMA GoesOrNot ==
  ASSUME NEW j \in JobRec
  PROVE  Goes(j) <=> ~(HeldCells(j) # {} /\ j.pending <= Cardinality(HeldCells(j)))
<1>1. Cardinality(HeldCells(j)) \in Nat /\ j.pending \in Nat
  BY CellsFinite DEF HeldCells, JobRec
<1> QED BY <1>1 DEF Goes

\* a job that is closed: what of its holds is new, and that it goes on only if a
\* cell is left for it
LEMMA CloseMoves ==
  ASSUME Typed, LaneTyped, job.reason \notin {"missing", "access"}, Close
  PROVE  /\ lane.at = "charge" /\ lane.due = {} /\ lane'.at = "loop" /\ lane'.due = {}
         /\ lane' \in LaneRec /\ pool' \in BOOLEAN
         /\ job' \in JobRec /\ ~job'.active /\ job'.pending = summary.pending /\ job'.inv = job.inv
         /\ job'.reason # "missing" /\ (job'.reason = "access" => job'.status = "attention")
         /\ job'.status = "ready" /\ ~job'.waits => Goes(job')
         /\ \A c \in Cells :
              \/ job'.held[c] = job.held[c]
              \/ job'.held[c] = "budget" /\ Failures(c) > 0 /\ Failures(c) >= MaxAttempts + extra[c]
              \/ job'.held[c] = "cooldown" /\ journal[c].kind = "transport"
              \/ job'.held[c] = "repair" /\ (NeedsRepair(journal[c].kind) \/ ~Evident(c))
         /\ job'.reason # "access" => \A c \in Cells :
              Failures(c) > 0 /\ Failures(c) >= MaxAttempts + extra[c] /\ job'.held[c] # "repair"
                => job'.held[c] = "budget"
<1> USE DEF Typed, LaneTyped
<1>0. job \in JobRec /\ summary \in SummaryRec /\ summary.pending \in Nat
         /\ summary.dispatched \subseteq Cells
  BY DEF SummaryRec
<1>1. lane.at = "charge" /\ lane.due = {} /\ lane'.at = "loop" /\ lane'.due = {}
         /\ lane' \in LaneRec
  BY DEF Close, LaneRec
<1>2. pool' \in BOOLEAN
  <2>1. CASE Completed
    BY <2>1 DEF Close
  <2>2. CASE ~Completed
    BY <2>2 DEF Close
  <2> QED BY <2>1, <2>2
<1>3. ASSUME NEW timed \in SUBSET {c \in summary.dispatched : journal[c].kind = "transport"},
             job' = AfterCompletion(timed)
      PROVE  /\ job' \in JobRec /\ ~job'.active /\ job'.pending = summary.pending
                /\ job'.inv = job.inv
             /\ job'.reason # "missing" /\ (job'.reason = "access" => job'.status = "attention")
             /\ job'.status = "ready" /\ ~job'.waits => Goes(job')
             /\ \A c \in Cells :
                  \/ job'.held[c] = job.held[c]
                  \/ job'.held[c] = "budget" /\ Failures(c) > 0
                     /\ Failures(c) >= MaxAttempts + extra[c]
                  \/ job'.held[c] = "cooldown" /\ journal[c].kind = "transport"
                  \/ job'.held[c] = "repair" /\ (NeedsRepair(journal[c].kind) \/ ~Evident(c))
             /\ \A c \in Cells :
                  Failures(c) > 0 /\ Failures(c) >= MaxAttempts + extra[c]
                     /\ job'.held[c] # "repair"
                    => job'.held[c] = "budget"
  <2> DEFINE access == \E c \in summary.dispatched : journal[c].kind = "config"
             repair == {c \in ToRepair : TRUE} \cup {c \in summary.dispatched : NeedsRepair(journal[c].kind)}
             status == IF access THEN "attention" ELSE "ready"
             reason == IF access THEN "access" ELSE job.reason
             held == [c \in Cells |-> CASE c \in timed -> "cooldown"
                                        [] c \in repair \ timed -> "repair"
                                        [] OTHER -> job.held[c]]
             pending == summary.pending
             j == [job EXCEPT !.active = FALSE, !.pending = pending, !.waits = FALSE,
                              !.status = status, !.reason = reason, !.held = held,
                              !.cool = @ \cup timed]
             u == UpdateHolds(j, extra)
  <2>1. job' = IF summary.pending = 0 /\ HeldCells(u) = {} /\ u.status # "attention"
               THEN [u EXCEPT !.status = "closed"] ELSE u
    <3>1. j = [job EXCEPT
              !.active = FALSE, !.pending = summary.pending, !.waits = FALSE,
              !.status = IF access THEN "attention" ELSE "ready",
              !.reason = IF access THEN "access" ELSE @,
              !.held = [c \in Cells |-> CASE c \in timed -> "cooldown"
                                          [] c \in repair \ timed -> "repair"
                                          [] OTHER -> job.held[c]],
              !.cool = @ \cup timed]
      BY <1>0 DEF JobRec
    <3> HIDE DEF j
    <3> QED BY ZenonT(30), <1>3, <3>1 DEF AfterCompletion
  <2>2. held \in [Cells -> Holds]
    BY <1>0 DEF JobRec, Holds
  <2>3. \A c \in Cells : \/ held[c] = job.held[c]
                         \/ held[c] = "cooldown" /\ journal[c].kind = "transport"
                         \/ held[c] = "repair" /\ (NeedsRepair(journal[c].kind) \/ ~Evident(c))
    BY <1>3 DEF ToRepair
  <2>4. timed \subseteq Cells /\ pending \in Nat /\ pending = summary.pending
    BY <1>0
  <2>5. /\ status \in {"attention", "ready"} /\ reason \in {"access", job.reason}
        /\ reason = "access" => status = "attention"
    OBVIOUS
  <2> HIDE DEF held, status, reason, pending
  <2>6. /\ j \in JobRec /\ ~j.active /\ j.pending = summary.pending /\ ~j.waits /\ j.inv = job.inv
        /\ j.status = status /\ j.reason = reason /\ j.held = held
    BY <1>0, <2>2, <2>4, <2>5 DEF JobRec
  <2> HIDE DEF j
  <2>7. /\ u \in JobRec /\ \A c \in Cells : u.held[c] = Updated(j, extra, c)
        /\ u.pending = j.pending /\ u.inv = j.inv /\ u.active = j.active
        /\ j.reason = "access" => u.reason = "access" /\ u.status = j.status
        /\ u.reason # "missing" /\ (j.reason # "access" => u.reason # "access")
        /\ u.status = "ready" /\ ~u.waits => Goes(u)
    <3>1. u \in JobRec
      BY <2>6, UpdateMoves
    <3>2. /\ \A c \in Cells : u.held[c] = Updated(j, extra, c)
          /\ u.cool = j.cool /\ u.pending = j.pending /\ u.inv = j.inv /\ u.active = j.active
          /\ j.reason = "access" => u.reason = "access" /\ u.status = j.status /\ u.waits = j.waits
          /\ j.reason # "access" =>
               \/ u.status = "ready" /\ u.waits /\ u.reason = j.reason
               \/ u.status = "attention" /\ u.reason \in {"exhausted", "held"}
               \/ /\ ~(HeldCells(u) # {} /\ u.pending <= Cardinality(HeldCells(u)))
                  /\ IF j.reason \in {"exhausted", "held"} THEN u.status = "ready"
                     /\ u.reason = "none"
                     ELSE u.status = j.status /\ u.reason = j.reason
      BY <2>6, UpdateMoves
    <3> HIDE DEF u
    <3>3. u.status = "ready" /\ ~u.waits => Goes(u)
      BY <2>5, <2>6, <3>1, <3>2, GoesOrNot
    <3> QED BY <2>5, <2>6, <3>1, <3>2, <3>3
  <2> HIDE DEF u
  <2>8. /\ job' \in JobRec /\ job'.held = u.held /\ job'.pending = u.pending /\ job'.inv = u.inv
        /\ job'.active = u.active /\ job'.waits = u.waits /\ job'.reason = u.reason
        /\ job'.status = u.status \/ (job'.status = "closed" /\ u.status # "attention")
    BY <2>1, <2>7 DEF JobRec
  <2>9. HeldCells(job') = HeldCells(u)
    BY <2>8 DEF HeldCells
  <2>10. \A c \in Cells :
              /\ u.held[c] = held[c]
                 \/ (u.held[c] = "budget" /\ Failures(c) > 0 /\ Failures(c) >= MaxAttempts + extra[c])
              /\ Failures(c) > 0 /\ Failures(c) >= MaxAttempts + extra[c]
                 /\ u.held[c] # "repair" => u.held[c] = "budget"
    BY <2>6, <2>7 DEF Updated
  <2>11. job'.status = "ready" /\ ~job'.waits => Goes(job')
    BY <2>7, <2>8, <2>9 DEF Goes
  <2>12. job'.reason # "missing" /\ (job'.reason = "access" => job'.status = "attention")
    BY <2>5, <2>6, <2>7, <2>8
  <2>13. \A c \in Cells :
                  \/ job'.held[c] = job.held[c]
                  \/ job'.held[c] = "budget" /\ Failures(c) > 0
                     /\ Failures(c) >= MaxAttempts + extra[c]
                  \/ job'.held[c] = "cooldown" /\ journal[c].kind = "transport"
                  \/ job'.held[c] = "repair" /\ (NeedsRepair(journal[c].kind) \/ ~Evident(c))
    BY ZenonT(30), <2>3, <2>8, <2>10
  <2> QED BY <2>6, <2>7, <2>8, <2>10, <2>11, <2>12, <2>13
<1>4. ASSUME job' = AfterInterruption
      PROVE  /\ job' \in JobRec /\ ~job'.active /\ job'.pending = summary.pending
                /\ job'.inv = job.inv
             /\ job'.reason # "missing" /\ (job'.reason = "access" => job'.status = "attention")
             /\ job'.status = "ready" /\ ~job'.waits => Goes(job')
             /\ \A c \in Cells :
                  \/ job'.held[c] = job.held[c]
                  \/ job'.held[c] = "budget" /\ Failures(c) > 0
                     /\ Failures(c) >= MaxAttempts + extra[c]
             /\ job'.reason # "access" => \A c \in Cells :
                  Failures(c) > 0 /\ Failures(c) >= MaxAttempts + extra[c]
                     /\ job'.held[c] # "repair"
                    => job'.held[c] = "budget"
  <2> DEFINE pending == summary.pending
             j == [job EXCEPT !.active = FALSE, !.pending = pending, !.waits = FALSE]
             a == [j EXCEPT !.status = "attention", !.reason = "access"]
             r == [j EXCEPT !.status = "ready", !.reason = "interrupted"]
             u == UpdateHolds(r, extra)
  <2>1. job' = a \/ job' = u
    BY <1>4 DEF AfterInterruption
  <2>2. pending \in Nat /\ pending = summary.pending
    BY <1>0
  <2> HIDE DEF pending
  <2>3. /\ a \in JobRec /\ ~a.active /\ a.pending = summary.pending /\ ~a.waits /\ a.inv = job.inv
        /\ a.status = "attention" /\ a.reason = "access" /\ a.held = job.held
        /\ r \in JobRec /\ ~r.active /\ r.pending = summary.pending /\ ~r.waits /\ r.inv = job.inv
        /\ r.status = "ready" /\ r.reason = "interrupted" /\ r.held = job.held
    BY <1>0, <2>2 DEF JobRec
  <2> HIDE DEF a, r
  <2>4. CASE job' = a
    BY <2>3, <2>4
  <2>5. CASE job' = u
    <3>0. /\ u \in JobRec /\ \A c \in Cells : u.held[c] = Updated(r, extra, c)
          /\ u.pending = r.pending /\ u.inv = r.inv /\ u.active = r.active
          /\ r.reason # "access" =>
               \/ u.status = "ready" /\ u.waits /\ u.reason = r.reason
               \/ u.status = "attention" /\ u.reason \in {"exhausted", "held"}
               \/ /\ ~(HeldCells(u) # {} /\ u.pending <= Cardinality(HeldCells(u)))
                  /\ IF r.reason \in {"exhausted", "held"} THEN u.reason = "none"
                     ELSE u.reason = r.reason
      <4>1. r \in JobRec
        BY <2>3
      <4> QED BY <4>1, UpdateMoves
    <3> HIDE DEF u
    <3>1. u.status = "ready" /\ ~u.waits => Goes(u)
      BY <2>3, <3>0, GoesOrNot
    <3>2. /\ \A c \in Cells : u.held[c] = Updated(r, extra, c)
          /\ u.pending = r.pending /\ u.inv = r.inv /\ u.active = r.active
          /\ u.reason \notin {"missing", "access"}
      BY <2>3, <3>0
    <3>3. \A c \in Cells :
              /\ u.held[c] = job.held[c]
                 \/ (u.held[c] = "budget" /\ Failures(c) > 0 /\ Failures(c) >= MaxAttempts + extra[c])
              /\ Failures(c) > 0 /\ Failures(c) >= MaxAttempts + extra[c]
                 /\ u.held[c] # "repair" => u.held[c] = "budget"
      BY <2>3, <3>2 DEF Updated
    <3> QED BY <2>3, <2>5, <3>0, <3>1, <3>2, <3>3
  <2> QED BY <2>1, <2>4, <2>5
<1>5. CASE Completed
  <2>1. PICK timed \in SUBSET {c \in summary.dispatched : journal[c].kind = "transport"} : job' = AfterCompletion(timed)
    BY <1>5 DEF Close
  <2> QED BY <1>1, <1>2, <1>3, <2>1
<1>6. CASE ~Completed
  <2>1. job' = AfterInterruption
    BY <1>6 DEF Close
  <2> QED BY <1>1, <1>2, <1>4, <2>1
<1> QED BY <1>5, <1>6

\* a lane that starts, and an operator that extends a budget, update the holds
HoldsMove ==
  /\ job' \in JobRec /\ job'.pending = job.pending /\ job'.inv = job.inv /\ job'.active = job.active
  /\ \A c \in Cells :
       \/ job'.held[c] \in {job.held[c], "no"}
       \/ job'.held[c] = "cooldown" /\ job.held[c] # "no"
       \/ job'.held[c] = "budget" /\ Failures(c) > 0 /\ Failures(c) >= MaxAttempts + extra'[c]
  /\ \A c \in Cells :
       Failures(c) > 0 /\ Failures(c) >= MaxAttempts + extra'[c] /\ job'.held[c] # "repair"
         => job'.held[c] = "budget"
  /\ job.reason = "access" => job'.reason = "access" /\ job'.status = job.status
  /\ job.reason # "access" /\ ~Goes(job') =>
       /\ job'.reason \in {job.reason, "none", "exhausted", "held"}
       /\ \/ job'.status = "attention" /\ job'.reason \in {"exhausted", "held"}
          \/ job'.status = "ready" /\ job'.waits
  /\ job.reason # "access" /\ Goes(job') =>
       /\ job'.waits => job.waits
       /\ \/ job'.reason = job.reason /\ job'.status = job.status
          \/ job'.reason = "none" /\ job.reason \in {"exhausted", "held"} /\ job'.status = "ready"

\* update_cell_holds, applied to a job that differs in its holds only
LEMMA HoldsUpdated ==
  ASSUME LaneTyped, NEW j \in JobRec, job' = UpdateHolds(j, extra'),
         j.pending = job.pending, j.inv = job.inv, j.active = job.active, j.waits => job.waits,
         \A c \in Cells : \/ j.held[c] \in {job.held[c], "no"}
                          \/ j.held[c] = "cooldown" /\ job.held[c] # "no",
         \/ j.reason = job.reason /\ j.status = job.status
         \/ j.reason = "none" /\ job.reason \in {"exhausted", "held"} /\ j.status = "ready"
  PROVE  HoldsMove
<1> DEFINE u == UpdateHolds(j, extra')
<1>1. u \in JobRec
  BY UpdateMoves
<1>2. /\ \A c \in Cells : u.held[c] = Updated(j, extra', c)
      /\ u.cool = j.cool /\ u.pending = j.pending /\ u.inv = j.inv /\ u.active = j.active
      /\ j.reason = "access" => u.reason = "access" /\ u.status = j.status /\ u.waits = j.waits
      /\ j.reason # "access" =>
           \/ u.status = "ready" /\ u.waits /\ u.reason = j.reason
              /\ HeldCells(u) # {} /\ u.pending <= Cardinality(HeldCells(u))
           \/ u.status = "attention" /\ u.reason \in {"exhausted", "held"} /\ u.waits = j.waits
              /\ HeldCells(u) # {} /\ u.pending <= Cardinality(HeldCells(u))
           \/ /\ ~(HeldCells(u) # {} /\ u.pending <= Cardinality(HeldCells(u)))
              /\ u.waits = j.waits
              /\ IF j.reason \in {"exhausted", "held"} THEN u.status = "ready" /\ u.reason = "none"
                 ELSE u.status = j.status /\ u.reason = j.reason
  BY UpdateMoves
<1>3. job' = u
  OBVIOUS
<1> HIDE DEF u
<1>4. \A c \in Cells :
        /\ \/ u.held[c] = j.held[c]
           \/ u.held[c] = "budget" /\ Failures(c) > 0 /\ Failures(c) >= MaxAttempts + extra'[c]
        /\ Failures(c) > 0 /\ Failures(c) >= MaxAttempts + extra'[c] /\ u.held[c] # "repair"
             => u.held[c] = "budget"
  BY <1>2 DEF Updated
<1>5. Goes(u) <=> ~(HeldCells(u) # {} /\ u.pending <= Cardinality(HeldCells(u)))
  BY <1>1, GoesOrNot
<1>6. /\ j.reason # "access" /\ ~Goes(u) =>
           /\ u.reason \in {j.reason, "exhausted", "held"}
           /\ \/ u.status = "attention" /\ u.reason \in {"exhausted", "held"}
              \/ u.status = "ready" /\ u.waits
      /\ j.reason # "access" /\ Goes(u) =>
           /\ u.waits = j.waits
           /\ IF j.reason \in {"exhausted", "held"} THEN u.status = "ready" /\ u.reason = "none"
              ELSE u.status = j.status /\ u.reason = j.reason
  BY <1>2, <1>5
<1>7. /\ job.reason = "access" => u.reason = "access" /\ u.status = job.status
      /\ job.reason # "access" => j.reason # "access"
  BY <1>2
<1>8. \A c \in Cells :
       \/ u.held[c] \in {job.held[c], "no"}
       \/ u.held[c] = "cooldown" /\ job.held[c] # "no"
       \/ u.held[c] = "budget" /\ Failures(c) > 0 /\ Failures(c) >= MaxAttempts + extra'[c]
  BY <1>4
<1> QED BY <1>1, <1>2, <1>3, <1>4, <1>6, <1>7, <1>8 DEF HoldsMove

\* a lane that starts only updates the holds
LEMMA LaneStartMoves ==
  ASSUME LaneTyped, LaneStart
  PROVE  HoldsMove /\ UNCHANGED extra
<1>1. PICK over \in SUBSET job.cool : job' = UpdateHolds(Refreshed(job, over), extra)
  BY DEF LaneStart
<1> DEFINE r == Refreshed(job, over)
<1>2. job \in JobRec /\ over \in SUBSET Cells /\ extra' = extra
  BY DEF LaneTyped, JobRec, LaneStart
<1>3. r \in JobRec
  BY <1>2, RefreshMoves
<1>4. /\ \A c \in Cells : r.held[c] = IF c \in over
         /\ job.held[c] = "cooldown" THEN "no" ELSE job.held[c]
      /\ r.pending = job.pending /\ r.inv = job.inv /\ r.active = job.active
      /\ r.status = job.status /\ r.reason = job.reason
      /\ r.waits <=> job.waits /\ \A c \in over : job.held[c] # "cooldown"
  BY <1>2, RefreshMoves
<1>5. job' = UpdateHolds(r, extra')
  BY <1>1, <1>2
<1> HIDE DEF r
<1>6. \A c \in Cells : r.held[c] \in {job.held[c], "no"}
  BY <1>4
<1> QED BY <1>2, <1>3, <1>4, <1>5, <1>6, HoldsUpdated

\* and so does an operator who extends a budget
LEMMA ExtendMoves ==
  ASSUME LaneTyped, NEW c \in Cells, ExtendAttempts(c)
  PROVE  /\ HoldsMove /\ extra' \in [Cells -> 0..MaxExtensions]
         /\ \A d \in Cells : extra[d] <= extra'[d]
<1> DEFINE back == job.reason \in {"exhausted", "held"}
           status == IF back THEN "ready" ELSE job.status
           reason == IF back THEN "none" ELSE job.reason
           waits == job.waits /\ ~back
           hold == IF job.held[c] # "budget" THEN job.held[c] ELSE IF c \in job.cool THEN "cooldown" ELSE "no"
           held == [job.held EXCEPT ![c] = hold]
           j == [job EXCEPT !.held = held, !.status = status, !.reason = reason, !.waits = waits]
<1>0. job \in JobRec /\ MaxExtensions \in Nat
  BY CampaignAssumption DEF LaneTyped
<1>1. extra' \in [Cells -> 0..MaxExtensions] /\ \A d \in Cells : extra[d] <= extra'[d]
  <2>1. extra' = [extra EXCEPT ![c] = @ + 1] /\ extra[c] < MaxExtensions
           /\ extra \in [Cells -> 0..MaxExtensions]
    BY DEF ExtendAttempts, LaneTyped
  <2>2. extra[c] + 1 \in 0..MaxExtensions
    BY <2>1, <1>0
  <2> QED BY <2>1, <2>2, <1>0
<1>2. job' = UpdateHolds(j, extra')
  <2>1. j = [job EXCEPT
              !.held[c] = IF @ # "budget" THEN @ ELSE IF c \in job.cool THEN "cooldown" ELSE "no",
              !.status = IF back THEN "ready" ELSE @,
              !.reason = IF back THEN "none" ELSE @,
              !.waits = @ /\ ~back]
    BY <1>0 DEF JobRec
  <2> HIDE DEF j
  <2> QED BY <2>1 DEF ExtendAttempts
<1>3. hold \in {job.held[c], "no"} \/ (hold = "cooldown" /\ job.held[c] # "no")
  OBVIOUS
<1>4. held \in [Cells -> Holds] /\ held[c] = hold /\ \A d \in Cells \ {c} : held[d] = job.held[d]
  BY <1>0, <1>3 DEF JobRec, Holds
<1>5. waits \in BOOLEAN /\ (waits => job.waits)
      /\ \/ reason = job.reason /\ status = job.status
         \/ reason = "none" /\ job.reason \in {"exhausted", "held"} /\ status = "ready"
  OBVIOUS
<1> HIDE DEF status, reason, waits, hold, held
<1>6. /\ j \in JobRec /\ j.held = held /\ j.status = status /\ j.reason = reason /\ j.waits = waits
      /\ j.pending = job.pending /\ j.inv = job.inv /\ j.active = job.active
  BY <1>0, <1>4, <1>5 DEF JobRec
<1> HIDE DEF j
<1>7. \A d \in Cells : \/ j.held[d] \in {job.held[d], "no"}
                       \/ j.held[d] = "cooldown" /\ job.held[d] # "no"
  BY <1>3, <1>4, <1>6
<1>8. HoldsMove
  BY <1>2, <1>5, <1>6, <1>7, HoldsUpdated
<1> QED BY <1>1, <1>8

\* the end of a cooldown lets its cell go
LEMMA CooldownMoves ==
  ASSUME LaneTyped, NEW c \in Cells, CooldownEnds(c)
  PROVE  /\ c \in job.cool /\ lane.at = "loop" /\ job' \in JobRec
         /\ job'.held[c] = IF job.held[c] = "cooldown" THEN "no" ELSE job.held[c]
         /\ \A d \in Cells \ {c} : job'.held[d] = job.held[d]
         /\ job'.pending = job.pending /\ job'.inv = job.inv /\ job'.active = job.active
         /\ job'.status = job.status /\ job'.reason = job.reason
         /\ job'.waits <=> job.waits /\ job.held[c] # "cooldown"
<1>1. job \in JobRec /\ {c} \in SUBSET Cells /\ job' = Refreshed(job, {c}) /\ c \in job.cool
         /\ lane.at = "loop"
  BY DEF LaneTyped, CooldownEnds
<1> DEFINE r == Refreshed(job, {c})
<1>2. r \in JobRec
  BY <1>1, RefreshMoves
<1>3. /\ \A d \in Cells : r.held[d] = IF d \in {c}
         /\ job.held[d] = "cooldown" THEN "no" ELSE job.held[d]
      /\ r.pending = job.pending /\ r.inv = job.inv /\ r.active = job.active
      /\ r.status = job.status /\ r.reason = job.reason
      /\ r.waits <=> job.waits /\ \A d \in {c} : job.held[d] # "cooldown"
  BY <1>1, RefreshMoves
<1> HIDE DEF r
<1> QED BY <1>1, <1>2, <1>3 DEF r

\* the remaining steps of the lane
LEMMA LaneMoves ==
  ASSUME LaneTyped
  PROVE  /\ Choose => /\ lane.at = "loop" /\ ~job.active /\ job.status = "ready" /\ ~job.waits
                         /\ ~Locked
                      /\ lane' \in LaneRec /\ lane'.at = "launch" /\ lane'.due = lane.due
                      /\ job' \in JobRec /\ job'.active /\ job'.inv = job.inv + 1
                      /\ job'.held = job.held /\ job'.pending = job.pending
                      /\ job'.status = job.status /\ job'.reason = job.reason
                         /\ job'.waits = job.waits
         /\ Launch => /\ lane.at = "launch" /\ batch.at = "off"
                      /\ lane' \in LaneRec /\ lane'.at = "wait" /\ lane'.due = lane.due
                      /\ batch' \in BatchRec /\ batch'.at = "boot" /\ batch'.inv = job.inv
                      /\ batch'.held = HeldCells(job) /\ batch'.todo = {}
         /\ Return => /\ lane.at = "wait" /\ batch.at = "off"
                      /\ lane' \in LaneRec /\ lane'.at = "loop" /\ lane'.due = lane.due
         /\ LaneExits => /\ lane.at = "loop" /\ ~job.active /\ lane' \in LaneRec
                         /\ lane'.at = "off" /\ lane'.due = lane.due
         /\ LaneStart => /\ lane.at = "off" /\ lane' \in LaneRec /\ lane'.at = "loop"
                            /\ lane'.due = {}
         /\ LaneDies => lane' \in LaneRec /\ lane'.at = "off" /\ lane'.due = {}
<1>1. lane \in LaneRec /\ job \in JobRec /\ MaxInvocations \in Nat
  BY CampaignAssumption DEF LaneTyped
<1>2. ASSUME Choose PROVE /\ job' \in JobRec /\ job'.active /\ job'.inv = job.inv + 1
                      /\ job'.held = job.held /\ job'.pending = job.pending
                      /\ job'.status = job.status /\ job'.reason = job.reason
                         /\ job'.waits = job.waits
  <2> DEFINE n == job.inv + 1
             j == [job EXCEPT !.active = TRUE, !.inv = n]
  <2>1. n \in 0..MaxInvocations /\ job' = j
    BY <1>1, <1>2 DEF Choose, JobRec
  <2> HIDE DEF n
  <2>2. j \in JobRec /\ j.active /\ j.inv = n /\ j.held = job.held /\ j.pending = job.pending
        /\ j.status = job.status /\ j.reason = job.reason /\ j.waits = job.waits
    BY <1>1, <2>1 DEF JobRec
  <2> HIDE DEF j
  <2> QED BY <2>1, <2>2 DEF n
<1>3. ASSUME Launch PROVE /\ batch' \in BatchRec /\ batch'.at = "boot" /\ batch'.inv = job.inv
                      /\ batch'.held = HeldCells(job) /\ batch'.todo = {}
  <2> DEFINE h == HeldCells(job)
  <2>1. h \subseteq Cells /\ job.inv \in Nat
    BY <1>1 DEF HeldCells, JobRec
  <2>2. batch' = [NotRunning EXCEPT !.at = "boot", !.inv = job.inv, !.held = h]
    BY <1>3 DEF Launch
  <2> HIDE DEF h
  <2>3. batch' = [at |-> "boot", inv |-> job.inv, held |-> h, todo |-> {}, parked |-> FALSE]
    BY <2>2 DEF NotRunning
  <2> QED BY <2>1, <2>3 DEF BatchRec, h
<1>4. \A at \in {"off", "loop", "launch", "wait", "charge"} :
        LET l == [lane EXCEPT !.at = at] IN l \in LaneRec /\ l.at = at /\ l.due = lane.due
  BY <1>1 DEF LaneRec
<1>5. \A at \in {"off", "loop"} :
        LET l == [at |-> at, due |-> {}] IN l \in LaneRec /\ l.at = at /\ l.due = {}
  BY DEF LaneRec
<1>6. Choose => lane.at = "loop" /\ ~job.active /\ job.status = "ready" /\ ~job.waits /\ ~Locked
                /\ lane' = [lane EXCEPT !.at = "launch"]
  BY DEF Choose
<1>7. Launch => lane.at = "launch" /\ batch.at = "off" /\ lane' = [lane EXCEPT !.at = "wait"]
  BY DEF Launch
<1>8. Return => lane.at = "wait" /\ batch.at = "off" /\ lane' = [lane EXCEPT !.at = "loop"]
  BY DEF Return
<1>9. LaneExits => lane.at = "loop" /\ ~job.active /\ lane' = [lane EXCEPT !.at = "off"]
  BY DEF LaneExits
<1>10. LaneStart => lane.at = "off" /\ lane' = [at |-> "loop", due |-> {}]
  BY DEF LaneStart
<1>11. LaneDies => lane' = [at |-> "off", due |-> {}]
  BY DEF LaneDies
<1>12. Choose => lane' \in LaneRec /\ lane'.at = "launch" /\ lane'.due = lane.due
  BY <1>4, <1>6
<1>13. Launch => lane' \in LaneRec /\ lane'.at = "wait" /\ lane'.due = lane.due
  BY <1>4, <1>7
<1>14. Return => lane' \in LaneRec /\ lane'.at = "loop" /\ lane'.due = lane.due
  BY <1>4, <1>8
<1>15. LaneExits => lane' \in LaneRec /\ lane'.at = "off" /\ lane'.due = lane.due
  BY <1>4, <1>9
<1>16. LaneStart => lane' \in LaneRec /\ lane'.at = "loop" /\ lane'.due = {}
  BY <1>5, <1>10
<1>17. LaneDies => lane' \in LaneRec /\ lane'.at = "off" /\ lane'.due = {}
  BY <1>5, <1>11
<1> QED
  BY <1>2, <1>3, <1>6, <1>7, <1>8, <1>9, <1>10, <1>12, <1>13, <1>14, <1>15, <1>16, <1>17, Zenon

\* an invocation is read, or it left nothing
LEMMA DueTyped ==
  ASSUME Typed, SettledOk
  PROVE  Due \subseteq Charge
<1> USE DEF Typed
<1>1. ASSUME NEW c \in Cells, Transport(journal[c].kind) PROVE journal[c].id \in Attempts
  <2>1. journal[c] \notin {NoRow, Parked}
    BY <1>1, GivenRows DEF Transport
  <2>2. journal[c].id # 0 /\ journal[c].id \in 0..MaxStarts
    BY <2>1 DEF SettledOk, OutcomesOk, Row
  <2> QED BY <2>2, BatchAssumption DEF Attempts
<1>2. \A s \in starts : s.cell \in Cells /\ s.id \in Attempts
  BY DEF StartRec
<1>3. summary.dispatched \subseteq Cells
  BY DEF SummaryRec
<1> QED BY <1>1, <1>2, <1>3 DEF Due, Charge

\* the lane goes on to the charges, or finds that nothing was left
LEMMA ReconcileMoves ==
  ASSUME Typed, LaneTyped, SettledOk, Reconcile
  PROVE  /\ lane.at = "loop" /\ job.active /\ ~Locked
         /\ \/ /\ Read /\ lane' \in LaneRec /\ lane'.at = "charge" /\ lane'.due = Due
                  /\ UNCHANGED job
            \/ /\ ~Read /\ job' \in JobRec /\ ~job'.active /\ job'.status = "attention"
               /\ job'.reason = "missing" /\ job'.held = job.held /\ job'.pending = job.pending
               /\ job'.inv = job.inv /\ job'.waits = job.waits /\ UNCHANGED lane
<1>1. lane.at = "loop" /\ job.active /\ ~Locked /\ job \in JobRec
  BY DEF Reconcile, LaneTyped
<1>2. CASE Read
  <2>1. lane' = [at |-> "charge", due |-> Due] /\ UNCHANGED job
    BY <1>2 DEF Reconcile, Read
  <2> QED BY <1>1, <1>2, <2>1, DueTyped DEF LaneRec
<1>3. CASE ~Read
  <2>1. job' = [job EXCEPT !.active = FALSE, !.status = "attention", !.reason = "missing"]
           /\ UNCHANGED lane
    BY <1>3 DEF Reconcile, Read
  <2> QED BY <1>1, <1>3, <2>1 DEF JobRec
<1> QED BY <1>2, <1>3

\* an attempt is charged, if it was not
LEMMA ChargeMoves ==
  ASSUME LaneTyped, ChargeAttempt
  PROVE  /\ lane.at = "charge" /\ lane' \in LaneRec /\ lane'.at = "charge"
            /\ ledger' \in Seq(Charge)
         /\ \E x \in lane.due : lane'.due = lane.due \ {x} /\ Charged' = Charged \cup {x}
         /\ (\A i, j \in DOMAIN ledger : ledger[i] = ledger[j] => i = j)
              => \A i, j \in DOMAIN ledger' : ledger'[i] = ledger'[j] => i = j
<1>1. PICK x \in lane.due : /\ lane' = [lane EXCEPT !.due = @ \ {x}]
                            /\ ledger' = IF x \in Charged THEN ledger ELSE Append(ledger, x)
  BY DEF ChargeAttempt
<1>2. lane \in LaneRec /\ ledger \in Seq(Charge) /\ lane.at = "charge" /\ x \in Charge
  BY DEF LaneTyped, LaneRec, ChargeAttempt
<1>3. lane' \in LaneRec /\ lane'.at = "charge" /\ lane'.due = lane.due \ {x}
  BY <1>1, <1>2 DEF LaneRec
<1>4. CASE x \in Charged
  BY <1>1, <1>2, <1>3, <1>4 DEF Charged
<1>5. CASE x \notin Charged
  <2>1. ledger' = Append(ledger, x)
    BY <1>1, <1>5
  <2>2. /\ DOMAIN ledger = 1..Len(ledger) /\ DOMAIN ledger' = 1..(Len(ledger) + 1)
           /\ Len(ledger) \in Nat
        /\ \A i \in DOMAIN ledger : ledger'[i] = ledger[i]
        /\ ledger'[Len(ledger) + 1] = x /\ ledger' \in Seq(Charge)
    BY <1>2, <2>1
  <2>3. Charged' = Charged \cup {x}
    BY <2>2 DEF Charged
  <2>4. \A i \in DOMAIN ledger : ledger[i] # x
    BY <1>5 DEF Charged
  <2>5. ASSUME \A i, j \in DOMAIN ledger : ledger[i] = ledger[j] => i = j,
               NEW i \in DOMAIN ledger', NEW j \in DOMAIN ledger', ledger'[i] = ledger'[j]
        PROVE  i = j
    <3>1. (i \in DOMAIN ledger \/ i = Len(ledger) + 1)
             /\ (j \in DOMAIN ledger \/ j = Len(ledger) + 1)
      BY SMTT(30), <2>2
    <3> QED BY <2>2, <2>4, <2>5, <3>1
  <2> QED BY <1>2, <1>3, <2>2, <2>3, <2>5
<1> QED BY <1>4, <1>5

----------------------------------------------------------------------------
(* Every step keeps the invariant, part by part *)
\* the types
LEMMA TypedKept ==
  ASSUME Typed, LaneTyped, PoolOk, StartsOk, Placed, [Next]_vars
  PROVE  Typed'
<1> USE DEF Typed, disk, batchVars
<1>1. CASE Boot
  <2>1. PICK jobs \in {Pending \ batch.held} \cup {{c} : c \in Pending \ batch.held} :
          /\ batch' = [batch EXCEPT !.at = "run", !.todo = jobs]
          /\ summary' = [status |-> "running", inv |-> batch.inv, dispatched |-> jobs,
                         pending |-> Cardinality(Pending \cup ToRepair)]
    BY ZenonT(30), <1>1 DEF Boot
  <2>2. jobs \subseteq Cells /\ Cardinality(Pending \cup ToRepair) \in Nat
    BY CellsFinite DEF Pending, ToRepair
  <2>3. batch' \in BatchRec
    BY <2>1, <2>2 DEF BatchRec
  <2>4. summary' \in SummaryRec
    BY <2>1, <2>2 DEF SummaryRec, BatchRec
  <2> QED BY <1>1, <2>3, <2>4 DEF Boot
<1>2. CASE Complete
  <2> DEFINE n == Cardinality(Pending \cup ToRepair)
  <2>1. n \in Nat
    BY CellsFinite DEF Pending, ToRepair
  <2>2. summary' = [summary EXCEPT !.status = "completed", !.pending = n] /\ batch' = NotRunning
    BY <1>2 DEF Complete
  <2> HIDE DEF n
  <2>3. summary' \in SummaryRec /\ batch' \in BatchRec
    BY <2>1, <2>2 DEF SummaryRec, BatchRec, NotRunning
  <2> QED BY <1>2, <2>3 DEF Complete
<1>3. CASE QuotaResets
  BY <1>3 DEF QuotaResets
<1>4. ASSUME NEW c \in Cells, Submit(c) PROVE Typed'
  <2>1. journal' \in [Cells -> Row] /\ run' \in [Cells -> RunRec] /\ batch' \in BatchRec
    BY <1>4, SubmitMoves, GivenRows DEF Alone
  <2> QED BY <1>4, <2>1 DEF Submit
<1>5. ASSUME NEW c \in Cells, Record(c) PROVE Typed'
  <2>1. run[c].at = "done"
           /\ (run[c].id # 0 => run[c].row.kind \in Kinds /\ run[c].row.id = run[c].id)
        /\ (run[c].id = 0 => run[c].row = Parked)
    BY <1>5 DEF Record, PoolOk, JobOk
  <2>2. journal' \in [Cells -> Row] /\ settled' \in [Cells -> Seq(SettledRec)]
        /\ run' \in [Cells -> RunRec] /\ batch' \in BatchRec
    BY <1>5, <2>1, RecordMoves DEF Alone
  <2> QED BY <1>5, <2>2 DEF Record
<1>6. ASSUME NEW c \in Cells, Start(c) PROVE Typed'
  <2>1. run' \in [Cells -> RunRec] /\ starts' \subseteq StartRec
    <3>1. IsFiniteSet(starts)
      BY DEF StartsOk
    <3> QED BY <1>6, <3>1, StartMoves DEF Alone
  <2> QED BY <1>6, <2>1 DEF Start
<1>7. ASSUME NEW c \in Cells, Bind(c) PROVE Typed'
  <2>1. run' \in [Cells -> RunRec]
    BY <1>7, PrepareMoves DEF Alone
  <2>2. run[c].prior.id \in 0..MaxStarts
    BY DEF RunRec, Row
  <2>3. {run[c].prior.id} \ ({0} \cup moved) \subseteq Attempts
    BY <2>2, BatchAssumption DEF Attempts
  <2> QED BY <1>7, <2>1, <2>3 DEF Bind
<1>8. ASSUME NEW c \in Cells, MoveAside(c) PROVE Typed'
  <2>1. run' \in [Cells -> RunRec]
    BY <1>8, PrepareMoves DEF Alone
  <2>2. dir[c] # 0 /\ dir[c] \in 0..MaxStarts
    BY <1>8 DEF MoveAside, Placed, PlacedAt
  <2>3. dir[c] \in Attempts /\ 0 \in 0..MaxStarts
    BY <2>2, BatchAssumption DEF Attempts
  <2> QED BY <1>8, <2>1, <2>3 DEF MoveAside
<1>9. ASSUME NEW c \in Cells, Replay(c) PROVE Typed'
  <2>1. run' \in [Cells -> RunRec]
    BY <1>9, PrepareMoves DEF Alone
  <2>2. run[c].id \in 0..MaxStarts
    BY DEF RunRec
  <2> QED BY <1>9, <2>1, <2>2 DEF Replay
<1>10. ASSUME NEW c \in Cells, Request(c) PROVE Typed'
  <2>1. run[c].total = run[c].ok
    BY <1>10 DEF Request, PoolOk, JobOk
  <2>2. run' \in [Cells -> RunRec]
    BY <1>10, <2>1, RequestMoves DEF Ends
  <2>3. sentinel' \in BOOLEAN
    BY <1>10 DEF Request
  <2> QED BY <1>10, <2>2, <2>3 DEF Request
<1>11. ASSUME NEW c \in Cells, Commit(c) PROVE Typed'
  <2>1. run[c].ok < Boundaries /\ run[c].ok = ckpt[c] /\ Boundaries \in Nat
    BY <1>11, BatchAssumption DEF Commit, PoolOk, JobOk
  <2>2. run' \in [Cells -> RunRec]
    BY <1>11, <2>1, CommitMoves DEF Alone
  <2>3. ckpt[c] + 1 \in 0..Boundaries
    BY <2>1
  <2> QED BY <1>11, <2>2, <2>3 DEF Commit
<1>12. ASSUME NEW c \in Cells, Finish(c) PROVE Typed'
  <2>1. run' \in [Cells -> RunRec]
    BY <1>12, FinishEnds DEF Ends
  <2> QED BY <1>12, <2>1 DEF Finish
<1>13. ASSUME NEW c \in Cells, Supervise(c) PROVE Typed'
  <2>1. run' \in [Cells -> RunRec]
    BY <1>13, SuperviseEnds DEF Ends
  <2> QED BY <1>13, <2>1 DEF Supervise
<1>14. ASSUME NEW c \in Cells, WorkerEnds(c) PROVE Typed'
  <2>1. run' \in [Cells -> RunRec]
    BY <1>14, LeaveMoves DEF WorkerEnds, Alone
  <2>2. lost' \subseteq Cells
    BY <1>14 DEF WorkerEnds
  <2> QED BY <1>14, <2>1, <2>2 DEF WorkerEnds
<1>15. CASE RunnerDies
  BY <1>15 DEF RunnerDies, BatchRec, NotRunning
<1>16. CASE Launch
  <2>1. batch' \in BatchRec
    BY <1>16, LaneMoves
  <2> QED BY <1>16, <2>1 DEF Launch
<1>17. CASE UNCHANGED <<batch, run, journal, starts, summary, sentinel, ckpt, dir,
  bound, moved, settled, lost>>
  BY <1>17
<1> QED
  BY ZenonT(30), <1>1, <1>2, <1>3, <1>4, <1>5, <1>6, <1>7, <1>8, <1>9, <1>10, <1>11, <1>12,
    <1>13, <1>14, <1>15, <1>16, <1>17 DEF Next, BatchStep, Worker, vars,
    campaignVars, LaneStart, Choose, Return, Reconcile, ChargeAttempt, Close,
    PoolCools, LaneDies, LaneExits, CooldownEnds, ExtendAttempts

\* the types of the lane
LEMMA LaneTypedKept ==
  ASSUME Typed, LaneTyped, SettledOk, LaneOk, [Next]_vars
  PROVE  LaneTyped'
<1> USE DEF LaneTyped, disk, batchVars, campaignVars
<1>1. ASSUME RunnerDies, deaths < MaxDeaths, deaths' = deaths + 1, UNCHANGED <<lane, job, ledger,
             extra, pool>> PROVE
  LaneTyped'
  <2>1. deaths' \in 0..MaxDeaths
    BY <1>1, CampaignAssumption
  <2> QED BY <1>1, <2>1
<1>2. CASE LaneStart
  <2>1. job' \in JobRec
    BY <1>2, LaneStartMoves DEF HoldsMove
  <2>2. lane' \in LaneRec
    BY <1>2, LaneMoves
  <2> QED BY <1>2, <2>1, <2>2 DEF LaneStart
<1>3. CASE Choose
  <2>1. job' \in JobRec /\ lane' \in LaneRec
    BY <1>3, LaneMoves
  <2> QED BY <1>3, <2>1 DEF Choose
<1>4. CASE Launch
  <2>1. lane' \in LaneRec
    BY <1>4, LaneMoves
  <2> QED BY <1>4, <2>1 DEF Launch
<1>5. CASE Return
  <2>1. lane' \in LaneRec
    BY <1>5, LaneMoves
  <2> QED BY <1>5, <2>1 DEF Return
<1>6. CASE Reconcile
  <2>1. job' \in JobRec /\ lane' \in LaneRec
    BY <1>6, ReconcileMoves
  <2> QED BY <1>6, <2>1 DEF Reconcile
<1>7. CASE ChargeAttempt
  <2>1. lane' \in LaneRec /\ ledger' \in Seq(Charge)
    BY <1>7, ChargeMoves
  <2> QED BY <1>7, <2>1 DEF ChargeAttempt
<1>8. CASE Close
  <2>1. job.reason \notin {"missing", "access"}
    BY <1>8 DEF Close, LaneOk
  <2>2. job' \in JobRec /\ lane' \in LaneRec /\ pool' \in BOOLEAN
    BY <1>8, <2>1, CloseMoves
  <2> QED BY <1>8, <2>2 DEF Close
<1>9. CASE PoolCools
  BY <1>9 DEF PoolCools
<1>10. CASE LaneDies
  <2>1. lane' \in LaneRec
    BY <1>10, LaneMoves
  <2>2. deaths' \in 0..MaxDeaths
    BY <1>10, CampaignAssumption DEF LaneDies
  <2> QED BY <1>10, <2>1, <2>2 DEF LaneDies
<1>11. CASE LaneExits
  <2>1. lane' \in LaneRec
    BY <1>11, LaneMoves
  <2> QED BY <1>11, <2>1 DEF LaneExits
<1>12. ASSUME NEW c \in Cells, CooldownEnds(c) PROVE LaneTyped'
  <2>1. job' \in JobRec
    BY <1>12, CooldownMoves
  <2> QED BY <1>12, <2>1 DEF CooldownEnds
<1>13. ASSUME NEW c \in Cells, ExtendAttempts(c) PROVE LaneTyped'
  <2>1. job' \in JobRec /\ extra' \in [Cells -> 0..MaxExtensions]
    BY <1>13, ExtendMoves DEF HoldsMove
  <2> QED BY <1>13, <2>1 DEF ExtendAttempts
<1>14. CASE UNCHANGED <<lane, job, ledger, extra, pool, deaths>>
  BY <1>14
<1> QED
  BY ZenonT(30), <1>1, <1>2, <1>3, <1>4, <1>5, <1>6, <1>7, <1>8, <1>9, <1>10, <1>11, <1>12,
    <1>13, <1>14 DEF Next, BatchStep, Worker, vars, campaignVars, Boot, Complete,
    QuotaResets, Submit, Record, Start, Bind, MoveAside, Replay, Request, Settle,
    Commit, Finish, Supervise, WorkerEnds

\* a job that does not move
LEMMA JobSame ==
  ASSUME NEW d \in Cells, JobOk(d), run'[d] = run[d], journal'[d] = journal[d], ckpt'[d] = ckpt[d]
  PROVE  JobOk(d)'
BY DEF JobOk

\* the jobs in the pool
LEMMA PoolKept ==
  ASSUME Typed, PoolOk, StartsOk, BatchOk, [Next]_vars
  PROVE  PoolOk'
<1> USE DEF Typed, disk, batchVars
<1>1. ASSUME NEW c \in Cells, Submit(c) PROVE PoolOk'
  <2>1. run[c].at = "no" /\ ckpt' = ckpt
    BY <1>1 DEF Submit, BatchOk, Dispatched, InPool
  <2>2. \/ journal' = [journal EXCEPT ![c] = Parked] /\ UNCHANGED run
        \/ /\ Alone(c) /\ run'[c].at = "queued" /\ run'[c].id = 0 /\ run'[c].prior = journal[c]
           /\ UNCHANGED journal
    BY <1>1, SubmitMoves
  <2>7. JobOk(c)'
    BY <2>1, <2>2 DEF JobOk, PoolOk, Playing
  <2>8. \A d \in Cells \ {c} : run'[d] = run[d] /\ journal'[d] = journal[d] /\ ckpt'[d] = ckpt[d]
    BY <2>1, <2>2 DEF Alone
  <2> QED BY <2>7, <2>8, JobSame DEF PoolOk
<1>2. ASSUME NEW c \in Cells, Record(c) PROVE PoolOk'
  <2>1. run[c].at = "done"
           /\ (run[c].id # 0 => run[c].row.kind \in Kinds /\ run[c].row.id = run[c].id)
        /\ (run[c].id = 0 => run[c].row = Parked)
    BY <1>2 DEF Record, PoolOk, JobOk
  <2>2. ckpt' = ckpt
    BY <1>2 DEF Record
  <2>3. Alone(c) /\ run'[c].at = "no" /\ run'[c].id = 0
           /\ \A d \in Cells \ {c} : journal'[d] = journal[d]
    BY <1>2, <2>1, RecordMoves
  <2>7. JobOk(c)'
    BY <2>3 DEF JobOk, Playing
  <2>8. \A d \in Cells \ {c} : run'[d] = run[d] /\ journal'[d] = journal[d] /\ ckpt'[d] = ckpt[d]
    BY <2>2, <2>3 DEF Alone
  <2> QED BY <2>7, <2>8, JobSame DEF PoolOk
<1>3. ASSUME NEW c \in Cells, Start(c) PROVE PoolOk'
  <2>1. IsFiniteSet(starts) /\ ckpt' = ckpt /\ journal' = journal
    BY <1>3 DEF StartsOk, Start
  <2>2. \A id \in Attempts : id # 0
    BY DEF Attempts
  <2>3. /\ run[c].at = "queued" /\ Alone(c) /\ run'[c].prior = run[c].prior
        /\ \/ run'[c].at = "done" /\ run'[c].row = Parked /\ run'[c].id = run[c].id
           \/ run'[c].id # 0 /\ run'[c].at \in {"play", "bind"}
    BY <1>3, <2>1, <2>2, StartMoves
  <2>7. JobOk(c)'
    BY <2>1, <2>3, GivenRows DEF JobOk, PoolOk, Playing
  <2>8. \A d \in Cells \ {c} : run'[d] = run[d] /\ journal'[d] = journal[d] /\ ckpt'[d] = ckpt[d]
    BY <2>1, <2>3 DEF Alone
  <2> QED BY <2>7, <2>8, JobSame DEF PoolOk
<1>4. ASSUME NEW c \in Cells, Bind(c) PROVE PoolOk'
  <2>1. ckpt' = ckpt /\ journal' = journal
    BY <1>4 DEF Bind
  <2>2. run[c].at = "bind" /\ Alone(c) /\ Keeps(c) /\ run'[c].at = "move"
    BY <1>4, PrepareMoves
  <2>7. JobOk(c)'
    BY <2>1, <2>2 DEF JobOk, PoolOk, Keeps, Playing
  <2>8. \A d \in Cells \ {c} : run'[d] = run[d] /\ journal'[d] = journal[d] /\ ckpt'[d] = ckpt[d]
    BY <2>1, <2>2 DEF Alone
  <2> QED BY <2>7, <2>8, JobSame DEF PoolOk
<1>5. ASSUME NEW c \in Cells, MoveAside(c) PROVE PoolOk'
  <2>1. ckpt' = ckpt /\ journal' = journal
    BY <1>5 DEF MoveAside
  <2>2. run[c].at = "move" /\ Alone(c) /\ Keeps(c) /\ run'[c].at = "play"
    BY <1>5, PrepareMoves
  <2>7. JobOk(c)'
    BY <2>1, <2>2 DEF JobOk, PoolOk, Keeps, Playing
  <2>8. \A d \in Cells \ {c} : run'[d] = run[d] /\ journal'[d] = journal[d] /\ ckpt'[d] = ckpt[d]
    BY <2>1, <2>2 DEF Alone
  <2> QED BY <2>7, <2>8, JobSame DEF PoolOk
<1>6. ASSUME NEW c \in Cells, Replay(c) PROVE PoolOk'
  <2>1. ckpt' = ckpt /\ journal' = journal
    BY <1>6 DEF Replay
  <2>2. run[c].at = "play" /\ Alone(c) /\ Keeps(c) /\ run'[c].at = "call"
        /\ run'[c].ok = ckpt[c] /\ run'[c].total = ckpt[c]
    BY <1>6, PrepareMoves
  <2>7. JobOk(c)'
    BY <2>1, <2>2 DEF JobOk, PoolOk, Keeps, Playing
  <2>8. \A d \in Cells \ {c} : run'[d] = run[d] /\ journal'[d] = journal[d] /\ ckpt'[d] = ckpt[d]
    BY <2>1, <2>2 DEF Alone
  <2> QED BY <2>7, <2>8, JobSame DEF PoolOk
<1>7. ASSUME NEW c \in Cells, Request(c) PROVE PoolOk'
  <2>1. ckpt' = ckpt /\ journal' = journal
    BY <1>7 DEF Request
  <2>2. run[c].total = run[c].ok /\ run[c].at = "call" /\ run[c].ok = ckpt[c] /\ run[c].id # 0
        /\ run[c].prior = journal[c]
    BY <1>7 DEF Request, PoolOk, JobOk, Playing
  <2>3. ASSUME NEW kind \in Kinds \ {"parked"}, Ends(c, kind) PROVE JobOk(c)'
    BY <2>1, <2>3 DEF JobOk, PoolOk, Ends, Playing
  <2>4. \/ /\ run[c].ok < Boundaries /\ run' \in [Cells -> RunRec]
              /\ \A d \in Cells \ {c} : run'[d] = run[d]
           /\ run'[c].at = "commit" /\ run'[c].id = run[c].id /\ run'[c].prior = run[c].prior
           /\ run'[c].ok = run[c].ok /\ run'[c].total = run[c].total + 1
        \/ \E kind \in Kinds \ {"parked"} : Ends(c, kind)
    BY <1>7, <2>2, RequestMoves
  <2>5. ASSUME run[c].ok < Boundaries, run'[c].at = "commit", run'[c].id = run[c].id,
               run'[c].prior = run[c].prior, run'[c].ok = run[c].ok,
               run'[c].total = run[c].total + 1
        PROVE  JobOk(c)'
    BY <2>1, <2>2, <2>5 DEF JobOk, Playing
  <2>7. JobOk(c)'
    BY <2>3, <2>4, <2>5
  <2>8. \A d \in Cells \ {c} : run'[d] = run[d] /\ journal'[d] = journal[d] /\ ckpt'[d] = ckpt[d]
    BY <2>1, <2>4 DEF Ends
  <2> QED BY <2>7, <2>8, JobSame DEF PoolOk
<1>8. ASSUME NEW c \in Cells, Commit(c) PROVE PoolOk'
  <2>1. ckpt' = [ckpt EXCEPT ![c] = @ + 1] /\ journal' = journal /\ run[c].at = "commit"
    BY <1>8 DEF Commit
  <2>2. run[c].total = run[c].ok + 1 /\ run[c].ok < Boundaries /\ run[c].ok = ckpt[c]
    BY <2>1 DEF JobOk, PoolOk
  <2>3. /\ Alone(c) /\ Keeps(c) /\ run'[c].at = "call"
        /\ run'[c].ok = run[c].ok + 1 /\ run'[c].total = run[c].total
    BY <1>8, <2>2, CommitMoves
  <2>7. JobOk(c)'
    BY <2>1, <2>2, <2>3 DEF JobOk, PoolOk, Keeps, Playing
  <2>8. \A d \in Cells \ {c} : run'[d] = run[d] /\ journal'[d] = journal[d] /\ ckpt'[d] = ckpt[d]
    BY <2>1, <2>3 DEF Alone
  <2> QED BY <2>7, <2>8, JobSame DEF PoolOk
<1>9. ASSUME NEW c \in Cells, Finish(c) PROVE PoolOk'
  <2>1. ckpt' = ckpt /\ journal' = journal
    BY <1>9 DEF Finish
  <2>2. PICK kind \in Kinds \ {"parked"} : Ends(c, kind)
    BY <1>9, FinishEnds
  <2>7. JobOk(c)'
    BY <2>1, <2>2 DEF JobOk, PoolOk, Ends, Playing
  <2>8. \A d \in Cells \ {c} : run'[d] = run[d] /\ journal'[d] = journal[d] /\ ckpt'[d] = ckpt[d]
    BY <2>1, <2>2 DEF Ends
  <2> QED BY <2>7, <2>8, JobSame DEF PoolOk
<1>10. ASSUME NEW c \in Cells, Supervise(c) PROVE PoolOk'
  <2>1. ckpt' = ckpt /\ journal' = journal
    BY <1>10 DEF Supervise
  <2>2. PICK kind \in Kinds \ {"parked"} : Ends(c, kind)
    BY <1>10, SuperviseEnds
  <2>7. JobOk(c)'
    BY <2>1, <2>2 DEF JobOk, PoolOk, Ends, Playing
  <2>8. \A d \in Cells \ {c} : run'[d] = run[d] /\ journal'[d] = journal[d] /\ ckpt'[d] = ckpt[d]
    BY <2>1, <2>2 DEF Ends
  <2> QED BY <2>7, <2>8, JobSame DEF PoolOk
<1>11. ASSUME NEW c \in Cells, WorkerEnds(c) PROVE PoolOk'
  <2>1. ckpt' = ckpt /\ journal' = journal /\ run' = [run EXCEPT ![c] = Idle]
    BY <1>11 DEF WorkerEnds
  <2>2. Alone(c) /\ run'[c].at = "no" /\ run'[c].id = 0
    BY <2>1, LeaveMoves
  <2>7. JobOk(c)'
    BY <2>2 DEF JobOk, Playing
  <2>8. \A d \in Cells \ {c} : run'[d] = run[d] /\ journal'[d] = journal[d] /\ ckpt'[d] = ckpt[d]
    BY <2>1, <2>2 DEF Alone
  <2> QED BY <2>7, <2>8, JobSame DEF PoolOk
<1>12. CASE UNCHANGED <<run, journal, ckpt>>
  BY <1>12 DEF PoolOk, JobOk
<1> QED
  BY ZenonT(30), <1>1, <1>2, <1>3, <1>4, <1>5, <1>6, <1>7, <1>8, <1>9, <1>10, <1>11, <1>12 DEF
    Next, BatchStep, Worker, vars, campaignVars, Boot, Complete, QuotaResets,
    RunnerDies, LaneStart, Choose, Launch, Return, Reconcile, ChargeAttempt, Close,
    PoolCools, LaneDies, LaneExits, CooldownEnds, ExtendAttempts

\* only a start gives a job another attempt
LEMMA IdsKept ==
  ASSUME Typed, PoolOk, StartsOk, NEW c \in Cells, NEW d \in Cells
  PROVE  /\ Submit(c) => run'[d].id \in {0, run[d].id}
         /\ Bind(c) \/ MoveAside(c) \/ Replay(c) \/ Request(c) \/ Commit(c) \/ Finish(c)
            \/ Supervise(c)
              => run'[d].id = run[d].id
         /\ Record(c) \/ WorkerEnds(c) => run'[d].id = IF d = c THEN 0 ELSE run[d].id
<1> USE DEF Typed
<1>1. ASSUME Submit(c) PROVE run'[d].id \in {0, run[d].id}
  BY <1>1, SubmitMoves DEF Alone
<1>2. ASSUME Bind(c) \/ MoveAside(c) \/ Replay(c) PROVE run'[d].id = run[d].id
  BY <1>2, PrepareMoves DEF Alone, Keeps
<1>3. ASSUME Request(c) PROVE run'[d].id = run[d].id
  <2>1. run[c].total = run[c].ok
    BY <1>3 DEF Request, PoolOk, JobOk
  <2> QED BY <1>3, <2>1, RequestMoves DEF Ends
<1>4. ASSUME Commit(c) PROVE run'[d].id = run[d].id
  <2>1. run[c].ok < Boundaries
    BY <1>4 DEF Commit, PoolOk, JobOk
  <2> QED BY <1>4, <2>1, CommitMoves DEF Alone, Keeps
<1>5. ASSUME Finish(c) PROVE run'[d].id = run[d].id
  BY <1>5, FinishEnds DEF Ends
<1>6. ASSUME Supervise(c) PROVE run'[d].id = run[d].id
  BY <1>6, SuperviseEnds DEF Ends
<1>7. ASSUME Record(c) \/ WorkerEnds(c) PROVE run'[d].id = IF d = c THEN 0 ELSE run[d].id
  <2>1. run' = [run EXCEPT ![c] = Idle]
    BY <1>7 DEF Record, WorkerEnds
  <2> QED BY <2>1, LeaveMoves DEF Alone
<1> QED BY <1>1, <1>2, <1>3, <1>4, <1>5, <1>6, <1>7

\* an outcome that is recorded is the last of its cell
LEMMA Recorded ==
  ASSUME Typed, PoolOk, NEW c \in Cells, Record(c)
  PROVE  /\ batch.at = "run" /\ run[c].at = "done" /\ Alone(c) /\ run'[c].at = "no"
            /\ run'[c].id = 0
         /\ journal' \in [Cells -> Row] /\ journal'[c] = run[c].row /\ journal'[c].id = run[c].id
         /\ \A d \in Cells \ {c} : journal'[d] = journal[d] /\ settled'[d] = settled[d]
         /\ batch'.at = "run" /\ batch'.inv = batch.inv /\ batch'.held = batch.held
            /\ batch'.todo = batch.todo
         /\ run[c].id = 0 => journal'[c] = Parked /\ settled'[c] = settled[c]
         /\ run[c].id # 0 =>
              /\ run[c].row.kind \in Kinds \ {"parked"}
              /\ Len(settled[c]) \in Nat /\ Len(settled'[c]) = Len(settled[c]) + 1
              /\ DOMAIN settled[c] = 1..Len(settled[c])
                 /\ DOMAIN settled'[c] = 1..(Len(settled[c]) + 1)
              /\ \A i \in DOMAIN settled[c] : settled'[c][i] = settled[c][i]
              /\ settled'[c][Len(settled[c]) + 1] = [id |-> run[c].id, kind |-> run[c].row.kind]
<1> USE DEF Typed
<1>1. run[c].at = "done"
         /\ (run[c].id # 0 => run[c].row.kind \in Kinds \ {"parked"} /\ run[c].row.id = run[c].id)
      /\ (run[c].id = 0 => run[c].row = Parked) /\ run[c].row.id = run[c].id
  BY DEF Record, PoolOk, JobOk
<1>2. /\ batch.at = "run" /\ Alone(c) /\ run'[c].at = "no" /\ run'[c].id = 0
      /\ journal' \in [Cells -> Row] /\ journal'[c] = run[c].row
      /\ \A d \in Cells \ {c} : journal'[d] = journal[d] /\ settled'[d] = settled[d]
      /\ batch'.at = "run" /\ batch'.inv = batch.inv /\ batch'.held = batch.held
         /\ batch'.todo = batch.todo
      /\ IF run[c].id = 0 THEN settled'[c] = settled[c]
         ELSE LET e == [id |-> run[c].id, kind |-> run[c].row.kind]
              IN  e \in SettledRec /\ settled'[c] = Append(settled[c], e)
  BY <1>1, RecordMoves
<1>3. ASSUME NEW e \in SettledRec, settled'[c] = Append(settled[c], e)
      PROVE  /\ Len(settled[c]) \in Nat /\ Len(settled'[c]) = Len(settled[c]) + 1
             /\ DOMAIN settled[c] = 1..Len(settled[c])
                /\ DOMAIN settled'[c] = 1..(Len(settled[c]) + 1)
             /\ \A i \in DOMAIN settled[c] : settled'[c][i] = settled[c][i]
             /\ settled'[c][Len(settled[c]) + 1] = e
  <2>1. settled[c] \in Seq(SettledRec)
    OBVIOUS
  <2> QED BY <1>3, <2>1
<1> QED BY <1>1, <1>2, <1>3

\* the starts, if there is no new one
LEMMA StartsSame ==
  ASSUME StartsOk, starts' = starts, summary'.inv = summary.inv,
         \A c \in Cells : run'[c].id \in {0, run[c].id},
         \A c \in Cells : dir'[c] \in {0, dir[c], run[c].id},
         \A n \in moved' \ moved : n # 0 /\ \E c \in Cells : n = dir[c],
         \A c \in Cells : \A i \in DOMAIN settled'[c] :
            \/ run[c].id # 0 /\ settled'[c][i].id = run[c].id
            \/ \E k \in DOMAIN settled[c] : settled'[c][i].id = settled[c][k].id
  PROVE  StartsOk'
<1> USE DEF StartsOk
<1>1. \A c \in Cells : run[c].id # 0 => \E s \in starts : s.id = run[c].id /\ s.cell = c
  <2> SUFFICES ASSUME NEW c \in Cells, run[c].id # 0
               PROVE  \E s \in starts : s.id = run[c].id /\ s.cell = c
    OBVIOUS
  <2> DEFINE s == [id |-> run[c].id, cell |-> c, inv |-> summary.inv]
  <2>1. s \in starts /\ s.id = run[c].id /\ s.cell = c
    OBVIOUS
  <2> QED BY <2>1
<1>2. \A c \in Cells : run'[c].id # 0
         => [id |-> run'[c].id, cell |-> c, inv |-> summary'.inv] \in starts'
  <2> SUFFICES ASSUME NEW c \in Cells, run'[c].id # 0
               PROVE  [id |-> run'[c].id, cell |-> c, inv |-> summary'.inv] \in starts'
    OBVIOUS
  <2>1. run'[c].id = run[c].id
    OBVIOUS
  <2> QED BY <2>1
<1>3. \A c \in Cells : dir'[c] # 0 => \E s \in starts : s.id = dir'[c] /\ s.cell = c
  BY <1>1
<1>4. \A n \in moved' : \E s \in starts : s.id = n
  OBVIOUS
<1>5. \A c \in Cells : \A i \in DOMAIN settled'[c] : \E s \in starts : s.id = settled'[c][i].id
         /\ s.cell = c
  <2> SUFFICES ASSUME NEW c \in Cells, NEW i \in DOMAIN settled'[c]
               PROVE  \E s \in starts : s.id = settled'[c][i].id /\ s.cell = c
    OBVIOUS
  <2>1. CASE run[c].id # 0 /\ settled'[c][i].id = run[c].id
    BY <1>1, <2>1
  <2>2. CASE \E k \in DOMAIN settled[c] : settled'[c][i].id = settled[c][k].id
    BY SMTT(30), <2>2
  <2> QED BY <2>1, <2>2
<1> QED BY <1>2, <1>3, <1>4, <1>5

\* the starts
LEMMA StartsKept ==
  ASSUME Typed, PoolOk, StartsOk, BatchOk, Placed, [Next]_vars
  PROVE  StartsOk'
<1> USE DEF Typed, disk, batchVars
<1>1. CASE Boot
  <2>1. summary'.inv = batch.inv /\ summary.inv < batch.inv /\ InPool = {}
    BY <1>1 DEF Boot, BatchOk, Dispatched
  <2>2. /\ UNCHANGED <<run, starts, dir, moved, settled>>
        /\ \A s \in starts : s.inv \in Nat /\ summary.inv \in Nat /\ batch.inv \in Nat
    BY <1>1 DEF Boot, StartRec, SummaryRec, BatchRec
  <2>3. \A c \in Cells : run[c].id = 0
    BY <2>1 DEF PoolOk, JobOk, InPool
  <2>4. \A s \in starts : s.inv <= summary'.inv
    BY <2>1, <2>2 DEF StartsOk
  <2> QED BY <2>2, <2>3, <2>4 DEF StartsOk
<1>2. CASE Complete
  <2>1. UNCHANGED <<run, starts, dir, moved, settled>> /\ summary'.inv = summary.inv
    BY <1>2 DEF Complete, SummaryRec
  <2> QED BY <2>1, StartsSame
<1>3. ASSUME NEW c \in Cells, Submit(c) PROVE StartsOk'
  <2>1. starts' = starts /\ summary' = summary /\ dir' = dir /\ moved' = moved /\ settled' = settled
    BY <1>3 DEF Submit
  <2>2. \A d \in Cells : run'[d].id \in {0, run[d].id}
    BY <1>3, IdsKept
  <2> QED BY <2>1, <2>2, StartsSame
<1>4. ASSUME NEW c \in Cells, Record(c) PROVE StartsOk'
  <2>1. starts' = starts /\ summary' = summary /\ dir' = dir /\ moved' = moved
    BY <1>4 DEF Record
  <2>2. \A d \in Cells : run'[d].id \in {0, run[d].id}
    BY <1>4, IdsKept
  <2>3. \A d \in Cells : \A i \in DOMAIN settled'[d] :
          \/ run[d].id # 0 /\ settled'[d][i].id = run[d].id
          \/ \E k \in DOMAIN settled[d] : settled'[d][i].id = settled[d][k].id
    <3> SUFFICES ASSUME NEW d \in Cells, NEW i \in DOMAIN settled'[d]
                 PROVE  \/ run[d].id # 0 /\ settled'[d][i].id = run[d].id
                        \/ \E k \in DOMAIN settled[d] : settled'[d][i].id = settled[d][k].id
      OBVIOUS
    <3>1. CASE d # c \/ run[c].id = 0
      <4>1. settled'[d] = settled[d]
        BY ZenonT(30), <1>4, <3>1, Recorded
      <4> QED BY <4>1
    <3>2. CASE d = c /\ run[c].id # 0
      <4>1. /\ Len(settled[c]) \in Nat
            /\ DOMAIN settled[c] = 1..Len(settled[c])
               /\ DOMAIN settled'[c] = 1..(Len(settled[c]) + 1)
            /\ \A k \in DOMAIN settled[c] : settled'[c][k] = settled[c][k]
            /\ settled'[c][Len(settled[c]) + 1] = [id |-> run[c].id, kind |-> run[c].row.kind]
        BY <1>4, <3>2, Recorded
      <4>2. i \in DOMAIN settled[c] \/ i = Len(settled[c]) + 1
        BY <3>2, <4>1
      <4> QED BY <3>2, <4>1, <4>2
    <3> QED BY <3>1, <3>2
  <2> QED BY <2>1, <2>2, <2>3, StartsSame
<1>5. ASSUME NEW c \in Cells, Start(c) PROVE StartsOk'
  <2>0. IsFiniteSet(starts) /\ Cardinality(starts) \in Nat
    BY FS_CardinalityType DEF StartsOk
  <2>1. /\ UNCHANGED <<summary, dir, moved, settled>> /\ run[c].at = "queued"
        /\ run[c].id = 0
    BY <1>5 DEF Start, PoolOk, JobOk
  <2>2. /\ Alone(c)
        /\ \/ run'[c].id = run[c].id /\ UNCHANGED starts
           \/ \E id \in Attempts :
                 /\ id = Cardinality(starts) + 1 /\ run'[c].id = id
                 /\ starts' = starts \cup {[id |-> id, cell |-> c, inv |-> summary.inv]}
    BY <1>5, <2>0, StartMoves
  <2>3. CASE run'[c].id = run[c].id /\ UNCHANGED starts
    BY <2>1, <2>2, <2>3, StartsSame DEF Alone
  <2>4. CASE \E id \in Attempts :
                 /\ id = Cardinality(starts) + 1 /\ run'[c].id = id
                 /\ starts' = starts \cup {[id |-> id, cell |-> c, inv |-> summary.inv]}
    <3>1. PICK id \in Attempts :
                 /\ id = Cardinality(starts) + 1 /\ run'[c].id = id
                 /\ starts' = starts \cup {[id |-> id, cell |-> c, inv |-> summary.inv]}
      BY <2>4
    <3> DEFINE t == [id |-> id, cell |-> c, inv |-> summary.inv]
    <3>2. t.id = id /\ t.cell = c /\ t.inv = summary.inv /\ starts' = starts \cup {t}
             /\ summary.inv \in Nat
      BY <3>1 DEF SummaryRec
    <3>3. \A s \in starts : s.id \in Nat /\ s.id <= Cardinality(starts) /\ s.inv <= summary.inv
      BY DEF StartsOk, StartRec, Attempts
    <3>4. \A s \in starts : s.inv = summary.inv => s.cell # c
      BY <2>1 DEF BatchOk, Dispatched, Invoked, InPool
    <3> HIDE DEF t
    <3>5. t \notin starts
      BY <2>0, <3>1, <3>2, <3>3
    <3>6. IsFiniteSet(starts') /\ Cardinality(starts') = Cardinality(starts) + 1
      BY <2>0, <3>2, <3>5, FS_AddElement
    <3>7. \A s \in starts' : s.id <= Cardinality(starts') /\ s.inv <= summary.inv
      BY <2>0, <3>1, <3>2, <3>3, <3>6
    <3>8. \A s \in starts : s.id # t.id /\ ~(s.cell = t.cell /\ s.inv = t.inv)
      BY <2>0, <3>1, <3>2, <3>3, <3>4
    <3>9. \A s, u \in starts' : s.id = u.id \/ (s.cell = u.cell /\ s.inv = u.inv) => s = u
      BY <3>2, <3>8 DEF StartsOk
    <3>10. \A d \in Cells : run'[d].id # 0
              => [id |-> run'[d].id, cell |-> d, inv |-> summary.inv] \in starts'
      <4>1. [id |-> run'[c].id, cell |-> c, inv |-> summary.inv] \in starts'
        BY <3>1
      <4>2. \A d \in Cells \ {c} : run'[d] = run[d]
        BY <2>2 DEF Alone
      <4> QED BY <4>1, <4>2, <3>1 DEF StartsOk
    <3>11. starts \subseteq starts'
      BY <3>1
    <3>12. /\ \A d \in Cells : dir[d] # 0 => \E s \in starts' : s.id = dir[d] /\ s.cell = d
           /\ \A n \in moved : \E s \in starts' : s.id = n
           /\ \A d \in Cells : \A i \in DOMAIN settled[d] :
                \E s \in starts' : s.id = settled[d][i].id /\ s.cell = d
      BY <3>11 DEF StartsOk
    <3> QED BY <2>1, <3>6, <3>7, <3>9, <3>10, <3>12 DEF StartsOk
  <2> QED BY <2>2, <2>3, <2>4
<1>6. ASSUME NEW c \in Cells, Bind(c) PROVE StartsOk'
  <2>1. starts' = starts /\ summary' = summary /\ dir' = dir /\ moved' = moved /\ settled' = settled
    BY <1>6 DEF Bind
  <2>2. \A d \in Cells : run'[d].id \in {0, run[d].id}
    BY <1>6, IdsKept
  <2> QED BY <2>1, <2>2, StartsSame
<1>7. ASSUME NEW c \in Cells, MoveAside(c) PROVE StartsOk'
  <2>1. /\ starts' = starts /\ summary' = summary /\ settled' = settled
        /\ moved' = moved \cup {dir[c]} /\ dir' = [dir EXCEPT ![c] = 0]
    BY <1>7 DEF MoveAside
  <2>2. \A d \in Cells : run'[d].id \in {0, run[d].id}
    BY <1>7, IdsKept
  <2>3. dir[c] # 0
    BY <1>7 DEF MoveAside, Placed, PlacedAt
  <2> QED BY <2>1, <2>2, <2>3, StartsSame
<1>8. ASSUME NEW c \in Cells, Replay(c) PROVE StartsOk'
  <2>1. /\ starts' = starts /\ summary' = summary /\ settled' = settled /\ moved' = moved
        /\ dir' = [dir EXCEPT ![c] = run[c].id]
    BY <1>8 DEF Replay
  <2>2. \A d \in Cells : run'[d].id \in {0, run[d].id}
    BY <1>8, IdsKept
  <2> QED BY <2>1, <2>2, StartsSame
<1>9. ASSUME NEW c \in Cells, Request(c) PROVE StartsOk'
  <2>1. starts' = starts /\ summary' = summary /\ dir' = dir /\ moved' = moved /\ settled' = settled
    BY <1>9 DEF Request
  <2>2. \A d \in Cells : run'[d].id \in {0, run[d].id}
    BY <1>9, IdsKept
  <2> QED BY <2>1, <2>2, StartsSame
<1>10. ASSUME NEW c \in Cells, Commit(c) PROVE StartsOk'
  <2>1. starts' = starts /\ summary' = summary /\ dir' = dir /\ moved' = moved /\ settled' = settled
    BY <1>10 DEF Commit
  <2>2. \A d \in Cells : run'[d].id \in {0, run[d].id}
    BY <1>10, IdsKept
  <2> QED BY <2>1, <2>2, StartsSame
<1>11. ASSUME NEW c \in Cells, Finish(c) PROVE StartsOk'
  <2>1. starts' = starts /\ summary' = summary /\ dir' = dir /\ moved' = moved /\ settled' = settled
    BY <1>11 DEF Finish
  <2>2. \A d \in Cells : run'[d].id \in {0, run[d].id}
    BY <1>11, IdsKept
  <2> QED BY <2>1, <2>2, StartsSame
<1>12. ASSUME NEW c \in Cells, Supervise(c) PROVE StartsOk'
  <2>1. starts' = starts /\ summary' = summary /\ dir' = dir /\ moved' = moved /\ settled' = settled
    BY <1>12 DEF Supervise
  <2>2. \A d \in Cells : run'[d].id \in {0, run[d].id}
    BY <1>12, IdsKept
  <2> QED BY <2>1, <2>2, StartsSame
<1>13. ASSUME NEW c \in Cells, WorkerEnds(c) PROVE StartsOk'
  <2>1. starts' = starts /\ summary' = summary /\ dir' = dir /\ moved' = moved /\ settled' = settled
    BY <1>13 DEF WorkerEnds
  <2>2. \A d \in Cells : run'[d].id \in {0, run[d].id}
    BY <1>13, IdsKept
  <2> QED BY <2>1, <2>2, StartsSame
<1>14. CASE UNCHANGED <<run, starts, summary, dir, moved, settled>>
  BY <1>14 DEF StartsOk
<1> QED
  BY ZenonT(30), <1>1, <1>2, <1>3, <1>4, <1>5, <1>6, <1>7, <1>8, <1>9, <1>10, <1>11, <1>12,
    <1>13, <1>14 DEF Next, BatchStep, Worker, vars, campaignVars, QuotaResets,
    RunnerDies, LaneStart, Choose, Launch, Return, Reconcile, ChargeAttempt, Close,
    PoolCools, LaneDies, LaneExits, CooldownEnds, ExtendAttempts

\* attempts have numbers
LEMMA NoZero ==
  ASSUME Typed, NEW c \in Cells
  PROVE  0 \notin Ids(c)
<1>1. settled[c] \in Seq(SettledRec)
  BY DEF Typed
<1>2. \A i \in DOMAIN settled[c] : settled[c][i] \in SettledRec
  BY <1>1
<1>3. \A e \in SettledRec : e.id # 0
  BY DEF SettledRec, Attempts
<1> QED BY <1>2, <1>3 DEF Ids

\* the outcomes of a cell that gets none
LEMMA OutcomesSame ==
  ASSUME NEW c \in Cells, OutcomesOk(c), settled'[c] = settled[c], journal'[c] = journal[c],
         run'[c].id \notin Ids(c),
         \A s \in starts' : s.cell = c /\ s.inv = summary'.inv /\ s.id \in Ids(c)
           => s \in starts /\ s.inv = summary.inv
  PROVE  OutcomesOk(c)'
BY SMTT(30) DEF OutcomesOk, Ids, Last

\* the outcomes
LEMMA SettledKept ==
  ASSUME Typed, PoolOk, StartsOk, SettledOk, BatchOk, [Next]_vars
  PROVE  SettledOk'
<1> USE DEF Typed, disk, batchVars
<1>1. CASE Boot
  <2>1. summary'.inv = batch.inv /\ summary.inv < batch.inv
           /\ UNCHANGED <<run, starts, journal, settled>>
    BY <1>1 DEF Boot, BatchOk, Dispatched
  <2>2. \A s \in starts : s.inv # summary'.inv
    BY <2>1 DEF StartsOk, StartRec, SummaryRec, BatchRec
  <2>3. \A d \in Cells : run'[d].id \notin Ids(d)
    BY <2>1 DEF SettledOk, OutcomesOk
  <2> QED BY <2>1, <2>2, <2>3, OutcomesSame DEF SettledOk
<1>2. CASE Complete
  <2>1. UNCHANGED <<run, starts, journal, settled>> /\ summary'.inv = summary.inv
    BY <1>2 DEF Complete, SummaryRec
  <2>3. \A d \in Cells : run'[d].id \notin Ids(d)
    BY <2>1 DEF SettledOk, OutcomesOk
  <2> QED BY <2>1, <2>3, OutcomesSame DEF SettledOk
<1>3. ASSUME NEW c \in Cells, Submit(c) PROVE SettledOk'
  <2>1. starts' = starts /\ summary' = summary /\ settled' = settled /\ batch.at = "run"
           /\ c \in batch.todo
    BY <1>3 DEF Submit
  <2>2. \A d \in Cells : run'[d].id \in {0, run[d].id}
    BY <1>3, IdsKept
  <2>3. \A d \in Cells : run'[d].id \notin Ids(d)
    BY ZenonT(30), <2>2, NoZero DEF SettledOk, OutcomesOk
  <2>4. journal' = journal \/ journal' = [journal EXCEPT ![c] = Parked]
    BY <1>3, SubmitMoves
  <2>5. CASE journal' = journal
    BY <2>1, <2>3, <2>5, OutcomesSame DEF SettledOk
  <2>6. CASE journal' = [journal EXCEPT ![c] = Parked]
    <3>1. \A d \in Cells \ {c} : OutcomesOk(d)'
      BY <2>1, <2>3, <2>6, OutcomesSame DEF SettledOk
    <3>2. \A s \in starts : s.inv = summary.inv => s.cell # c
      BY <2>1 DEF BatchOk, Dispatched, Invoked, InPool
    <3>3. journal'[c] = Parked
      BY <2>6
    <3>4. OutcomesOk(c)'
      BY <2>1, <2>3, <3>2, <3>3, GivenRows DEF SettledOk, OutcomesOk, Ids
    <3> QED BY <3>1, <3>4 DEF SettledOk
  <2> QED BY <2>4, <2>5, <2>6
<1>4. ASSUME NEW c \in Cells, Record(c) PROVE SettledOk'
  <2>1. starts' = starts /\ summary' = summary
    BY <1>4 DEF Record
  <2>2. /\ run[c].at = "done" /\ run'[c].id = 0 /\ Alone(c) /\ journal'[c].id = run[c].id
        /\ \A d \in Cells \ {c} : journal'[d] = journal[d] /\ settled'[d] = settled[d]
    BY <1>4, Recorded
  <2>3. \A d \in Cells : run'[d].id \notin Ids(d)
    BY <2>2, NoZero DEF SettledOk, OutcomesOk, Alone
  <2>4. \A d \in Cells \ {c} : OutcomesOk(d)'
    BY <2>1, <2>2, <2>3, OutcomesSame DEF SettledOk
  <2>5. CASE run[c].id = 0
    <3>1. journal'[c] = Parked /\ settled'[c] = settled[c]
      BY <1>4, <2>5, Recorded
    <3>2. \A s \in starts : s.inv = summary.inv => s.cell # c
      BY <2>2, <2>5 DEF BatchOk, Invoked
    <3>3. OutcomesOk(c)'
      BY <2>1, <2>3, <3>1, <3>2, GivenRows DEF SettledOk, OutcomesOk, Ids
    <3> QED BY <2>4, <3>3 DEF SettledOk
  <2>6. CASE run[c].id # 0
    <3> DEFINE n == Len(settled[c])
    <3>1. /\ run[c].row.kind \in Kinds \ {"parked"} /\ journal'[c] = run[c].row
          /\ n \in Nat /\ Len(settled'[c]) = n + 1
          /\ DOMAIN settled[c] = 1..n /\ DOMAIN settled'[c] = 1..(n + 1)
          /\ \A i \in DOMAIN settled[c] : settled'[c][i] = settled[c][i]
          /\ settled'[c][n + 1] = [id |-> run[c].id, kind |-> run[c].row.kind]
      BY <1>4, <2>6, Recorded
    <3> HIDE DEF n
    <3>2. OutcomesOk(c) /\ \A i \in DOMAIN settled[c] : settled[c][i].id # run[c].id
      BY DEF SettledOk, OutcomesOk, Ids
    <3>3. ASSUME NEW i \in DOMAIN settled'[c], NEW j \in DOMAIN settled'[c],
                 settled'[c][i].id = settled'[c][j].id
          PROVE  i = j
      <4>1. (i \in DOMAIN settled[c] \/ i = n + 1) /\ (j \in DOMAIN settled[c] \/ j = n + 1)
        BY <3>1
      <4>2. settled'[c][n + 1].id = run[c].id
        BY <3>1
      <4> QED BY <3>1, <3>2, <3>3, <4>1, <4>2 DEF OutcomesOk
    <3>4. journal'[c].kind # "none" /\ settled'[c] # <<>>
      BY <3>1 DEF Kinds
    <3>5. Last(c)' = [id |-> journal'[c].id, kind |-> journal'[c].kind]
      BY <2>2, <3>1 DEF Last
    <3>6. [id |-> run[c].id, cell |-> c, inv |-> summary.inv] \in starts
      BY <2>6 DEF StartsOk
    <3>7. ASSUME NEW s \in starts, s.cell = c, s.inv = summary.inv PROVE s.id = run[c].id
      <4> DEFINE t == [id |-> run[c].id, cell |-> c, inv |-> summary.inv]
      <4>1. t.cell = c /\ t.inv = summary.inv /\ t.id = run[c].id /\ t \in starts
        BY <3>6
      <4> HIDE DEF t
      <4>2. s = t
        BY <3>7, <4>1 DEF StartsOk
      <4> QED BY <4>1, <4>2
    <3>8. \A i \in DOMAIN settled'[c] : settled'[c][i].id # 0
      <4> SUFFICES ASSUME NEW i \in DOMAIN settled'[c] PROVE settled'[c][i].id # 0
        OBVIOUS
      <4>1. \A h \in DOMAIN settled[c] : settled[c][h].id # 0
        BY NoZero DEF Ids
      <4>2. CASE i \in DOMAIN settled[c]
        <5>1. settled'[c][i] = settled[c][i]
          BY <3>1, <4>2
        <5> QED BY <4>1, <4>2, <5>1
      <4>3. CASE i = n + 1
        <5>1. settled'[c][i].id = run[c].id
          BY <3>1, <4>3
        <5> QED BY <2>6, <5>1
      <4>4. i \in DOMAIN settled[c] \/ i = n + 1
        BY <3>1
      <4> QED BY <4>2, <4>3, <4>4
    <3>9. OutcomesOk(c)'
      <4>1. run'[c].id \notin Ids(c)'
        BY <2>2, <3>8 DEF Ids
      <4>2. \A s \in starts' : s.cell = c /\ s.inv = summary'.inv => s.id = journal'[c].id
        BY <2>1, <2>2, <3>7
      <4> QED BY <2>2, <2>6, <3>3, <3>4, <3>5, <4>1, <4>2 DEF OutcomesOk
    <3> QED BY <2>4, <3>9 DEF SettledOk
  <2> QED BY <2>5, <2>6
<1>5. ASSUME NEW c \in Cells, Start(c) PROVE SettledOk'
  <2>0. IsFiniteSet(starts) /\ Cardinality(starts) \in Nat
    BY FS_CardinalityType DEF StartsOk
  <2>1. UNCHANGED <<summary, journal, settled>>
    BY <1>5 DEF Start
  <2>2. /\ Alone(c)
        /\ \/ run'[c].id = run[c].id /\ UNCHANGED starts
           \/ \E id \in Attempts :
                 /\ id = Cardinality(starts) + 1 /\ run'[c].id = id
                 /\ starts' = starts \cup {[id |-> id, cell |-> c, inv |-> summary.inv]}
    BY <1>5, <2>0, StartMoves
  <2>3. CASE run'[c].id = run[c].id /\ UNCHANGED starts
    <3>1. \A d \in Cells : run'[d].id \notin Ids(d)
      BY <2>2, <2>3 DEF SettledOk, OutcomesOk, Alone
    <3> QED BY <2>1, <2>3, <3>1, OutcomesSame DEF SettledOk
  <2>4. ASSUME NEW id \in Attempts, id = Cardinality(starts) + 1, run'[c].id = id,
               starts' = starts \cup {[id |-> id, cell |-> c, inv |-> summary.inv]}
        PROVE  SettledOk'
    <3> DEFINE t == [id |-> id, cell |-> c, inv |-> summary.inv]
    <3>1. t.id = id /\ starts' = starts \cup {t}
      BY <2>4
    <3> HIDE DEF t
    <3>2. \A s \in starts : s.id \in Nat /\ s.id <= Cardinality(starts)
      BY DEF StartsOk, StartRec, Attempts
    <3>3. \A d \in Cells : id \notin Ids(d)
      <4>1. \A s \in starts : s.id # id
        BY <2>0, <2>4, <3>2
      <4> QED BY <4>1 DEF StartsOk, Ids
    <3>4. \A d \in Cells : run'[d].id \notin Ids(d)
      <4> SUFFICES ASSUME NEW d \in Cells PROVE run'[d].id \notin Ids(d)
        OBVIOUS
      <4>1. CASE d = c
        BY <2>4, <3>3, <4>1
      <4>2. CASE d # c
        BY <2>2, <4>2 DEF SettledOk, OutcomesOk, Alone
      <4> QED BY <4>1, <4>2
    <3> QED BY <2>1, <3>1, <3>3, <3>4, OutcomesSame DEF SettledOk
  <2> QED BY <2>2, <2>3, <2>4
<1>6. ASSUME NEW c \in Cells, Bind(c) PROVE SettledOk'
  <2>1. starts' = starts /\ summary' = summary /\ journal' = journal /\ settled' = settled
    BY <1>6 DEF Bind
  <2>2. \A d \in Cells : run'[d].id \in {0, run[d].id}
    BY <1>6, IdsKept
  <2>3. \A d \in Cells : run'[d].id \notin Ids(d)
    BY <2>2, NoZero DEF SettledOk, OutcomesOk
  <2> QED BY <2>1, <2>3, OutcomesSame DEF SettledOk
<1>7. ASSUME NEW c \in Cells, MoveAside(c) PROVE SettledOk'
  <2>1. starts' = starts /\ summary' = summary /\ journal' = journal /\ settled' = settled
    BY <1>7 DEF MoveAside
  <2>2. \A d \in Cells : run'[d].id \in {0, run[d].id}
    BY <1>7, IdsKept
  <2>3. \A d \in Cells : run'[d].id \notin Ids(d)
    BY <2>2, NoZero DEF SettledOk, OutcomesOk
  <2> QED BY <2>1, <2>3, OutcomesSame DEF SettledOk
<1>8. ASSUME NEW c \in Cells, Replay(c) PROVE SettledOk'
  <2>1. starts' = starts /\ summary' = summary /\ journal' = journal /\ settled' = settled
    BY <1>8 DEF Replay
  <2>2. \A d \in Cells : run'[d].id \in {0, run[d].id}
    BY <1>8, IdsKept
  <2>3. \A d \in Cells : run'[d].id \notin Ids(d)
    BY <2>2, NoZero DEF SettledOk, OutcomesOk
  <2> QED BY <2>1, <2>3, OutcomesSame DEF SettledOk
<1>9. ASSUME NEW c \in Cells, Request(c) PROVE SettledOk'
  <2>1. starts' = starts /\ summary' = summary /\ journal' = journal /\ settled' = settled
    BY <1>9 DEF Request
  <2>2. \A d \in Cells : run'[d].id \in {0, run[d].id}
    BY <1>9, IdsKept
  <2>3. \A d \in Cells : run'[d].id \notin Ids(d)
    BY <2>2, NoZero DEF SettledOk, OutcomesOk
  <2> QED BY <2>1, <2>3, OutcomesSame DEF SettledOk
<1>10. ASSUME NEW c \in Cells, Commit(c) PROVE SettledOk'
  <2>1. starts' = starts /\ summary' = summary /\ journal' = journal /\ settled' = settled
    BY <1>10 DEF Commit
  <2>2. \A d \in Cells : run'[d].id \in {0, run[d].id}
    BY <1>10, IdsKept
  <2>3. \A d \in Cells : run'[d].id \notin Ids(d)
    BY <2>2, NoZero DEF SettledOk, OutcomesOk
  <2> QED BY <2>1, <2>3, OutcomesSame DEF SettledOk
<1>11. ASSUME NEW c \in Cells, Finish(c) PROVE SettledOk'
  <2>1. starts' = starts /\ summary' = summary /\ journal' = journal /\ settled' = settled
    BY <1>11 DEF Finish
  <2>2. \A d \in Cells : run'[d].id \in {0, run[d].id}
    BY <1>11, IdsKept
  <2>3. \A d \in Cells : run'[d].id \notin Ids(d)
    BY <2>2, NoZero DEF SettledOk, OutcomesOk
  <2> QED BY <2>1, <2>3, OutcomesSame DEF SettledOk
<1>12. ASSUME NEW c \in Cells, Supervise(c) PROVE SettledOk'
  <2>1. starts' = starts /\ summary' = summary /\ journal' = journal /\ settled' = settled
    BY <1>12 DEF Supervise
  <2>2. \A d \in Cells : run'[d].id \in {0, run[d].id}
    BY <1>12, IdsKept
  <2>3. \A d \in Cells : run'[d].id \notin Ids(d)
    BY <2>2, NoZero DEF SettledOk, OutcomesOk
  <2> QED BY <2>1, <2>3, OutcomesSame DEF SettledOk
<1>13. ASSUME NEW c \in Cells, WorkerEnds(c) PROVE SettledOk'
  <2>1. starts' = starts /\ summary' = summary /\ journal' = journal /\ settled' = settled
    BY <1>13 DEF WorkerEnds
  <2>2. \A d \in Cells : run'[d].id \in {0, run[d].id}
    BY <1>13, IdsKept
  <2>3. \A d \in Cells : run'[d].id \notin Ids(d)
    BY <2>2, NoZero DEF SettledOk, OutcomesOk
  <2> QED BY <2>1, <2>3, OutcomesSame DEF SettledOk
<1>14. CASE UNCHANGED <<run, starts, summary, journal, settled>>
  BY <1>14 DEF SettledOk, OutcomesOk, Ids, Last
<1> QED
  BY ZenonT(30), <1>1, <1>2, <1>3, <1>4, <1>5, <1>6, <1>7, <1>8, <1>9, <1>10, <1>11, <1>12,
    <1>13, <1>14 DEF Next, BatchStep, Worker, vars, campaignVars, QuotaResets,
    RunnerDies, LaneStart, Choose, Launch, Return, Reconcile, ChargeAttempt, Close,
    PoolCools, LaneDies, LaneExits, CooldownEnds, ExtendAttempts

\* the place of the artifacts of a cell that does not move
LEMMA PlacedSame ==
  ASSUME NEW d \in Cells, PlacedAt(d), run'[d] = run[d], dir'[d] = dir[d], journal'[d] = journal[d],
         bound \subseteq bound', \A n \in moved' \ moved : n # dir[d] /\ n # run[d].id
  PROVE  PlacedAt(d)'
BY DEF PlacedAt

\* an attempt is of one cell
LEMMA OwnNumber ==
  ASSUME Typed, StartsOk, SettledOk, NEW c \in Cells, NEW d \in Cells, c # d, dir[c] # 0
  PROVE  dir[c] # dir[d] /\ dir[c] # run[d].id /\ dir[c] # journal[d].id
<1>1. PICK s \in starts : s.id = dir[c] /\ s.cell = c
  BY DEF StartsOk
<1>2. ASSUME NEW t \in starts, t.cell = d PROVE t.id # dir[c]
  BY <1>1, <1>2 DEF StartsOk
<1>3. dir[d] # dir[c]
  BY <1>2 DEF StartsOk
<1>4. run[d].id # dir[c]
  <2> SUFFICES ASSUME run[d].id # 0 PROVE run[d].id # dir[c]
    OBVIOUS
  <2> DEFINE t == [id |-> run[d].id, cell |-> d, inv |-> summary.inv]
  <2>1. t \in starts /\ t.id = run[d].id /\ t.cell = d
    BY DEF StartsOk
  <2> QED BY <1>2, <2>1
<1>5. journal[d].id # dir[c]
  <2> SUFFICES ASSUME journal[d].id # 0 PROVE journal[d].id # dir[c]
    OBVIOUS
  <2>1. settled[d] # <<>> /\ Last(d).id = journal[d].id /\ settled[d] \in Seq(SettledRec)
    BY DEF SettledOk, OutcomesOk, Typed
  <2>2. Len(settled[d]) \in DOMAIN settled[d]
    BY <2>1
  <2> QED BY <1>2, <2>1, <2>2 DEF StartsOk, Last
<1> QED BY <1>3, <1>4, <1>5

\* the artifacts
LEMMA PlacedKept ==
  ASSUME Typed, PoolOk, StartsOk, SettledOk, BatchOk, Placed, [Next]_vars
  PROVE  Placed'
<1> USE DEF Typed, disk, batchVars
<1>1. ASSUME NEW c \in Cells, Submit(c) PROVE Placed'
  <2>1. dir' = dir /\ moved' = moved /\ bound' = bound /\ run[c].at = "no"
    BY <1>1 DEF Submit, BatchOk, Dispatched, InPool
  <2>2. \/ journal' = [journal EXCEPT ![c] = Parked] /\ UNCHANGED run
        \/ Alone(c) /\ run'[c].at = "queued" /\ UNCHANGED journal
    BY <1>1, SubmitMoves
  <2>7. PlacedAt(c)'
    BY <2>1, <2>2 DEF PlacedAt, Placed
  <2>8. \A d \in Cells \ {c} : run'[d] = run[d] /\ dir'[d] = dir[d] /\ journal'[d] = journal[d]
    BY <2>1, <2>2 DEF Alone
  <2>9. bound \subseteq bound' /\ moved' = moved
    BY <2>1
  <2> QED BY <2>7, <2>8, <2>9, PlacedSame DEF Placed
<1>2. ASSUME NEW c \in Cells, Record(c) PROVE Placed'
  <2>1. dir' = dir /\ moved' = moved /\ bound' = bound
    BY <1>2 DEF Record
  <2>2. run'[c].at = "no" /\ Alone(c) /\ \A d \in Cells \ {c} : journal'[d] = journal[d]
    BY <1>2, Recorded
  <2>7. PlacedAt(c)'
    BY <2>1, <2>2 DEF PlacedAt, Placed
  <2>8. \A d \in Cells \ {c} : run'[d] = run[d] /\ dir'[d] = dir[d] /\ journal'[d] = journal[d]
    BY <2>1, <2>2 DEF Alone
  <2>9. bound \subseteq bound' /\ moved' = moved
    BY <2>1
  <2> QED BY <2>7, <2>8, <2>9, PlacedSame DEF Placed
<1>3. ASSUME NEW c \in Cells, Start(c) PROVE Placed'
  <2>0. IsFiniteSet(starts) /\ Cardinality(starts) \in Nat
    BY FS_CardinalityType DEF StartsOk
  <2>1. dir' = dir /\ moved' = moved /\ bound' = bound /\ journal' = journal
    BY <1>3 DEF Start
  <2>2. /\ Alone(c)
        /\ \/ run'[c].at = "done" /\ run'[c].row = Parked
           \/ /\ run'[c].id = Cardinality(starts) + 1
              /\ run'[c].at = IF dir[c] = 0 THEN "play" ELSE "bind"
    BY <1>3, <2>0, StartMoves
  <2>3. CASE run'[c].at = "done" /\ run'[c].row = Parked
    <3>1. ~Audited("parked")
      BY DEF Audited
    <3>7. PlacedAt(c)'
      BY <2>1, <2>3, <3>1, GivenRows DEF PlacedAt, Placed
    <3> QED BY <2>1, <2>2, <3>7, PlacedSame DEF Placed, Alone
  <2>4. CASE run'[c].id = Cardinality(starts) + 1
                /\ run'[c].at = IF dir[c] = 0 THEN "play" ELSE "bind"
    <3>1. \A s \in starts : s.id # Cardinality(starts) + 1
      BY <2>0 DEF StartsOk, StartRec, Attempts
    <3>2. run'[c].id \notin moved /\ dir[c] # run'[c].id
      <4> DEFINE n == Cardinality(starts) + 1
      <4>1. n # 0 /\ \A s \in starts : s.id # n
        BY <2>0, <3>1
      <4> HIDE DEF n
      <4>2. n \notin moved
        BY <4>1 DEF StartsOk
      <4>3. dir[c] # n
        <5>1. dir[c] # 0 => \E s \in starts : s.id = dir[c]
          BY DEF StartsOk
        <5> QED BY <4>1, <5>1
      <4> QED BY <2>4, <4>2, <4>3 DEF n
    <3>7. PlacedAt(c)'
      BY <2>1, <2>4, <3>2 DEF PlacedAt, Placed
    <3> QED BY <2>1, <2>2, <3>7, PlacedSame DEF Placed, Alone
  <2> QED BY <2>2, <2>3, <2>4
<1>4. ASSUME NEW c \in Cells, Bind(c) PROVE Placed'
  <2>1. dir' = dir /\ moved' = moved /\ journal' = journal
        /\ bound' = bound \cup ({run[c].prior.id} \ ({0} \cup moved))
    BY <1>4 DEF Bind
  <2>2. run[c].at = "bind" /\ Alone(c) /\ Keeps(c) /\ run'[c].at = "move"
    BY <1>4, PrepareMoves
  <2>3. run[c].prior = journal[c]
    BY <2>2 DEF PoolOk, JobOk
  <2>7. PlacedAt(c)'
    BY <2>1, <2>2, <2>3 DEF PlacedAt, Placed, Keeps
  <2>8. \A d \in Cells \ {c} : run'[d] = run[d] /\ dir'[d] = dir[d] /\ journal'[d] = journal[d]
    BY <2>1, <2>2 DEF Alone
  <2>9. bound \subseteq bound' /\ moved' = moved
    BY <2>1
  <2> QED BY <2>7, <2>8, <2>9, PlacedSame DEF Placed
<1>5. ASSUME NEW c \in Cells, MoveAside(c) PROVE Placed'
  <2>1. moved' = moved \cup {dir[c]} /\ dir' = [dir EXCEPT ![c] = 0] /\ journal' = journal
           /\ bound' = bound
    BY <1>5 DEF MoveAside
  <2>2. run[c].at = "move" /\ Alone(c) /\ Keeps(c) /\ run'[c].at = "play"
    BY <1>5, PrepareMoves
  <2>3. dir[c] # 0 /\ dir[c] # run[c].id /\ run[c].id \notin moved /\ run[c].id # 0
    BY <2>2 DEF PlacedAt, Placed, PoolOk, JobOk, Playing
  <2>4. 0 \notin moved
    BY DEF Attempts
  <2>7. PlacedAt(c)'
    BY <2>1, <2>2, <2>3, <2>4 DEF PlacedAt, Keeps
  <2>8. \A d \in Cells \ {c} : dir[c] # dir[d] /\ dir[c] # run[d].id
    BY <2>3, OwnNumber
  <2>9. \A d \in Cells \ {c} : run'[d] = run[d] /\ dir'[d] = dir[d] /\ journal'[d] = journal[d]
    BY <2>1, <2>2 DEF Alone
  <2>10. \A n \in moved' \ moved : n = dir[c]
    BY <2>1
  <2> QED BY <2>1, <2>7, <2>8, <2>9, <2>10, PlacedSame DEF Placed
<1>6. ASSUME NEW c \in Cells, Replay(c) PROVE Placed'
  <2>1. dir' = [dir EXCEPT ![c] = run[c].id] /\ moved' = moved /\ journal' = journal
           /\ bound' = bound
    BY <1>6 DEF Replay
  <2>2. run[c].at = "play" /\ Alone(c) /\ Keeps(c) /\ run'[c].at = "call"
    BY <1>6, PrepareMoves
  <2>7. PlacedAt(c)'
    BY <2>1, <2>2 DEF PlacedAt, Placed, Keeps
  <2>8. \A d \in Cells \ {c} : run'[d] = run[d] /\ dir'[d] = dir[d] /\ journal'[d] = journal[d]
    BY <2>1, <2>2 DEF Alone
  <2>9. bound \subseteq bound' /\ moved' = moved
    BY <2>1
  <2> QED BY <2>7, <2>8, <2>9, PlacedSame DEF Placed
<1>7. ASSUME NEW c \in Cells, Request(c) PROVE Placed'
  <2>1. dir' = dir /\ moved' = moved /\ bound' = bound /\ journal' = journal
    BY <1>7 DEF Request
  <2>2. run[c].total = run[c].ok /\ run[c].at = "call"
    BY <1>7 DEF Request, PoolOk, JobOk
  <2>3. /\ \A d \in Cells \ {c} : run'[d] = run[d]
        /\ run'[c].id = run[c].id /\ run'[c].at \in {"commit", "done"}
    BY <1>7, <2>2, RequestMoves DEF Ends
  <2>7. PlacedAt(c)'
    BY <2>1, <2>2, <2>3 DEF PlacedAt, Placed
  <2>8. \A d \in Cells \ {c} : run'[d] = run[d] /\ dir'[d] = dir[d] /\ journal'[d] = journal[d]
    BY <2>1, <2>3
  <2>9. bound \subseteq bound' /\ moved' = moved
    BY <2>1
  <2> QED BY <2>7, <2>8, <2>9, PlacedSame DEF Placed
<1>8. ASSUME NEW c \in Cells, Commit(c) PROVE Placed'
  <2>1. dir' = dir /\ moved' = moved /\ bound' = bound /\ journal' = journal
    BY <1>8 DEF Commit
  <2>2. run[c].ok < Boundaries /\ run[c].at = "commit"
    BY <1>8 DEF Commit, PoolOk, JobOk
  <2>3. Alone(c) /\ Keeps(c) /\ run'[c].at = "call"
    BY <1>8, <2>2, CommitMoves
  <2>7. PlacedAt(c)'
    BY <2>1, <2>2, <2>3 DEF PlacedAt, Placed, Keeps
  <2>8. \A d \in Cells \ {c} : run'[d] = run[d] /\ dir'[d] = dir[d] /\ journal'[d] = journal[d]
    BY <2>1, <2>3 DEF Alone
  <2>9. bound \subseteq bound' /\ moved' = moved
    BY <2>1
  <2> QED BY <2>7, <2>8, <2>9, PlacedSame DEF Placed
<1>9. ASSUME NEW c \in Cells, Finish(c) PROVE Placed'
  <2>1. dir' = dir /\ moved' = moved /\ bound' = bound /\ journal' = journal
    BY <1>9 DEF Finish
  <2>2. PICK kind \in Kinds \ {"parked"} : Ends(c, kind)
    BY <1>9, FinishEnds
  <2>7. PlacedAt(c)'
    BY <2>1, <2>2 DEF PlacedAt, Placed, Ends
  <2>8. \A d \in Cells \ {c} : run'[d] = run[d] /\ dir'[d] = dir[d] /\ journal'[d] = journal[d]
    BY <2>1, <2>2 DEF Ends
  <2>9. bound \subseteq bound' /\ moved' = moved
    BY <2>1
  <2> QED BY <2>7, <2>8, <2>9, PlacedSame DEF Placed
<1>10. ASSUME NEW c \in Cells, Supervise(c) PROVE Placed'
  <2>1. dir' = dir /\ moved' = moved /\ bound' = bound /\ journal' = journal
    BY <1>10 DEF Supervise
  <2>2. PICK kind \in Kinds \ {"parked"} : Ends(c, kind)
    BY <1>10, SuperviseEnds
  <2>7. PlacedAt(c)'
    BY <2>1, <2>2 DEF PlacedAt, Placed, Ends
  <2>8. \A d \in Cells \ {c} : run'[d] = run[d] /\ dir'[d] = dir[d] /\ journal'[d] = journal[d]
    BY <2>1, <2>2 DEF Ends
  <2>9. bound \subseteq bound' /\ moved' = moved
    BY <2>1
  <2> QED BY <2>7, <2>8, <2>9, PlacedSame DEF Placed
<1>11. ASSUME NEW c \in Cells, WorkerEnds(c) PROVE Placed'
  <2>1. dir' = dir /\ moved' = moved /\ bound' = bound /\ journal' = journal
        /\ run' = [run EXCEPT ![c] = Idle]
    BY <1>11 DEF WorkerEnds
  <2>2. run'[c].at = "no" /\ Alone(c)
    BY <2>1, LeaveMoves
  <2>7. PlacedAt(c)'
    BY <2>1, <2>2 DEF PlacedAt, Placed
  <2>8. \A d \in Cells \ {c} : run'[d] = run[d] /\ dir'[d] = dir[d] /\ journal'[d] = journal[d]
    BY <2>1, <2>2 DEF Alone
  <2>9. bound \subseteq bound' /\ moved' = moved
    BY <2>1
  <2> QED BY <2>7, <2>8, <2>9, PlacedSame DEF Placed
<1>12. CASE UNCHANGED <<run, dir, moved, bound, journal>>
  BY <1>12 DEF Placed, PlacedAt
<1> QED
  BY ZenonT(30), <1>1, <1>2, <1>3, <1>4, <1>5, <1>6, <1>7, <1>8, <1>9, <1>10, <1>11, <1>12 DEF
    Next, BatchStep, Worker, vars, campaignVars, Boot, Complete, QuotaResets,
    RunnerDies, LaneStart, Choose, Launch, Return, Reconcile, ChargeAttempt, Close,
    PoolCools, LaneDies, LaneExits, CooldownEnds, ExtendAttempts

\* the evidence
LEMMA EvidenceKept ==
  ASSUME Typed, PoolOk, StartsOk, SettledOk, Placed, EvidenceFound, [Next]_vars
  PROVE  EvidenceFound'
<1> USE DEF Typed, disk, batchVars
<1>1. ASSUME NEW c \in Cells, Submit(c) PROVE EvidenceFound'
  <2>1. dir' = dir /\ moved' = moved /\ bound' = bound
    BY <1>1 DEF Submit
  <2>2. journal' = journal \/ journal' = [journal EXCEPT ![c] = Parked]
    BY <1>1, SubmitMoves
  <2>3. ~Audited(Parked.kind)
    BY GivenRows DEF Audited
  <2> QED BY <2>1, <2>2, <2>3 DEF EvidenceFound, Evident, Found
<1>2. ASSUME NEW c \in Cells, Record(c) PROVE EvidenceFound'
  <2>1. dir' = dir /\ moved' = moved /\ bound' = bound
    BY <1>2 DEF Record
  <2>2. /\ run[c].at = "done" /\ journal'[c] = run[c].row /\ journal'[c].id = run[c].id
        /\ \A d \in Cells \ {c} : journal'[d] = journal[d]
    BY <1>2, Recorded
  <2>3. Evident(c)'
    BY <2>1, <2>2 DEF Evident, Found, Placed, PlacedAt
  <2>4. \A d \in Cells \ {c} : Evident(d)'
    BY <2>1, <2>2 DEF EvidenceFound, Evident, Found
  <2> QED BY <2>3, <2>4 DEF EvidenceFound
<1>3. ASSUME NEW c \in Cells, Bind(c) PROVE EvidenceFound'
  <2>1. dir' = dir /\ moved' = moved /\ journal' = journal /\ bound \subseteq bound'
    BY <1>3 DEF Bind
  <2> QED BY <2>1 DEF EvidenceFound, Evident, Found
<1>4. ASSUME NEW c \in Cells, MoveAside(c) PROVE EvidenceFound'
  <2>1. moved' = moved \cup {dir[c]} /\ dir' = [dir EXCEPT ![c] = 0] /\ journal' = journal
           /\ bound' = bound
    BY <1>4 DEF MoveAside
  <2>2. run[c].at = "move" /\ dir[c] # 0
    BY <1>4 DEF MoveAside, Placed, PlacedAt
  <2>3. ASSUME NEW d \in Cells, Audited(journal[d].kind) PROVE Found(d, journal[d])'
    <3>1. Found(d, journal[d])
      BY <2>3 DEF EvidenceFound, Evident
    <3>2. CASE journal[d].id \in bound \cap moved
      BY <2>1, <3>2 DEF Found
    <3>3. CASE journal[d].id \notin moved /\ dir[d] = journal[d].id /\ d = c
      <4>1. journal[c].id \in bound
        BY <2>2, <2>3, <3>3 DEF Placed, PlacedAt
      <4> QED BY <2>1, <3>3, <4>1 DEF Found
    <3>4. CASE journal[d].id \notin moved /\ dir[d] = journal[d].id /\ d # c
      <4>1. dir[c] # journal[d].id
        BY <2>2, <3>4, OwnNumber
      <4> QED BY <2>1, <3>4, <4>1 DEF Found
    <3> QED BY <3>1, <3>2, <3>3, <3>4 DEF Found
  <2> QED BY <2>1, <2>3 DEF EvidenceFound, Evident
<1>5. ASSUME NEW c \in Cells, Replay(c) PROVE EvidenceFound'
  <2>1. dir' = [dir EXCEPT ![c] = run[c].id] /\ moved' = moved /\ journal' = journal
           /\ bound' = bound
    BY <1>5 DEF Replay
  <2>2. run[c].at = "play" /\ dir[c] = 0
    BY <1>5 DEF Replay, Placed, PlacedAt
  <2>3. ASSUME Audited(journal[c].kind) PROVE journal[c].id \in bound \cap moved
    <3>1. journal[c].id # 0
      BY <2>3, GivenRows DEF SettledOk, OutcomesOk, Audited
    <3> QED BY <2>2, <2>3, <3>1 DEF EvidenceFound, Evident, Found
  <2> QED BY <2>1, <2>3 DEF EvidenceFound, Evident, Found
<1>6. CASE UNCHANGED <<journal, dir, moved, bound>>
  BY <1>6 DEF EvidenceFound, Evident, Found
<1> QED
  BY ZenonT(30), <1>1, <1>2, <1>3, <1>4, <1>5, <1>6 DEF Next, BatchStep, Worker, vars,
    campaignVars, Boot, Complete, QuotaResets, Start, Request, Settle, Commit,
    Finish, Supervise, WorkerEnds, RunnerDies, LaneStart, Choose, Launch, Return,
    Reconcile, ChargeAttempt, Close, PoolCools, LaneDies, LaneExits, CooldownEnds,
    ExtendAttempts

\* the audit of a job that does not move
LEMMA ContinuedSame ==
  ASSUME NEW d \in Cells, Continued(d), run'[d] = run[d], journal'[d] = journal[d]
  PROVE  Continued(d)'
<1>1. Before(journal[d])' = Before(journal[d])
  BY DEF Before, EntryOf
<1> QED BY <1>1 DEF Continued

\* an outcome goes on from the one on record
LEMMA EndsContinued ==
  ASSUME Typed, PoolOk, NEW c \in Cells, NEW kind \in Kinds \ {"parked"}, Ends(c, kind),
         journal' = journal
  PROVE  Continued(c)'
<1>1. run[c].prior = journal[c]
  BY DEF Ends, Playing, PoolOk, JobOk
<1>2. Before(journal[c])' = Before(journal[c])
  BY DEF Before, EntryOf
<1> QED BY <1>1, <1>2 DEF Ends, Continued

\* the audits of jobs that are done
LEMMA RowsKept ==
  ASSUME Typed, PoolOk, StartsOk, BatchOk, RowChain, [Next]_vars
  PROVE  RowChain'
<1> USE DEF Typed, disk, batchVars
<1>1. ASSUME NEW c \in Cells, Submit(c) PROVE RowChain'
  <2>1. \/ journal' = [journal EXCEPT ![c] = Parked] /\ UNCHANGED run
        \/ Alone(c) /\ run'[c].at = "queued" /\ UNCHANGED journal
    BY <1>1, SubmitMoves
  <2>2. run[c].at = "no"
    BY <1>1 DEF Submit, BatchOk, Dispatched, InPool
  <2>7. Continued(c)'
    BY <2>1, <2>2 DEF Continued
  <2>8. \A d \in Cells \ {c} : run'[d] = run[d] /\ journal'[d] = journal[d]
    BY <2>1 DEF Alone
  <2> QED BY <2>7, <2>8, ContinuedSame DEF RowChain
<1>2. ASSUME NEW c \in Cells, Record(c) PROVE RowChain'
  <2>1. run'[c].at = "no" /\ Alone(c) /\ \A d \in Cells \ {c} : journal'[d] = journal[d]
    BY <1>2, Recorded
  <2>7. Continued(c)'
    BY <2>1 DEF Continued
  <2>8. \A d \in Cells \ {c} : run'[d] = run[d] /\ journal'[d] = journal[d]
    BY <2>1 DEF Alone
  <2> QED BY <2>7, <2>8, ContinuedSame DEF RowChain
<1>3. ASSUME NEW c \in Cells, Start(c) PROVE RowChain'
  <2>0. IsFiniteSet(starts)
    BY DEF StartsOk
  <2>1. journal' = journal /\ ~Audited(Parked.kind) /\ Parked.chain = <<>>
    BY <1>3, GivenRows DEF Start, Audited
  <2>2. Alone(c) /\ (run'[c].row = Parked \/ run'[c].at \in {"play", "bind"})
    BY <1>3, <2>0, StartMoves
  <2>7. Continued(c)'
    BY <2>1, <2>2 DEF Continued
  <2>8. \A d \in Cells \ {c} : run'[d] = run[d] /\ journal'[d] = journal[d]
    BY <2>1, <2>2 DEF Alone
  <2> QED BY <2>7, <2>8, ContinuedSame DEF RowChain
<1>4. ASSUME NEW c \in Cells, Bind(c) PROVE RowChain'
  <2>1. journal' = journal
    BY <1>4 DEF Bind
  <2>2. Alone(c) /\ run'[c].at = "move"
    BY <1>4, PrepareMoves
  <2>7. Continued(c)'
    BY <2>2 DEF Continued
  <2>8. \A d \in Cells \ {c} : run'[d] = run[d] /\ journal'[d] = journal[d]
    BY <2>1, <2>2 DEF Alone
  <2> QED BY <2>7, <2>8, ContinuedSame DEF RowChain
<1>5. ASSUME NEW c \in Cells, MoveAside(c) PROVE RowChain'
  <2>1. journal' = journal
    BY <1>5 DEF MoveAside
  <2>2. Alone(c) /\ run'[c].at = "play"
    BY <1>5, PrepareMoves
  <2>7. Continued(c)'
    BY <2>2 DEF Continued
  <2>8. \A d \in Cells \ {c} : run'[d] = run[d] /\ journal'[d] = journal[d]
    BY <2>1, <2>2 DEF Alone
  <2> QED BY <2>7, <2>8, ContinuedSame DEF RowChain
<1>6. ASSUME NEW c \in Cells, Replay(c) PROVE RowChain'
  <2>1. journal' = journal
    BY <1>6 DEF Replay
  <2>2. Alone(c) /\ run'[c].at = "call"
    BY <1>6, PrepareMoves
  <2>7. Continued(c)'
    BY <2>2 DEF Continued
  <2>8. \A d \in Cells \ {c} : run'[d] = run[d] /\ journal'[d] = journal[d]
    BY <2>1, <2>2 DEF Alone
  <2> QED BY <2>7, <2>8, ContinuedSame DEF RowChain
<1>7. ASSUME NEW c \in Cells, Request(c) PROVE RowChain'
  <2>1. journal' = journal
    BY <1>7 DEF Request
  <2>2. run[c].total = run[c].ok
    BY <1>7 DEF Request, PoolOk, JobOk
  <2>3. \/ run'[c].at = "commit" /\ \A d \in Cells \ {c} : run'[d] = run[d]
        \/ \E kind \in Kinds \ {"parked"} : Ends(c, kind)
    BY <1>7, <2>2, RequestMoves
  <2>4. ASSUME run'[c].at = "commit" PROVE Continued(c)'
    BY <2>4 DEF Continued
  <2>7. Continued(c)'
    BY <2>1, <2>3, <2>4, EndsContinued
  <2>8. \A d \in Cells \ {c} : run'[d] = run[d] /\ journal'[d] = journal[d]
    BY <2>1, <2>3 DEF Ends
  <2> QED BY <2>7, <2>8, ContinuedSame DEF RowChain
<1>8. ASSUME NEW c \in Cells, Commit(c) PROVE RowChain'
  <2>1. journal' = journal
    BY <1>8 DEF Commit
  <2>3. run[c].ok < Boundaries
    BY <1>8 DEF Commit, PoolOk, JobOk
  <2>2. Alone(c) /\ run'[c].at = "call"
    BY <1>8, <2>3, CommitMoves
  <2>7. Continued(c)'
    BY <2>2 DEF Continued
  <2>8. \A d \in Cells \ {c} : run'[d] = run[d] /\ journal'[d] = journal[d]
    BY <2>1, <2>2 DEF Alone
  <2> QED BY <2>7, <2>8, ContinuedSame DEF RowChain
<1>9. ASSUME NEW c \in Cells, Finish(c) PROVE RowChain'
  <2>1. journal' = journal
    BY <1>9 DEF Finish
  <2>2. PICK kind \in Kinds \ {"parked"} : Ends(c, kind)
    BY <1>9, FinishEnds
  <2>7. Continued(c)'
    BY <2>1, <2>2, EndsContinued
  <2>8. \A d \in Cells \ {c} : run'[d] = run[d] /\ journal'[d] = journal[d]
    BY <2>1, <2>2 DEF Ends
  <2> QED BY <2>7, <2>8, ContinuedSame DEF RowChain
<1>10. ASSUME NEW c \in Cells, Supervise(c) PROVE RowChain'
  <2>1. journal' = journal
    BY <1>10 DEF Supervise
  <2>2. PICK kind \in Kinds \ {"parked"} : Ends(c, kind)
    BY <1>10, SuperviseEnds
  <2>7. Continued(c)'
    BY <2>1, <2>2, EndsContinued
  <2>8. \A d \in Cells \ {c} : run'[d] = run[d] /\ journal'[d] = journal[d]
    BY <2>1, <2>2 DEF Ends
  <2> QED BY <2>7, <2>8, ContinuedSame DEF RowChain
<1>11. ASSUME NEW c \in Cells, WorkerEnds(c) PROVE RowChain'
  <2>1. journal' = journal
    BY <1>11 DEF WorkerEnds
  <2>3. run' = [run EXCEPT ![c] = Idle]
    BY <1>11 DEF WorkerEnds
  <2>2. Alone(c) /\ run'[c].at = "no"
    BY <2>3, LeaveMoves
  <2>7. Continued(c)'
    BY <2>2 DEF Continued
  <2>8. \A d \in Cells \ {c} : run'[d] = run[d] /\ journal'[d] = journal[d]
    BY <2>1, <2>2 DEF Alone
  <2> QED BY <2>7, <2>8, ContinuedSame DEF RowChain
<1>12. CASE UNCHANGED <<run, journal>>
  <2>1. \A d \in Cells : Before(journal[d])' = Before(journal[d])
    BY <1>12 DEF Before, EntryOf
  <2> QED BY <1>12, <2>1 DEF RowChain, Continued
<1> QED
  BY ZenonT(30), <1>1, <1>2, <1>3, <1>4, <1>5, <1>6, <1>7, <1>8, <1>9, <1>10, <1>11, <1>12 DEF
    Next, BatchStep, Worker, vars, campaignVars, Boot, Complete, QuotaResets,
    RunnerDies, LaneStart, Choose, Launch, Return, Reconcile, ChargeAttempt, Close,
    PoolCools, LaneDies, LaneExits, CooldownEnds, ExtendAttempts

\* the lineage of a cell that has no new outcome
LEMMA ListedSame ==
  ASSUME NEW d \in Cells, Listed(d), journal'[d] = journal[d], settled'[d] = settled[d]
  PROVE  Listed(d)'
BY SMTT(30) DEF Listed, Known, Named

\* the lineage of a cell
LEMMA LineageKept ==
  ASSUME Typed, PoolOk, SettledOk, RowChain, Lineage, [Next]_vars
  PROVE  Lineage'
<1> USE DEF Typed, disk, batchVars
<1>1. ASSUME NEW c \in Cells, Submit(c) PROVE Lineage'
  <2>1. settled' = settled
    BY <1>1 DEF Submit
  <2>2. journal' = journal \/ journal' = [journal EXCEPT ![c] = Parked]
    BY <1>1, SubmitMoves
  <2>3. ~Audited(Parked.kind) /\ Parked.chain = <<>>
    BY GivenRows DEF Audited
  <2>4. \A d \in Cells \ {c} : Listed(d)'
    BY <2>1, <2>2, ListedSame DEF Lineage
  <2>5. Listed(c)'
    BY <2>1, <2>2, <2>3 DEF Lineage, Listed, Known, Named
  <2> QED BY <2>4, <2>5 DEF Lineage
<1>2. ASSUME NEW c \in Cells, Record(c) PROVE Lineage'
  <2>1. /\ run[c].at = "done" /\ journal'[c] = run[c].row /\ journal'[c].id = run[c].id
        /\ \A d \in Cells \ {c} : journal'[d] = journal[d] /\ settled'[d] = settled[d]
    BY <1>2, Recorded
  <2>2. \A d \in Cells \ {c} : Listed(d)'
    BY <2>1, ListedSame DEF Lineage
  <2>3. CASE ~Audited(run[c].row.kind)
    <3>1. journal'[c].chain = <<>>
      BY <2>1, <2>3 DEF RowChain, Continued
    <3>2. Listed(c)'
      BY <2>1, <2>3, <3>1 DEF Listed
    <3> QED BY <2>2, <3>2 DEF Lineage
  <2>4. CASE Audited(run[c].row.kind)
    <3> DEFINE b == Before(journal[c])
               q == journal'[c].chain
    <3>1. PICK e \in Entry : e.id = run[c].id /\ q = Append(b, e)
      BY <2>1, <2>4 DEF RowChain, Continued
    <3>2. b \in Seq(Entry) /\ run[c].prior = journal[c]
      <4>1. run[c].prior = journal[c] /\ run[c] \in RunRec
        BY <2>1 DEF PoolOk, JobOk
      <4> QED BY <4>1, OutcomeTyped DEF Kinds
    <3> HIDE DEF b, q
    <3>3. /\ q # <<>> /\ Len(b) \in Nat /\ Len(q) = Len(b) + 1 /\ DOMAIN b = 1..Len(b)
          /\ DOMAIN q = 1..(Len(b) + 1) /\ q[Len(b) + 1] = e /\ \A i \in DOMAIN b : q[i] = b[i]
      BY SMTT(30), <3>1, <3>2
    <3>4. run[c].id # 0
      BY <2>1, <2>4, GivenRows DEF PoolOk, JobOk, Audited
    <3>5. /\ Len(settled[c]) \in Nat /\ Len(settled'[c]) = Len(settled[c]) + 1
          /\ DOMAIN settled[c] = 1..Len(settled[c])
          /\ \A i \in DOMAIN settled[c] : settled'[c][i] = settled[c][i]
          /\ settled'[c][Len(settled[c]) + 1] = [id |-> run[c].id, kind |-> run[c].row.kind]
      BY <1>2, <3>4, Recorded
    <3>6. ASSUME Known(q) PROVE Named(b, settled[c])
      <4>1. Known(b)
        BY <3>3, <3>6 DEF Known
      <4>2. CASE journal[c].kind = "none"
        <5>1. settled[c] = <<>> /\ b = <<>>
          BY <4>2 DEF b, Before, SettledOk, OutcomesOk
        <5> QED BY <5>1 DEF Named
      <4>3. CASE journal[c].kind # "none" /\ journal[c].chain # <<>>
        <5>1. b = journal[c].chain
          BY <4>3 DEF b, Before
        <5> QED BY <4>1, <4>3, <5>1 DEF Lineage, Listed
      <4>4. CASE journal[c].kind # "none" /\ journal[c].chain = <<>>
        <5>1. b = <<EntryOf(journal[c], Idle)>>
          BY <4>4 DEF b, Before
        <5>2. ~EntryOf(journal[c], Idle).known
          BY <4>4 DEF EntryOf, Lineage, Listed
        <5> QED BY <4>1, <5>1, <5>2 DEF Known
      <4> QED BY <4>2, <4>3, <4>4
    <3>7. ASSUME Known(q) PROVE Named(q, settled'[c])
      <4>1. Len(b) = Len(settled[c]) /\ \A i \in DOMAIN b : b[i].id = settled[c][i].id
        BY <3>6, <3>7 DEF Named
      <4>2. ASSUME NEW i \in DOMAIN q PROVE q[i].id = settled'[c][i].id
        <5>1. i \in DOMAIN b \/ i = Len(b) + 1
          BY <3>3
        <5>2. CASE i \in DOMAIN b
          BY <3>3, <3>5, <4>1, <5>2
        <5>3. CASE i = Len(b) + 1
          BY <3>1, <3>3, <3>5, <4>1, <5>3
        <5> QED BY <5>1, <5>2, <5>3
      <4>3. Len(q) = Len(settled'[c])
        BY <3>3, <3>5, <4>1
      <4> QED BY <4>2, <4>3 DEF Named
    <3>8. Listed(c)'
      BY <2>1, <2>4, <3>3, <3>7 DEF Listed, q
    <3> QED BY <2>2, <3>8 DEF Lineage
  <2> QED BY <2>3, <2>4
<1>3. CASE UNCHANGED <<journal, settled>>
  BY <1>3 DEF Lineage, Listed, Known, Named
<1> QED
  BY ZenonT(30), <1>1, <1>2, <1>3 DEF Next, BatchStep, Worker, vars, campaignVars, Boot,
    Complete, QuotaResets, Start, Bind, MoveAside, Replay, Request, Settle, Commit,
    Finish, Supervise, WorkerEnds, RunnerDies, LaneStart, Choose, Launch, Return,
    Reconcile, ChargeAttempt, Close, PoolCools, LaneDies, LaneExits, CooldownEnds,
    ExtendAttempts

\* who is in the pool, and who has something to do
LEMMA PoolMoves ==
  ASSUME Typed, PoolOk, StartsOk, NEW c \in Cells
  PROVE  /\ Submit(c) => InPool \subseteq InPool' /\ InPool' \subseteq InPool \cup {c}
         /\ Worker(c) => c \in InPool /\ InPool' = InPool
         /\ Record(c) \/ WorkerEnds(c) => c \in InPool /\ InPool' = InPool \ {c}
<1> USE DEF Typed, InPool
<1>1. ASSUME Submit(c) PROVE InPool \subseteq InPool' /\ InPool' \subseteq InPool \cup {c}
  BY <1>1, SubmitMoves DEF Alone
<1>2. ASSUME run[c].at # "no", run'[c].at # "no", \A d \in Cells \ {c} : run'[d] = run[d]
      PROVE  c \in InPool /\ InPool' = InPool
  BY <1>2
<1>3. ASSUME Start(c) PROVE c \in InPool /\ InPool' = InPool
  <2>1. IsFiniteSet(starts)
    BY DEF StartsOk
  <2> QED BY <1>2, <1>3, <2>1, StartMoves DEF Alone
<1>4. ASSUME Bind(c) \/ MoveAside(c) \/ Replay(c) PROVE c \in InPool /\ InPool' = InPool
  BY <1>2, <1>4, PrepareMoves DEF Alone
<1>5. ASSUME Request(c) PROVE c \in InPool /\ InPool' = InPool
  <2>1. run[c].total = run[c].ok
    BY <1>5 DEF Request, PoolOk, JobOk
  <2> QED BY <1>2, <1>5, <2>1, RequestMoves DEF Ends
<1>6. ASSUME Commit(c) PROVE c \in InPool /\ InPool' = InPool
  <2>1. run[c].ok < Boundaries
    BY <1>6 DEF Commit, PoolOk, JobOk
  <2> QED BY <1>2, <1>6, <2>1, CommitMoves DEF Alone
<1>7. ASSUME Finish(c) \/ Supervise(c) PROVE c \in InPool /\ InPool' = InPool
  BY <1>2, <1>7, FinishEnds, SuperviseEnds DEF Ends, Playing
<1>8. ASSUME Record(c) \/ WorkerEnds(c) PROVE c \in InPool /\ InPool' = InPool \ {c}
  <2>1. run' = [run EXCEPT ![c] = Idle] /\ run[c].at # "no"
    BY <1>8 DEF Record, WorkerEnds
  <2> QED BY <2>1, LeaveMoves DEF Alone
<1> QED BY <1>1, <1>3, <1>4, <1>5, <1>6, <1>7, <1>8 DEF Worker

\* what is to do when a cell is submitted, and when its outcome is recorded
LEMMA TodoMoves ==
  ASSUME Typed, PoolOk, BatchOk, NEW c \in Cells
  PROVE  /\ Submit(c) => Todo' = Todo
         /\ Record(c) => Todo' \subseteq Todo /\ Todo \ {c} \subseteq Todo'
<1>1. ASSUME Submit(c) PROVE Todo' = Todo
  <2>1. c \in Todo /\ (journal' = journal \/ journal' = [journal EXCEPT ![c] = Parked])
    BY <1>1, SubmitMoves DEF BatchOk, Dispatched, Typed
  <2>2. CASE journal' = journal
    BY <2>2 DEF Todo
  <2>3. CASE journal' = [journal EXCEPT ![c] = Parked]
    BY <2>1, <2>3, GivenRows DEF Todo, Typed, Retryable
  <2> QED BY <2>1, <2>2, <2>3
<1>2. ASSUME Record(c) PROVE Todo' \subseteq Todo /\ Todo \ {c} \subseteq Todo'
  <2>1. c \in Todo /\ \A d \in Cells \ {c} : journal'[d] = journal[d]
    BY ZenonT(30), <1>2, Recorded DEF BatchOk, Dispatched, InPool
  <2> QED BY <2>1 DEF Todo
<1> QED BY <1>1, <1>2

\* what an invocation counts as pending is all that is to do
LEMMA PendingIsTodo ==
  ASSUME Typed, SettledOk, EvidenceFound
  PROVE  Pending \subseteq Todo /\ Todo \subseteq Pending \cup ToRepair
         /\ Cardinality(Todo) <= Cardinality(Pending \cup ToRepair)
            /\ Cardinality(Pending \cup ToRepair) \in Nat
<1>1. ASSUME NEW c \in Cells, journal[c].kind = "none" PROVE journal[c] = NoRow
  <2>1. settled[c] = <<>>
    BY <1>1 DEF SettledOk, OutcomesOk
  <2>2. journal[c].id = 0
    BY <2>1 DEF SettledOk, OutcomesOk
  <2> QED BY <1>1, <2>2, GivenRows DEF SettledOk, OutcomesOk
<1>2. Pending \subseteq Todo
  BY GivenRows DEF Pending, Todo
<1>3. Todo \subseteq Pending \cup ToRepair
  BY <1>1 DEF Pending, Todo, ToRepair, EvidenceFound
<1>4. Pending \cup ToRepair \subseteq Cells
  BY DEF Pending, ToRepair
<1>5. IsFiniteSet(Pending \cup ToRepair) /\ Cardinality(Pending \cup ToRepair) \in Nat
  BY SMTT(30), <1>4, CellsFinite
<1> QED BY <1>2, <1>3, <1>5, FS_Subset

\* the dispatched cells
LEMMA DispatchedKept ==
  ASSUME Typed, LaneTyped, PoolOk, StartsOk, SettledOk, BatchOk, EvidenceFound,
    LaneOk, [Next]_vars
  PROVE  Dispatched'
<1> USE DEF Typed, BatchOk, Dispatched, disk, batchVars
<1>1. CASE Boot
  <2>1. PICK jobs \in {Pending \ batch.held} \cup {{d} : d \in Pending \ batch.held} :
          /\ batch' = [batch EXCEPT !.at = "run", !.todo = jobs]
          /\ summary' = [status |-> "running", inv |-> batch.inv, dispatched |-> jobs,
                         pending |-> Cardinality(Pending \cup ToRepair)]
    BY ZenonT(30), <1>1 DEF Boot
  <2>2. InPool = {} /\ UNCHANGED <<run, journal>>
    BY <1>1 DEF Boot
  <2>3. jobs \subseteq Todo
    BY PendingIsTodo
  <2>4. batch'.at = "run" /\ batch'.inv = batch.inv /\ batch'.todo = jobs
    BY <2>1, <2>3 DEF BatchRec
  <2>5. InPool' = {} /\ Todo' = Todo
    BY <2>2 DEF InPool, Todo
  <2> QED BY <2>1, <2>3, <2>4, <2>5
<1>2. CASE Complete
  <2>1. InPool = {} /\ batch'.at = "off" /\ batch'.todo = {} /\ UNCHANGED run
    BY <1>2 DEF Complete, NotRunning
  <2>2. InPool' = {}
    BY <2>1 DEF InPool
  <2> QED BY <2>1, <2>2
<1>3. ASSUME NEW c \in Cells, Submit(c) PROVE Dispatched'
  <2>1. /\ batch.at = "run" /\ c \in batch.todo /\ summary' = summary
        /\ batch'.at = "run" /\ batch'.inv = batch.inv /\ batch'.todo = batch.todo \ {c}
    BY ZenonT(30), <1>3, SubmitMoves DEF Submit
  <2>2. InPool' \subseteq InPool \cup {c} /\ Todo' = Todo
    BY <1>3, PoolMoves, TodoMoves
  <2> QED BY <2>1, <2>2
<1>4. ASSUME NEW c \in Cells, Record(c) PROVE Dispatched'
  <2>1. /\ batch.at = "run" /\ batch'.at = "run" /\ batch'.inv = batch.inv
           /\ batch'.todo = batch.todo
        /\ summary' = summary
    BY <1>4, Recorded DEF Record
  <2>2. InPool' = InPool \ {c} /\ Todo \ {c} \subseteq Todo' /\ c \in InPool
    BY <1>4, PoolMoves, TodoMoves
  <2> QED BY <2>1, <2>2
<1>5. ASSUME NEW c \in Cells, Start(c) PROVE Dispatched'
  <2>1. batch' = batch /\ journal' = journal /\ summary' = summary /\ InPool' = InPool
    BY <1>5, PoolMoves DEF Start, Worker
  <2>2. Todo' = Todo
    BY <2>1 DEF Todo
  <2> QED BY <2>1, <2>2
<1>6. ASSUME NEW c \in Cells, Bind(c) PROVE Dispatched'
  <2>1. batch' = batch /\ journal' = journal /\ summary' = summary /\ InPool' = InPool
    BY <1>6, PoolMoves DEF Bind, Worker
  <2>2. Todo' = Todo
    BY <2>1 DEF Todo
  <2> QED BY <2>1, <2>2
<1>7. ASSUME NEW c \in Cells, MoveAside(c) PROVE Dispatched'
  <2>1. batch' = batch /\ journal' = journal /\ summary' = summary /\ InPool' = InPool
    BY <1>7, PoolMoves DEF MoveAside, Worker
  <2>2. Todo' = Todo
    BY <2>1 DEF Todo
  <2> QED BY <2>1, <2>2
<1>8. ASSUME NEW c \in Cells, Replay(c) PROVE Dispatched'
  <2>1. batch' = batch /\ journal' = journal /\ summary' = summary /\ InPool' = InPool
    BY ZenonT(30), <1>8, PoolMoves DEF Replay, Worker
  <2>2. Todo' = Todo
    BY <2>1 DEF Todo
  <2> QED BY <2>1, <2>2
<1>9. ASSUME NEW c \in Cells, Request(c) PROVE Dispatched'
  <2>1. batch' = batch /\ journal' = journal /\ summary' = summary /\ InPool' = InPool
    BY ZenonT(30), <1>9, PoolMoves DEF Request, Worker
  <2>2. Todo' = Todo
    BY <2>1 DEF Todo
  <2> QED BY <2>1, <2>2
<1>10. ASSUME NEW c \in Cells, Commit(c) PROVE Dispatched'
  <2>1. batch' = batch /\ journal' = journal /\ summary' = summary /\ InPool' = InPool
    BY ZenonT(30), <1>10, PoolMoves DEF Commit, Worker
  <2>2. Todo' = Todo
    BY <2>1 DEF Todo
  <2> QED BY <2>1, <2>2
<1>11. ASSUME NEW c \in Cells, Finish(c) PROVE Dispatched'
  <2>1. batch' = batch /\ journal' = journal /\ summary' = summary /\ InPool' = InPool
    BY <1>11, PoolMoves DEF Finish, Worker
  <2>2. Todo' = Todo
    BY <2>1 DEF Todo
  <2> QED BY <2>1, <2>2
<1>12. ASSUME NEW c \in Cells, Supervise(c) PROVE Dispatched'
  <2>1. batch' = batch /\ journal' = journal /\ summary' = summary /\ InPool' = InPool
    BY <1>12, PoolMoves DEF Supervise, Worker
  <2>2. Todo' = Todo
    BY <2>1 DEF Todo
  <2> QED BY <2>1, <2>2
<1>13. ASSUME NEW c \in Cells, WorkerEnds(c) PROVE Dispatched'
  <2>1. batch' = batch /\ journal' = journal /\ summary' = summary /\ InPool' = InPool \ {c}
    BY <1>13, PoolMoves DEF WorkerEnds
  <2>2. Todo' = Todo
    BY <2>1 DEF Todo
  <2> QED BY <2>1, <2>2
<1>14. CASE RunnerDies
  <2>1. batch'.at = "off" /\ batch'.todo = {} /\ UNCHANGED <<run, journal, summary>>
    BY <1>14 DEF RunnerDies, NotRunning
  <2>2. InPool' = InPool /\ Todo' = Todo
    BY <2>1 DEF InPool, Todo
  <2> QED BY <2>1, <2>2
<1>15. CASE Launch
  <2>1. batch'.at = "boot" /\ batch'.inv = job.inv /\ batch'.todo = {} /\ lane.at = "launch"
        /\ UNCHANGED <<run, journal, summary>>
    BY <1>15, LaneMoves DEF Launch
  <2>2. summary.inv < job.inv /\ InPool = {}
    BY <2>1 DEF LaneOk, Working
  <2>3. InPool' = {}
    BY <2>1, <2>2 DEF InPool
  <2> QED BY <2>1, <2>2, <2>3
<1>16. CASE UNCHANGED <<batch, summary, run, journal>>
  <2>1. InPool' = InPool /\ Todo' = Todo
    BY SMTT(30), <1>16 DEF InPool, Todo
  <2> QED BY <1>16, <2>1
<1> QED
  BY ZenonT(30), <1>1, <1>2, <1>3, <1>4, <1>5, <1>6, <1>7, <1>8, <1>9, <1>10, <1>11, <1>12,
    <1>13, <1>14, <1>15, <1>16 DEF Next, BatchStep, Worker, vars, campaignVars,
    QuotaResets, LaneStart, Choose, Return, Reconcile, ChargeAttempt, Close,
    PoolCools, LaneDies, LaneExits, CooldownEnds, ExtendAttempts

\* what an invocation started
LEMMA InvokedKept ==
  ASSUME Typed, LaneTyped, PoolOk, StartsOk, BatchOk, [Next]_vars
  PROVE  Invoked'
<1> USE DEF Typed, BatchOk, Invoked, disk, batchVars
<1>1. CASE Boot
  <2>1. summary'.inv = batch.inv /\ summary.inv < batch.inv /\ UNCHANGED starts
    BY <1>1 DEF Boot, Dispatched
  <2>2. \A s \in starts : s.inv # summary'.inv
    BY <2>1 DEF StartsOk, StartRec, SummaryRec, BatchRec
  <2> QED BY <2>1, <2>2
<1>2. CASE Complete
  <2>1. batch'.todo = {} /\ UNCHANGED <<run, starts>> /\ summary'.inv = summary.inv
        /\ summary'.dispatched = summary.dispatched
    BY <1>2 DEF Complete, NotRunning, SummaryRec
  <2> QED BY <2>1
<1>3. ASSUME NEW c \in Cells, Submit(c) PROVE Invoked'
  <2>1. /\ UNCHANGED <<summary, starts>> /\ c \in batch.todo
        /\ batch'.todo = batch.todo \ {c} /\ (UNCHANGED run \/ Alone(c))
    BY ZenonT(30), <1>3, SubmitMoves DEF Submit
  <2>2. ASSUME NEW s \in starts, s.inv = summary.inv
        PROVE  run'[s.cell] = run[s.cell] /\ s.cell \notin batch'.todo
    <3>1. s.cell \in Cells /\ s.cell # c
      BY <2>1, <2>2 DEF StartRec
    <3> QED BY <2>1, <2>2, <3>1 DEF Alone
  <2> QED BY <2>1, <2>2
<1>4. ASSUME NEW c \in Cells, Record(c) PROVE Invoked'
  <2>1. UNCHANGED <<summary, starts>> /\ batch'.todo = batch.todo /\ InPool' = InPool \ {c}
    BY <1>4, PoolMoves, Recorded DEF Record
  <2>2. \A d \in Cells : run'[d].id = IF d = c THEN 0 ELSE run[d].id
    BY <1>4, IdsKept
  <2>3. \A d \in Cells : run'[d].at = "no" <=> run[d].at = "no" \/ d = c
    BY <2>1 DEF InPool
  <2>4. \A s \in starts : s.cell \in Cells
    BY DEF StartRec
  <2> QED BY <2>1, <2>2, <2>3, <2>4
<1>5. ASSUME NEW c \in Cells, Start(c) PROVE Invoked'
  <2>0. IsFiniteSet(starts)
    BY DEF StartsOk
  <2>1. UNCHANGED <<summary, batch>> /\ run[c].at = "queued" /\ run[c].id = 0 /\ c \in InPool
    BY <1>5 DEF Start, PoolOk, JobOk, InPool
  <2>2. c \in summary.dispatched /\ c \notin batch.todo
    BY <2>1 DEF Dispatched
  <2>3. /\ Alone(c)
        /\ \/ UNCHANGED starts
           \/ \E id \in Attempts :
                 /\ run'[c].id = id
                 /\ starts' = starts \cup {[id |-> id, cell |-> c, inv |-> summary.inv]}
    BY <1>5, <2>0, StartMoves
  <2>6. ASSUME NEW s \in starts, s.inv = summary.inv PROVE run'[s.cell] = run[s.cell]
    <3>1. s.cell \in Cells /\ s.cell # c
      BY <2>1, <2>6 DEF StartRec
    <3> QED BY <2>3, <3>1 DEF Alone
  <2>4. CASE UNCHANGED starts
    BY <2>1, <2>4, <2>6
  <2>5. ASSUME NEW id \in Attempts, run'[c].id = id,
               starts' = starts \cup {[id |-> id, cell |-> c, inv |-> summary.inv]}
        PROVE  Invoked'
    <3>1. run'[c].id # 0
      BY <2>5 DEF Attempts
    <3>2. \A s \in starts' : s \in starts \/ s.cell = c
      BY <2>5
    <3> QED BY <2>1, <2>2, <2>6, <3>1, <3>2
  <2> QED BY <2>3, <2>4, <2>5
<1>6. ASSUME NEW c \in Cells, Bind(c) PROVE Invoked'
  <2>1. UNCHANGED <<summary, batch, starts>> /\ InPool' = InPool
    BY <1>6, PoolMoves DEF Bind, Worker
  <2>2. \A d \in Cells : run'[d].id = run[d].id
    BY <1>6, IdsKept
  <2>3. \A d \in Cells : run'[d].at = "no" <=> run[d].at = "no"
    BY <2>1 DEF InPool
  <2>4. \A s \in starts : s.cell \in Cells
    BY DEF StartRec
  <2> QED BY <2>1, <2>2, <2>3, <2>4
<1>7. ASSUME NEW c \in Cells, MoveAside(c) PROVE Invoked'
  <2>1. UNCHANGED <<summary, batch, starts>> /\ InPool' = InPool
    BY <1>7, PoolMoves DEF MoveAside, Worker
  <2>2. \A d \in Cells : run'[d].id = run[d].id
    BY <1>7, IdsKept
  <2>3. \A d \in Cells : run'[d].at = "no" <=> run[d].at = "no"
    BY <2>1 DEF InPool
  <2>4. \A s \in starts : s.cell \in Cells
    BY DEF StartRec
  <2> QED BY <2>1, <2>2, <2>3, <2>4
<1>8. ASSUME NEW c \in Cells, Replay(c) PROVE Invoked'
  <2>1. UNCHANGED <<summary, batch, starts>> /\ InPool' = InPool
    BY ZenonT(30), <1>8, PoolMoves DEF Replay, Worker
  <2>2. \A d \in Cells : run'[d].id = run[d].id
    BY <1>8, IdsKept
  <2>3. \A d \in Cells : run'[d].at = "no" <=> run[d].at = "no"
    BY <2>1 DEF InPool
  <2>4. \A s \in starts : s.cell \in Cells
    BY DEF StartRec
  <2> QED BY <2>1, <2>2, <2>3, <2>4
<1>9. ASSUME NEW c \in Cells, Request(c) PROVE Invoked'
  <2>1. UNCHANGED <<summary, batch, starts>> /\ InPool' = InPool
    BY ZenonT(30), <1>9, PoolMoves DEF Request, Worker
  <2>2. \A d \in Cells : run'[d].id = run[d].id
    BY <1>9, IdsKept
  <2>3. \A d \in Cells : run'[d].at = "no" <=> run[d].at = "no"
    BY <2>1 DEF InPool
  <2>4. \A s \in starts : s.cell \in Cells
    BY DEF StartRec
  <2> QED BY <2>1, <2>2, <2>3, <2>4
<1>10. ASSUME NEW c \in Cells, Commit(c) PROVE Invoked'
  <2>1. UNCHANGED <<summary, batch, starts>> /\ InPool' = InPool
    BY ZenonT(30), <1>10, PoolMoves DEF Commit, Worker
  <2>2. \A d \in Cells : run'[d].id = run[d].id
    BY <1>10, IdsKept
  <2>3. \A d \in Cells : run'[d].at = "no" <=> run[d].at = "no"
    BY <2>1 DEF InPool
  <2>4. \A s \in starts : s.cell \in Cells
    BY DEF StartRec
  <2> QED BY <2>1, <2>2, <2>3, <2>4
<1>11. ASSUME NEW c \in Cells, Finish(c) PROVE Invoked'
  <2>1. UNCHANGED <<summary, batch, starts>> /\ InPool' = InPool
    BY <1>11, PoolMoves DEF Finish, Worker
  <2>2. \A d \in Cells : run'[d].id = run[d].id
    BY <1>11, IdsKept
  <2>3. \A d \in Cells : run'[d].at = "no" <=> run[d].at = "no"
    BY <2>1 DEF InPool
  <2>4. \A s \in starts : s.cell \in Cells
    BY DEF StartRec
  <2> QED BY <2>1, <2>2, <2>3, <2>4
<1>12. ASSUME NEW c \in Cells, Supervise(c) PROVE Invoked'
  <2>1. UNCHANGED <<summary, batch, starts>> /\ InPool' = InPool
    BY <1>12, PoolMoves DEF Supervise, Worker
  <2>2. \A d \in Cells : run'[d].id = run[d].id
    BY <1>12, IdsKept
  <2>3. \A d \in Cells : run'[d].at = "no" <=> run[d].at = "no"
    BY <2>1 DEF InPool
  <2>4. \A s \in starts : s.cell \in Cells
    BY DEF StartRec
  <2> QED BY <2>1, <2>2, <2>3, <2>4
<1>13. ASSUME NEW c \in Cells, WorkerEnds(c) PROVE Invoked'
  <2>1. UNCHANGED <<summary, starts>> /\ batch'.todo = batch.todo /\ InPool' = InPool \ {c}
    BY <1>13, PoolMoves, Recorded DEF WorkerEnds
  <2>2. \A d \in Cells : run'[d].id = IF d = c THEN 0 ELSE run[d].id
    BY <1>13, IdsKept
  <2>3. \A d \in Cells : run'[d].at = "no" <=> run[d].at = "no" \/ d = c
    BY <2>1 DEF InPool
  <2>4. \A s \in starts : s.cell \in Cells
    BY DEF StartRec
  <2> QED BY <2>1, <2>2, <2>3, <2>4
<1>14. CASE RunnerDies
  BY <1>14 DEF RunnerDies, NotRunning
<1>15. CASE Launch
  <2>1. batch'.todo = {} /\ UNCHANGED <<run, summary, starts>>
    BY <1>15, LaneMoves DEF Launch
  <2> QED BY <2>1
<1>16. CASE UNCHANGED <<batch, summary, run, starts>>
  BY SMTT(30), <1>16
<1> QED
  BY ZenonT(30), <1>1, <1>2, <1>3, <1>4, <1>5, <1>6, <1>7, <1>8, <1>9, <1>10, <1>11, <1>12,
    <1>13, <1>14, <1>15, <1>16 DEF Next, BatchStep, Worker, vars, campaignVars,
    QuotaResets, LaneStart, Choose, Return, Reconcile, ChargeAttempt, Close,
    PoolCools, LaneDies, LaneExits, CooldownEnds, ExtendAttempts

\* what is pending
LEMMA SummedKept ==
  ASSUME Typed, PoolOk, StartsOk, SettledOk, BatchOk, EvidenceFound, [Next]_vars
  PROVE  Summed'
<1> USE DEF Typed, BatchOk, Summed, disk, batchVars
<1>1. CASE Boot
  <2>1. summary'.pending = Cardinality(Pending \cup ToRepair) /\ summary'.status = "running"
           /\ UNCHANGED journal
    BY <1>1 DEF Boot
  <2>2. Todo' = Todo
    BY <2>1 DEF Todo
  <2> QED BY <2>1, <2>2, PendingIsTodo
<1>2. CASE Complete
  <2>1. summary'.pending = Cardinality(Pending \cup ToRepair) /\ summary'.status = "completed"
           /\ UNCHANGED journal
    BY <1>2 DEF Complete, SummaryRec
  <2>2. Todo' = Todo
    BY <2>1 DEF Todo
  <2> QED BY <2>1, <2>2, PendingIsTodo
<1>3. ASSUME NEW c \in Cells, Submit(c) PROVE Summed'
  <2>1. UNCHANGED <<summary, starts>> /\ Todo' = Todo
    BY ZenonT(30), <1>3, TodoMoves DEF Submit
  <2> QED BY <2>1
<1>4. ASSUME NEW c \in Cells, Record(c) PROVE Summed'
  <2>1. UNCHANGED <<summary, starts>> /\ Todo' \subseteq Todo /\ c \in InPool
    BY <1>4, PoolMoves, TodoMoves DEF Record
  <2>2. summary.status = "running"
    BY <2>1 DEF Dispatched
  <2>3. IsFiniteSet(Todo) /\ Cardinality(Todo) \in Nat
    BY CellsFinite DEF Todo
  <2>4. Cardinality(Todo') <= Cardinality(Todo) /\ Cardinality(Todo') \in Nat
    BY <2>1, <2>3, FS_Subset, FS_CardinalityType
  <2>5. summary.pending \in Nat
    BY DEF SummaryRec
  <2> QED BY <2>1, <2>2, <2>3, <2>4, <2>5
<1>5. ASSUME NEW c \in Cells, Start(c) PROVE Summed'
  <2>1. UNCHANGED <<summary, journal>> /\ c \in InPool
    BY <1>5 DEF Start, InPool
  <2>2. Todo' = Todo /\ summary.status = "running"
    BY <2>1 DEF Todo, Dispatched
  <2> QED BY <2>1, <2>2
<1>6. CASE UNCHANGED <<summary, starts, journal>>
  <2>1. Todo' = Todo
    BY SMTT(30), <1>6 DEF Todo
  <2> QED BY <1>6, <2>1
<1> QED
  BY ZenonT(30), <1>1, <1>2, <1>3, <1>4, <1>5, <1>6 DEF Next, BatchStep, Worker, vars,
    campaignVars, QuotaResets, Bind, MoveAside, Replay, Request, Settle, Commit,
    Finish, Supervise, WorkerEnds, RunnerDies, LaneStart, Choose, Launch, Return,
    Reconcile, ChargeAttempt, Close, PoolCools, LaneDies, LaneExits, CooldownEnds,
    ExtendAttempts

\* the outcomes of an invocation
LEMMA AnsweredKept ==
  ASSUME Typed, LaneTyped, PoolOk, StartsOk, BatchOk, [Next]_vars
  PROVE  Answered'
<1> USE DEF Typed, BatchOk, Answered, disk, batchVars
<1>1. CASE Boot
  <2>1. /\ summary'.inv = batch.inv /\ summary.inv < batch.inv /\ UNCHANGED starts
        /\ batch'.todo = summary'.dispatched
    BY <1>1 DEF Boot, Dispatched, BatchRec
  <2>2. \A s \in starts : s.inv # summary'.inv
    BY <2>1 DEF StartsOk, StartRec, SummaryRec, BatchRec
  <2> QED BY <2>1, <2>2
<1>2. CASE Complete
  <2>1. /\ batch.at = "run" /\ batch.todo = {} /\ InPool = {} /\ batch'.todo = {}
           /\ UNCHANGED <<run, starts, journal>>
        /\ summary'.inv = summary.inv /\ summary'.dispatched = summary.dispatched
    BY <1>2 DEF Complete, NotRunning, SummaryRec
  <2>2. InPool' = {}
    BY <2>1 DEF InPool
  <2> QED BY <2>1, <2>2
<1>3. ASSUME NEW c \in Cells, Submit(c) PROVE Answered'
  <2>1. /\ UNCHANGED <<summary, starts>> /\ c \in batch.todo /\ batch.at = "run"
        /\ batch'.todo = batch.todo \ {c}
        /\ \/ journal' = [journal EXCEPT ![c] = Parked] /\ UNCHANGED run
           \/ Alone(c) /\ run'[c].at = "queued" /\ UNCHANGED journal
    BY ZenonT(30), <1>3, SubmitMoves DEF Submit
  <2>2. \A s \in starts : s.inv = summary.inv => s.cell # c
    BY <2>1 DEF Invoked
  <2>3. \A s \in starts : s.inv = summary.inv => s.id = journal'[s.cell].id
           \/ s.id = run'[s.cell].id
    <3>1. \A s \in starts : s.cell \in Cells
      BY DEF StartRec
    <3> QED BY ZenonT(30), <2>1, <2>2, <3>1 DEF Alone
  <2>4. ASSUME NEW d \in summary.dispatched \ (batch'.todo \cup InPool')
        PROVE  \/ journal'[d].kind = "parked"
               \/ \E s \in starts : s.cell = d /\ s.inv = summary.inv /\ s.id = journal'[d].id
    <3>0. d \in Cells /\ InPool \subseteq InPool'
      BY <1>3, PoolMoves DEF SummaryRec
    <3>1. CASE d = c
      <4>1. CASE journal' = [journal EXCEPT ![c] = Parked]
        BY <3>1, <4>1, GivenRows
      <4>2. CASE run'[c].at = "queued"
        BY <2>4, <3>0, <3>1, <4>2 DEF InPool
      <4> QED BY <2>1, <4>1, <4>2
    <3>2. CASE d # c
      <4>1. d \notin batch.todo \cup InPool /\ journal'[d] = journal[d]
        BY <2>1, <2>4, <3>0, <3>2
      <4> QED BY <2>1, <4>1
    <3> QED BY <3>1, <3>2
  <2> QED BY <2>1, <2>3, <2>4
<1>4. ASSUME NEW c \in Cells, Record(c) PROVE Answered'
  <2>1. /\ UNCHANGED <<summary, starts>> /\ batch'.todo = batch.todo /\ batch.at = "run"
        /\ InPool' = InPool \ {c} /\ Alone(c) /\ run[c].at = "done"
        /\ journal'[c].id = run[c].id /\ (run[c].id = 0 => journal'[c] = Parked)
        /\ \A d \in Cells \ {c} : journal'[d] = journal[d]
    BY ZenonT(30), <1>4, PoolMoves, Recorded DEF Record
  <2>2. ASSUME run[c].id # 0
        PROVE  \E s \in starts : s.cell = c /\ s.inv = summary.inv /\ s.id = journal'[c].id
    <3> DEFINE t == [id |-> run[c].id, cell |-> c, inv |-> summary.inv]
    <3>1. t \in starts /\ t.cell = c /\ t.inv = summary.inv /\ t.id = journal'[c].id
      BY <2>1, <2>2 DEF StartsOk
    <3> QED BY <3>1
  <2>3. ASSUME NEW s \in starts, s.inv = summary.inv, s.cell = c PROVE s.id = journal'[c].id
    <3>1. run[c].id # 0
      BY <2>1, <2>3 DEF Invoked
    <3>2. PICK t \in starts : t.cell = c /\ t.inv = summary.inv /\ t.id = journal'[c].id
      BY <2>2, <3>1
    <3>3. s = t
      BY <2>3, <3>2 DEF StartsOk
    <3> QED BY <3>2, <3>3
  <2>4. \A s \in starts : s.cell \in Cells
    BY DEF StartRec
  <2>5. ASSUME NEW s \in starts, s.inv = summary.inv
        PROVE  s.id = journal'[s.cell].id \/ s.id = run'[s.cell].id
    <3>1. CASE s.cell = c
      BY <2>3, <2>5, <3>1
    <3>2. CASE s.cell # c
      <4>1. s.cell \in Cells \ {c}
        BY <2>4, <3>2
      <4>2. journal'[s.cell] = journal[s.cell] /\ run'[s.cell] = run[s.cell]
        BY <2>1, <4>1 DEF Alone
      <4>3. s.id = journal[s.cell].id \/ s.id = run[s.cell].id
        BY <2>1, <2>5
      <4> QED BY <4>2, <4>3
    <3> QED BY <3>1, <3>2
  <2>6. \A d \in summary.dispatched \ (batch.todo \cup InPool') :
          \/ journal'[d].kind = "parked"
          \/ \E s \in starts : s.cell = d /\ s.inv = summary.inv /\ s.id = journal'[d].id
    <3>1. summary.dispatched \subseteq Cells
      BY DEF SummaryRec
    <3>2. journal'[c].kind = "parked" \/ run[c].id # 0
      BY <2>1, GivenRows
    <3>3. \A d \in summary.dispatched \ (batch.todo \cup InPool') :
            d # c => d \notin batch.todo \cup InPool /\ journal'[d] = journal[d]
      BY <2>1, <3>1
    <3>4. ASSUME NEW d \in summary.dispatched \ (batch.todo \cup InPool'), d # c
          PROVE  \/ journal'[d].kind = "parked"
                 \/ \E s \in starts : s.cell = d /\ s.inv = summary.inv /\ s.id = journal'[d].id
      BY <2>1, <3>3, <3>4
    <3>5. \/ journal'[c].kind = "parked"
          \/ \E s \in starts : s.cell = c /\ s.inv = summary.inv /\ s.id = journal'[c].id
      BY <2>2, <3>2
    <3> QED BY ZenonT(30), <3>4, <3>5
  <2> QED BY <2>1, <2>5, <2>6
<1>5. ASSUME NEW c \in Cells, Start(c) PROVE Answered'
  <2>0. IsFiniteSet(starts)
    BY DEF StartsOk
  <2>1. UNCHANGED <<summary, batch, journal>> /\ run[c].at = "queued" /\ run[c].id = 0
           /\ InPool' = InPool
    BY <1>5, PoolMoves DEF Start, PoolOk, JobOk, Worker
  <2>2. /\ Alone(c)
        /\ \/ UNCHANGED starts
           \/ \E id \in Attempts :
                 /\ run'[c].id = id
                 /\ starts' = starts \cup {[id |-> id, cell |-> c, inv |-> summary.inv]}
    BY <1>5, <2>0, StartMoves
  <2>3. \A s \in starts : s.cell \in Cells /\ (s.inv = summary.inv => s.cell # c)
    BY <2>1 DEF Invoked, StartRec
  <2>4. CASE UNCHANGED starts
    BY <2>1, <2>2, <2>3, <2>4 DEF Alone
  <2>5. ASSUME NEW id \in Attempts, run'[c].id = id,
               starts' = starts \cup {[id |-> id, cell |-> c, inv |-> summary.inv]}
        PROVE  Answered'
    <3>1. \A s \in starts' : s \in starts \/ (s.cell = c /\ s.id = run'[c].id)
      BY <2>5
    <3>2. starts \subseteq starts'
      BY <2>5
    <3>3. (batch.at = "run" \/ summary.status = "completed") =>
             \A s \in starts' : s.inv = summary.inv => s.id = journal[s.cell].id
                \/ s.id = run'[s.cell].id
      BY <2>2, <2>3, <3>1 DEF Alone
    <3> QED BY <2>1, <3>2, <3>3
  <2> QED BY <2>2, <2>4, <2>5
<1>6. ASSUME NEW c \in Cells, Bind(c) PROVE Answered'
  <2>1. UNCHANGED <<summary, batch, starts, journal>> /\ InPool' = InPool
    BY <1>6, PoolMoves DEF Bind, Worker
  <2>2. \A d \in Cells : run'[d].id = run[d].id
    BY <1>6, IdsKept
  <2>3. \A s \in starts : s.cell \in Cells
    BY DEF StartRec
  <2> QED BY <2>1, <2>2, <2>3
<1>7. ASSUME NEW c \in Cells, MoveAside(c) PROVE Answered'
  <2>1. UNCHANGED <<summary, batch, starts, journal>> /\ InPool' = InPool
    BY <1>7, PoolMoves DEF MoveAside, Worker
  <2>2. \A d \in Cells : run'[d].id = run[d].id
    BY <1>7, IdsKept
  <2>3. \A s \in starts : s.cell \in Cells
    BY DEF StartRec
  <2> QED BY <2>1, <2>2, <2>3
<1>8. ASSUME NEW c \in Cells, Replay(c) PROVE Answered'
  <2>1. UNCHANGED <<summary, batch, starts, journal>> /\ InPool' = InPool
    BY ZenonT(30), <1>8, PoolMoves DEF Replay, Worker
  <2>2. \A d \in Cells : run'[d].id = run[d].id
    BY <1>8, IdsKept
  <2>3. \A s \in starts : s.cell \in Cells
    BY DEF StartRec
  <2> QED BY <2>1, <2>2, <2>3
<1>9. ASSUME NEW c \in Cells, Request(c) PROVE Answered'
  <2>1. UNCHANGED <<summary, batch, starts, journal>> /\ InPool' = InPool
    BY ZenonT(30), <1>9, PoolMoves DEF Request, Worker
  <2>2. \A d \in Cells : run'[d].id = run[d].id
    BY <1>9, IdsKept
  <2>3. \A s \in starts : s.cell \in Cells
    BY DEF StartRec
  <2> QED BY <2>1, <2>2, <2>3
<1>10. ASSUME NEW c \in Cells, Commit(c) PROVE Answered'
  <2>1. UNCHANGED <<summary, batch, starts, journal>> /\ InPool' = InPool
    BY ZenonT(30), <1>10, PoolMoves DEF Commit, Worker
  <2>2. \A d \in Cells : run'[d].id = run[d].id
    BY <1>10, IdsKept
  <2>3. \A s \in starts : s.cell \in Cells
    BY DEF StartRec
  <2> QED BY <2>1, <2>2, <2>3
<1>11. ASSUME NEW c \in Cells, Finish(c) PROVE Answered'
  <2>1. UNCHANGED <<summary, batch, starts, journal>> /\ InPool' = InPool
    BY <1>11, PoolMoves DEF Finish, Worker
  <2>2. \A d \in Cells : run'[d].id = run[d].id
    BY <1>11, IdsKept
  <2>3. \A s \in starts : s.cell \in Cells
    BY DEF StartRec
  <2> QED BY <2>1, <2>2, <2>3
<1>12. ASSUME NEW c \in Cells, Supervise(c) PROVE Answered'
  <2>1. UNCHANGED <<summary, batch, starts, journal>> /\ InPool' = InPool
    BY <1>12, PoolMoves DEF Supervise, Worker
  <2>2. \A d \in Cells : run'[d].id = run[d].id
    BY <1>12, IdsKept
  <2>3. \A s \in starts : s.cell \in Cells
    BY DEF StartRec
  <2> QED BY <2>1, <2>2, <2>3
<1>13. ASSUME NEW c \in Cells, WorkerEnds(c) PROVE Answered'
  <2>1. batch.at # "run" /\ c \in InPool /\ UNCHANGED <<batch, summary>>
    BY <1>13, PoolMoves DEF WorkerEnds
  <2>2. summary.status = "running"
    BY <2>1 DEF Dispatched
  <2> QED BY <2>1, <2>2
<1>14. CASE RunnerDies
  <2>1. batch'.at = "off" /\ batch'.todo = {} /\ UNCHANGED <<run, journal, summary, starts>>
    BY <1>14 DEF RunnerDies, NotRunning
  <2>2. InPool' = InPool
    BY <2>1 DEF InPool
  <2>3. batch.at # "run" => batch.todo = {}
    BY DEF Dispatched
  <2>4. batch.at = "run" => summary.status # "completed"
    BY DEF Dispatched
  <2> QED BY ZenonT(30), <2>1, <2>2, <2>3, <2>4
<1>15. CASE Launch
  <2>1. batch.at = "off" /\ batch'.at = "boot" /\ batch'.todo = {}
           /\ UNCHANGED <<run, journal, summary, starts>>
    BY <1>15, LaneMoves DEF Launch
  <2>2. InPool' = InPool /\ batch.todo = {}
    BY <2>1 DEF InPool, Dispatched
  <2> QED BY <2>1, <2>2
<1>16. CASE UNCHANGED <<batch, summary, run, starts, journal>>
  <2>1. InPool' = InPool
    BY <1>16 DEF InPool
  <2> QED BY <1>16, <2>1
<1> QED
  BY ZenonT(30), <1>1, <1>2, <1>3, <1>4, <1>5, <1>6, <1>7, <1>8, <1>9, <1>10, <1>11, <1>12,
    <1>13, <1>14, <1>15, <1>16 DEF Next, BatchStep, Worker, vars, campaignVars,
    QuotaResets, LaneStart, Choose, Return, Reconcile, ChargeAttempt, Close,
    PoolCools, LaneDies, LaneExits, CooldownEnds, ExtendAttempts

\* the state of an invocation, put together
LEMMA BatchKept ==
  ASSUME Typed, LaneTyped, PoolOk, StartsOk, SettledOk, BatchOk, EvidenceFound, LaneOk, [Next]_vars
  PROVE  BatchOk'
<1>1. Dispatched' /\ Invoked'
  BY DispatchedKept, InvokedKept
<1>2. Summed' /\ Answered'
  BY SummedKept, AnsweredKept
<1> QED BY <1>1, <1>2 DEF BatchOk

----------------------------------------------------------------------------
(* The lane *)
\* an invocation only does something while it is alive
LEMMA BatchWorks ==
  ASSUME Typed, LaneTyped, PoolOk, StartsOk, BatchOk, LaneOk, BatchStep \/ RunnerDies
  PROVE  \/ UNCHANGED <<batch, run, journal, starts, summary, settled>>
         \/ /\ Working /\ summary'.inv <= job.inv
            /\ batch'.at # "off" => batch.at # "off" /\ batch'.inv = batch.inv
            /\ InPool' # {} => summary'.inv = job.inv
            /\ summary'.inv = summary.inv \/ batch.at = "boot"
<1> USE DEF Typed, LaneTyped, BatchOk, disk, batchVars
<1> DEFINE Goal == \/ UNCHANGED <<batch, run, journal, starts, summary, settled>>
                   \/ /\ Working /\ summary'.inv <= job.inv
                      /\ batch'.at # "off" => batch.at # "off" /\ batch'.inv = batch.inv
                      /\ InPool' # {} => summary'.inv = job.inv
                      /\ summary'.inv = summary.inv \/ batch.at = "boot"
<1>0. summary.inv \in Nat /\ job.inv \in Nat /\ batch.inv \in Nat
  BY DEF SummaryRec, BatchRec, JobRec
<1>1. CASE Boot
  <2>1. /\ batch.at = "boot" /\ summary'.inv = batch.inv /\ InPool = {} /\ UNCHANGED run
        /\ batch'.inv = batch.inv
    BY <1>1 DEF Boot, Dispatched, BatchRec
  <2>2. InPool' = {}
    BY <2>1 DEF InPool
  <2> QED BY <1>0, <2>1, <2>2 DEF LaneOk, Working
<1>2. CASE Complete
  <2>1. /\ batch.at = "run" /\ summary'.inv = summary.inv /\ batch'.at = "off" /\ InPool = {}
           /\ UNCHANGED run
    BY <1>2 DEF Complete, NotRunning, SummaryRec
  <2>2. InPool' = {}
    BY <2>1 DEF InPool
  <2> QED BY <1>0, <2>1, <2>2 DEF LaneOk, Working
<1>3. CASE RunnerDies
  <2>1. /\ batch.at # "off" /\ summary'.inv = summary.inv /\ batch'.at = "off" /\ UNCHANGED run
    BY <1>3 DEF RunnerDies, NotRunning
  <2>2. InPool' = InPool
    BY <2>1 DEF InPool
  <2> QED BY <1>0, <2>1, <2>2 DEF LaneOk, Working
<1>4. CASE QuotaResets
  BY <1>4 DEF QuotaResets
<1>5. ASSUME NEW c \in Cells, Submit(c) PROVE Goal
  <2>1. batch.at = "run" /\ summary' = summary /\ batch'.at = "run" /\ batch'.inv = batch.inv
    BY ZenonT(30), <1>5, SubmitMoves DEF Submit
  <2>2. summary.inv = job.inv
    BY <2>1 DEF Dispatched, LaneOk
  <2> QED BY <1>0, <2>1, <2>2 DEF Working
<1>6. ASSUME NEW c \in Cells, Record(c) PROVE Goal
  <2>1. /\ batch.at = "run" /\ summary' = summary /\ batch'.at = "run" /\ batch'.inv = batch.inv
        /\ c \in InPool
    BY <1>6, Recorded, PoolMoves DEF Record
  <2> QED BY <1>0, <2>1 DEF Working, LaneOk
<1>7. ASSUME NEW c \in Cells, Worker(c) PROVE Goal
  <2>1. summary' = summary /\ batch' = batch /\ c \in InPool
    BY ZenonT(30), <1>7, PoolMoves DEF Worker, Start, Bind, MoveAside, Replay, Request, Commit, Finish,
       Supervise
  <2> QED BY <1>0, <2>1 DEF Working, LaneOk
<1>8. ASSUME NEW c \in Cells, WorkerEnds(c) PROVE Goal
  <2>1. summary' = summary /\ batch' = batch /\ c \in InPool
    BY <1>8, PoolMoves DEF WorkerEnds
  <2> QED BY <1>0, <2>1 DEF Working, LaneOk
<1> HIDE DEF Typed, LaneTyped, BatchOk, disk, batchVars
<1>9. CASE BatchStep
  <2>1. CASE \E c \in Cells : Submit(c) \/ Record(c) \/ Worker(c) \/ WorkerEnds(c)
    BY <1>5, <1>6, <1>7, <1>8, <2>1
  <2> QED BY <1>1, <1>2, <1>4, <1>9, <2>1 DEF BatchStep
<1> QED BY <1>3, <1>9

\* a step is one of the invocation, one of the lane, or none
LEMMA StepsApart ==
  ASSUME [Next]_vars
  PROVE  \/ (BatchStep \/ RunnerDies) /\ UNCHANGED <<lane, job, ledger, extra, pool>>
         \/ LaneStart \/ Choose \/ Launch \/ Return \/ Reconcile \/ ChargeAttempt \/ Close
         \/ \E c \in Cells : CooldownEnds(c) \/ ExtendAttempts(c)
         \/ PoolCools \/ LaneDies \/ LaneExits
         \/ UNCHANGED vars
BY DEF Next, campaignVars

\* fewer cells held, and as many pending
LEMMA FewerHeld ==
  ASSUME NEW j \in JobRec, NEW k \in JobRec, HeldCells(k) \subseteq HeldCells(j),
         k.pending = j.pending, Goes(j)
  PROVE  Goes(k)
<1>1. HeldCells(j) \in SUBSET Cells /\ HeldCells(k) \in SUBSET HeldCells(j)
  BY DEF HeldCells
<1>2. IsFiniteSet(HeldCells(j)) /\ Cardinality(HeldCells(j)) \in Nat
  BY <1>1, CellsFinite
<1>3. IsFiniteSet(HeldCells(k)) /\ Cardinality(HeldCells(k)) <= Cardinality(HeldCells(j))
  BY <1>1, <1>2, FS_Subset
<1>4. Cardinality(HeldCells(k)) \in Nat /\ j.pending \in Nat
  BY <1>3, FS_CardinalityType DEF JobRec
<1> QED BY <1>1, <1>2, <1>3, <1>4 DEF Goes

\* the failures of a cell are counted from the ledger
LEMMA FailuresCounted ==
  ASSUME LaneTyped, NEW c \in Cells
  PROVE  /\ IsFiniteSet({x \in Charged : x.cell = c}) /\ Failures(c) \in Nat
         /\ Failures(c) > 0 <=> \E x \in Charged : x.cell = c
<1>1. IsFiniteSet(Charged)
  <2>1. /\ Len(ledger) \in Nat /\ DOMAIN ledger = 1..Len(ledger)
    BY DEF LaneTyped
  <2> DEFINE f == [i \in 1..Len(ledger) |-> ledger[i]]
  <2>2. f \in Surjection(1..Len(ledger), Charged)
    BY <2>1 DEF Surjection, Charged
  <2>3. ExistsSurjection(1..Len(ledger), Charged)
    BY <2>2 DEF ExistsSurjection
  <2> QED BY <2>1, <2>3, FS_NatSurjection
<1>2. IsFiniteSet({x \in Charged : x.cell = c})
  BY <1>1, FS_Subset
<1>3. Failures(c) \in Nat /\ (Failures(c) = 0 <=> {x \in Charged : x.cell = c} = {})
  BY <1>2, FS_CardinalityType, FS_EmptySet DEF Failures
<1> QED BY <1>2, <1>3

\* a cell that is found to be spent was found so before
LEMMA HoldsOnly ==
  ASSUME Typed, LaneTyped, LaneOk, Sound, HoldsOk, Unblocked, HoldsMove,
         extra' \in [Cells -> 0..MaxExtensions], \A c \in Cells : extra[c] <= extra'[c]
  PROVE  /\ ~Stale => HeldCells(job') \subseteq HeldCells(job)
         /\ Goes(job) /\ ~Stale => Goes(job')
         /\ job.reason = "missing" => job'.reason = "missing" /\ job'.status = job.status
            /\ Goes(job')
         /\ job'.reason \in {job.reason, "none", "exhausted", "held"}
         /\ job.inv = 0 => HeldCells(job') = {} /\ ~job'.waits /\ job'.reason = "none"
<1> USE DEF LaneTyped
<1>0. MaxAttempts \in Nat
  BY CampaignAssumption
<1>1. ASSUME ~Stale PROVE HeldCells(job') \subseteq HeldCells(job)
  <2>1. SUFFICES ASSUME NEW c \in Cells, job'.held[c] # "no" PROVE job.held[c] # "no"
    BY DEF HeldCells
  <2>2. CASE job'.held[c] = "budget" /\ Failures(c) > 0 /\ Failures(c) >= MaxAttempts + extra'[c]
    <3>0. Failures(c) \in Nat
      BY FailuresCounted
    <3>1. Failures(c) \in Nat /\ extra[c] \in Nat /\ extra'[c] \in Nat /\ extra[c] <= extra'[c]
      BY <3>0, CampaignAssumption
    <3>2. Spent(c)
      BY <1>0, <2>2, <3>1 DEF Spent
    <3>3. job.held[c] \in {"repair", "budget"}
      BY <1>1, <3>2 DEF HoldsOk
    <3> QED BY <3>3
  <2>3. CASE \/ job'.held[c] \in {job.held[c], "no"}
             \/ job'.held[c] = "cooldown" /\ job.held[c] # "no"
    BY <2>1, <2>3
  <2> QED BY <2>2, <2>3 DEF HoldsMove
<1>2. Goes(job) /\ ~Stale => Goes(job')
  BY <1>1, FewerHeld DEF HoldsMove
<1>3. job'.reason \in {job.reason, "none", "exhausted", "held"}
  BY DEF HoldsMove
<1>4. ASSUME job.reason = "missing"
      PROVE  job'.reason = "missing" /\ job'.status = job.status /\ Goes(job')
  <2>1. ~Stale /\ Goes(job)
    BY <1>4 DEF Stale, LaneOk, Unblocked
  <2> QED BY <1>2, <1>4, <2>1 DEF HoldsMove
<1>5. ASSUME job.inv = 0 PROVE HeldCells(job') = {} /\ ~job'.waits /\ job'.reason = "none"
  <2>1. HeldCells(job) = {} /\ ~job.waits /\ starts = {} /\ job.reason = "none"
    BY <1>5 DEF LaneOk
  <2>2. Charged = {}
    BY <2>1 DEF Sound
  <2>3. \A c \in Cells : ~(Failures(c) > 0)
    BY <2>2, FailuresCounted
  <2>4. \A c \in Cells : job'.held[c] \in {job.held[c], "no"}
           \/ (job'.held[c] = "cooldown" /\ job.held[c] # "no")
    BY <2>3 DEF HoldsMove
  <2>5. HeldCells(job') = {}
    BY <2>1, <2>4 DEF HeldCells
  <2>6. Goes(job')
    BY <2>5 DEF Goes
  <2> QED BY <2>1, <2>5, <2>6 DEF HoldsMove
<1> QED BY <1>1, <1>2, <1>3, <1>4, <1>5

\* the lane, the invocation and what is alive
LEMMA LaneKept ==
  ASSUME Typed, LaneTyped, PoolOk, StartsOk, SettledOk, BatchOk, LaneOk, Sound, HoldsOk, Unblocked,
         [Next]_vars
  PROVE  LaneOk'
<1> USE DEF Typed, LaneTyped, disk, batchVars
<1>0. summary.inv \in Nat /\ job.inv \in Nat /\ batch.inv \in Nat
  BY DEF SummaryRec, BatchRec, JobRec
<1>1. ASSUME BatchStep \/ RunnerDies, UNCHANGED <<lane, job, ledger, extra, pool>> PROVE LaneOk'
  <2>1. CASE UNCHANGED <<batch, run, journal, starts, summary, settled>>
    <3>1. InPool' = InPool /\ HeldCells(job)' = HeldCells(job) /\ Working' = Working /\ Read' = Read
      BY <1>1, <2>1 DEF InPool, HeldCells, Working, Read, Completed, Interrupted
    <3> QED BY <1>1, <2>1, <3>1 DEF LaneOk
  <2>2. CASE /\ Working /\ summary'.inv <= job.inv
             /\ batch'.at # "off" => batch.at # "off" /\ batch'.inv = batch.inv
             /\ InPool' # {} => summary'.inv = job.inv
    <3>1. /\ job.active \/ job.reason = "missing"
          /\ lane.at \notin {"launch", "charge"} /\ job.inv # 0
      BY <2>2 DEF LaneOk
    <3>2. job' = job /\ lane' = lane
      BY <1>1
    <3> QED BY <2>2, <3>1, <3>2 DEF LaneOk
  <2> QED BY <1>1, <2>1, <2>2, BatchWorks
<1>2. ASSUME UNCHANGED <<batch, run, summary, starts>>, HoldsMove,
             extra' \in [Cells -> 0..MaxExtensions],
             \A c \in Cells : extra[c] <= extra'[c], lane.at = "off", lane'.at \in {"off", "loop"}, lane'.due = {}
      PROVE  LaneOk'
  <2>1. InPool' = InPool /\ Working' = Working
    BY <1>2 DEF InPool, Working
  <2>2. /\ job'.inv = job.inv /\ job'.active = job.active
        /\ job.reason = "access" => job'.reason = "access" /\ job'.status = job.status
    BY <1>2 DEF HoldsMove
  <2>3. /\ job.reason = "missing" => job'.reason = "missing" /\ job'.status = job.status
        /\ job'.reason \in {job.reason, "none", "exhausted", "held"}
        /\ job.inv = 0 => HeldCells(job') = {} /\ ~job'.waits /\ job'.reason = "none"
    BY <1>2, HoldsOnly
  <2>4. HeldCells(job)' = HeldCells(job')
    BY DEF HeldCells
  <2> QED BY <1>2, <2>1, <2>2, <2>3, <2>4 DEF LaneOk
<1>3. CASE LaneStart
  <2>1. HoldsMove /\ UNCHANGED <<batch, run, summary, starts, extra>> /\ lane.at = "off"
           /\ lane' = [at |-> "loop", due |-> {}]
    BY <1>3, LaneStartMoves DEF LaneStart
  <2>2. extra' \in [Cells -> 0..MaxExtensions] /\ \A c \in Cells : extra[c] <= extra'[c]
    BY <2>1
  <2>3. lane'.at = "loop" /\ lane'.due = {}
    BY <2>1
  <2> HIDE DEF LaneTyped, Typed
  <2> QED BY <1>2, <2>1, <2>2, <2>3
<1>4. ASSUME NEW c \in Cells, ExtendAttempts(c) PROVE LaneOk'
  <2>1. HoldsMove /\ extra' \in [Cells -> 0..MaxExtensions]
           /\ \A d \in Cells : extra[d] <= extra'[d]
    BY <1>4, ExtendMoves
  <2>2. UNCHANGED <<batch, run, summary, starts, lane>> /\ lane.at = "off"
    BY <1>4 DEF ExtendAttempts
  <2>3. lane'.at = "off" /\ lane'.due = {}
    BY <2>2 DEF LaneOk
  <2> HIDE DEF LaneTyped, Typed
  <2> QED BY <1>2, <2>1, <2>2, <2>3
<1>5. CASE Choose
  <2>1. /\ UNCHANGED <<batch, run, summary, starts>> /\ ~job.active /\ job.status = "ready"
           /\ lane.at = "loop"
        /\ lane'.at = "launch" /\ lane'.due = lane.due /\ job'.active /\ job'.inv = job.inv + 1
        /\ job'.reason = job.reason /\ job'.status = job.status
    BY <1>5, LaneMoves DEF Choose
  <2>2. ~Working /\ job.reason \notin {"missing", "access"}
    BY <2>1 DEF LaneOk
  <2>3. InPool' = InPool /\ ~Working'
    BY <2>1, <2>2 DEF InPool, Working
  <2> QED BY <1>0, <2>1, <2>2, <2>3 DEF LaneOk, Working
<1>6. CASE Launch
  <2>1. /\ UNCHANGED <<run, summary, starts, job>> /\ lane.at = "launch"
        /\ batch'.at = "boot" /\ batch'.inv = job.inv /\ lane'.at = "wait" /\ lane'.due = lane.due
    BY <1>6, LaneMoves DEF Launch
  <2>2. InPool' = InPool
    BY <2>1 DEF InPool
  <2> QED BY <1>0, <2>1, <2>2 DEF LaneOk
<1>7. ASSUME UNCHANGED <<batch, run, summary, starts, job>>, lane'.at \in {"off", "loop"},
             lane'.due = {} \/ (lane'.due = lane.due /\ lane.at # "charge") PROVE LaneOk'
  <2>1. InPool' = InPool /\ Working' = Working /\ HeldCells(job)' = HeldCells(job)
    BY <1>7 DEF InPool, Working, HeldCells
  <2> QED BY <1>7, <2>1 DEF LaneOk
<1>8. CASE Return \/ LaneDies \/ LaneExits
  BY <1>7, <1>8, LaneMoves DEF Return, LaneDies, LaneExits
<1>9. CASE Reconcile
  <2>1. UNCHANGED <<batch, run, summary, starts>> /\ lane.at = "loop" /\ job.active /\ ~Locked
    BY <1>9 DEF Reconcile
  <2>2. \/ Read /\ lane'.at = "charge" /\ UNCHANGED job
        \/ /\ ~Read /\ ~job'.active /\ job'.status = "attention"
           /\ job'.reason = "missing" /\ job'.inv = job.inv /\ UNCHANGED lane
    BY <1>9, ReconcileMoves
  <2>3. InPool' = InPool /\ Working' = Working
    BY <2>1 DEF InPool, Working
  <2>4. CASE Read /\ lane'.at = "charge" /\ UNCHANGED job
    <3>1. summary.inv = job.inv /\ InPool = {} /\ batch.at # "run"
      BY <2>1, <2>4 DEF Read, Completed, Interrupted, Locked
    <3>2. ~Working
      BY <1>0, <3>1 DEF Working, BatchOk, Dispatched, LaneOk, BatchRec
    <3>3. Read'
      BY <2>1, <2>4 DEF Read, Completed, Interrupted
    <3> QED BY <1>0, <2>1, <2>3, <2>4, <3>1, <3>2, <3>3 DEF LaneOk
  <2>5. CASE /\ ~Read /\ ~job'.active /\ job'.status = "attention"
             /\ job'.reason = "missing" /\ job'.inv = job.inv /\ UNCHANGED lane
    BY <2>1, <2>3, <2>5 DEF LaneOk
  <2> QED BY <2>2, <2>4, <2>5
<1>10. CASE ChargeAttempt
  <2>1. UNCHANGED <<batch, run, summary, starts, job>> /\ lane.at = "charge" /\ lane'.at = "charge"
    BY <1>10, ChargeMoves DEF ChargeAttempt
  <2>2. InPool' = InPool /\ Working' = Working /\ HeldCells(job)' = HeldCells(job) /\ Read' = Read
    BY <2>1 DEF InPool, Working, HeldCells, Read, Completed, Interrupted
  <2> QED BY <2>1, <2>2 DEF LaneOk
<1>11. CASE Close
  <2>1. lane.at = "charge"
    BY <1>11 DEF Close
  <2>2. job.active /\ ~Working /\ job.inv # 0 /\ job.reason \notin {"missing", "access"}
    BY <2>1 DEF LaneOk
  <2>3. /\ lane'.at = "loop" /\ lane'.due = {} /\ ~job'.active /\ job'.inv = job.inv
        /\ job'.reason # "missing" /\ (job'.reason = "access" => job'.status = "attention")
    BY <1>11, <2>2, CloseMoves
  <2>4. UNCHANGED <<batch, run, summary, starts>>
    BY <1>11 DEF Close
  <2>5. InPool' = InPool /\ Working' = Working
    BY <2>4 DEF InPool, Working
  <2> QED BY <2>2, <2>3, <2>4, <2>5 DEF LaneOk
<1>12. ASSUME NEW c \in Cells, CooldownEnds(c) PROVE LaneOk'
  <2>1. UNCHANGED <<batch, run, summary, starts, lane>>
    BY <1>12 DEF CooldownEnds
  <2>2. /\ job'.held[c] = IF job.held[c] = "cooldown" THEN "no" ELSE job.held[c]
        /\ \A d \in Cells \ {c} : job'.held[d] = job.held[d]
        /\ job'.inv = job.inv /\ job'.active = job.active
        /\ job'.status = job.status /\ job'.reason = job.reason
        /\ job'.waits => job.waits
        /\ lane.at = "loop"
    BY <1>12, CooldownMoves
  <2>3. InPool' = InPool /\ Working' = Working /\ HeldCells(job)' \subseteq HeldCells(job)
    BY <2>1, <2>2 DEF InPool, Working, HeldCells
  <2> QED BY <2>1, <2>2, <2>3 DEF LaneOk
<1>13. ASSUME UNCHANGED <<batch, run, summary, starts, job, lane>> PROVE LaneOk'
  <2>1. InPool' = InPool /\ Working' = Working /\ HeldCells(job)' = HeldCells(job) /\ Read' = Read
    BY <1>13 DEF InPool, Working, HeldCells, Read, Completed, Interrupted
  <2> QED BY <1>13, <2>1 DEF LaneOk
<1> HIDE DEF Typed, LaneTyped, batchVars
<1>14. CASE PoolCools \/ UNCHANGED vars
  BY <1>13, <1>14 DEF PoolCools, vars, batchVars, campaignVars
<1> QED
  BY <1>1, <1>3, <1>4, <1>5, <1>6, <1>8, <1>9, <1>10, <1>11, <1>12, <1>14, StepsApart

----------------------------------------------------------------------------
(* The ledger *)
\* the outcome on record is the last of the cell's attempts
LEMMA JournalLast ==
  ASSUME Typed, StartsOk, SettledOk, NEW c \in Cells, journal[c].id # 0
  PROVE  /\ \E s \in starts : s.cell = c /\ s.id = journal[c].id
         /\ \E i \in DOMAIN settled[c] :
              settled[c][i].id = journal[c].id /\ settled[c][i].kind = journal[c].kind
         /\ \A i \in DOMAIN settled[c] :
              settled[c][i].id = journal[c].id => settled[c][i].kind = journal[c].kind
<1>1. settled[c] \in Seq(SettledRec)
  BY DEF Typed
<1>2. settled[c] # <<>> /\ Last(c) = [id |-> journal[c].id, kind |-> journal[c].kind]
  BY DEF SettledOk, OutcomesOk
<1>3. Len(settled[c]) \in DOMAIN settled[c]
  BY <1>1, <1>2
<1>4. settled[c][Len(settled[c])].id = journal[c].id
         /\ settled[c][Len(settled[c])].kind = journal[c].kind
  BY <1>2 DEF Last
<1>5. \E s \in starts : s.id = settled[c][Len(settled[c])].id /\ s.cell = c
  BY <1>3 DEF StartsOk
<1>6. \A i \in DOMAIN settled[c] : settled[c][i].id = journal[c].id => i = Len(settled[c])
  BY <1>3, <1>4 DEF SettledOk, OutcomesOk
<1> QED BY <1>3, <1>4, <1>5, <1>6

\* a recorded attempt counts if it failed at the transport
LEMMA JournalCounts ==
  ASSUME Typed, StartsOk, SettledOk, NEW s \in starts, s.id = journal[s.cell].id
  PROVE  Counts(s) <=> Transport(journal[s.cell].kind)
<1>1. s.cell \in Cells /\ s.id \in Attempts
  BY DEF Typed, StartRec
<1>2. journal[s.cell].id # 0
  BY <1>1 DEF Attempts
<1> QED BY <1>1, <1>2, JournalLast DEF Counts

\* the row that a failed attempt leaves names the attempt
LEMMA FailedHasId ==
  ASSUME SettledOk, NEW c \in Cells, Transport(journal[c].kind)
  PROVE  journal[c].id # 0
BY GivenRows DEF SettledOk, OutcomesOk, Transport

\* an outcome that is recorded takes away from what counts, and no more
LEMMA CountsMove ==
  ASSUME Typed, PoolOk, NEW c \in Cells, Record(c), NEW s \in starts, s.cell \in Cells
  PROVE  /\ Counts(s)' => Counts(s)
         /\ s.cell # c \/ s.id # run[c].id => (Counts(s)' <=> Counts(s))
<1>1. CASE s.cell # c
  <2>1. settled'[s.cell] = settled[s.cell]
    BY ZenonT(30), <1>1, Recorded
  <2> QED BY <1>1, <2>1 DEF Counts
<1>2. CASE s.cell = c /\ run[c].id = 0
  <2>1. settled'[c] = settled[c]
    BY <1>2, Recorded
  <2> QED BY <1>2, <2>1 DEF Counts
<1>3. CASE s.cell = c /\ run[c].id # 0
  <2>1. /\ Len(settled[c]) \in Nat
        /\ DOMAIN settled[c] = 1..Len(settled[c]) /\ DOMAIN settled'[c] = 1..(Len(settled[c]) + 1)
        /\ \A i \in DOMAIN settled[c] : settled'[c][i] = settled[c][i]
        /\ settled'[c][Len(settled[c]) + 1] = [id |-> run[c].id, kind |-> run[c].row.kind]
    BY <1>3, Recorded
  <2>2. ASSUME NEW i \in DOMAIN settled'[c], i \notin DOMAIN settled[c]
        PROVE  settled'[c][i].id = run[c].id
    <3>1. i = Len(settled[c]) + 1
      BY <2>1, <2>2
    <3> QED BY <2>1, <3>1
  <2>3. DOMAIN settled[c] \subseteq DOMAIN settled'[c]
    BY <2>1
  <2>4. Counts(s)' => Counts(s)
    BY <1>3, <2>1, <2>3 DEF Counts
  <2>5. s.id # run[c].id /\ Counts(s) => Counts(s)'
    BY <1>3, <2>1, <2>2 DEF Counts
  <2> QED BY <1>3, <2>4, <2>5
<1> QED BY <1>1, <1>2, <1>3

\* what is due counts, and what counts of an invocation is due
LEMMA DueCounts ==
  ASSUME Typed, LaneTyped, PoolOk, StartsOk, SettledOk, BatchOk, Read, InPool = {}
  PROVE  /\ \A x \in Due : \E s \in starts : ChargeOf(s) = x /\ Counts(s)
         /\ \A s \in starts : s.inv = job.inv /\ Counts(s) => ChargeOf(s) \in Due
<1>1. \A s \in starts : s.cell \in Cells /\ s.id \in Attempts /\ s.id # 0
  BY DEF Typed, StartRec, Attempts
<1>2. ASSUME NEW x \in Due PROVE \E s \in starts : ChargeOf(s) = x /\ Counts(s)
  <2>1. CASE Completed
    <3>1. PICK c \in summary.dispatched : x = [cell |-> c, id |-> journal[c].id]
             /\ Transport(journal[c].kind)
      BY <1>2, <2>1 DEF Due
    <3>2. c \in Cells
      BY DEF Typed, SummaryRec
    <3>3. journal[c].id # 0
      BY <3>1, <3>2, FailedHasId
    <3>4. PICK s \in starts : s.cell = c /\ s.id = journal[c].id
      BY <3>2, <3>3, JournalLast
    <3>5. Counts(s)
      BY <3>1, <3>4, JournalCounts
    <3> QED BY <3>1, <3>4, <3>5 DEF ChargeOf
  <2>2. CASE ~Completed
    <3>1. PICK s \in starts : /\ x = [cell |-> s.cell, id |-> s.id] /\ s.inv = job.inv
                              /\ journal[s.cell].id # s.id \/ Transport(journal[s.cell].kind)
      BY <1>2, <2>2 DEF Due
    <3>2. s.cell \in Cells /\ s.inv = summary.inv
      BY <1>1, <2>2, <3>1 DEF Read, Interrupted
    <3>3. CASE journal[s.cell].id = s.id
      BY <3>1, <3>3, JournalCounts DEF ChargeOf
    <3>4. CASE journal[s.cell].id # s.id
      <4>1. s.id \notin Ids(s.cell)
        BY <3>2, <3>4 DEF SettledOk, OutcomesOk
      <4>2. Counts(s)
        BY <4>1 DEF Counts, Ids
      <4> QED BY <3>1, <4>2 DEF ChargeOf
    <3> QED BY <3>3, <3>4
  <2> QED BY <2>1, <2>2
<1>3. ASSUME NEW s \in starts, s.inv = job.inv, Counts(s) PROVE ChargeOf(s) \in Due
  <2>0. s.inv = summary.inv /\ s.cell \in Cells
    BY <1>1, <1>3 DEF Read, Completed, Interrupted
  <2>1. CASE Completed
    <3>1. s.cell \in summary.dispatched
      BY <2>0 DEF BatchOk, Invoked
    <3>2. s.id = journal[s.cell].id \/ s.id = run[s.cell].id
      BY <2>0, <2>1 DEF BatchOk, Answered, Completed
    <3>3. run[s.cell].id = 0
      BY <2>0 DEF InPool, PoolOk, JobOk
    <3>4. s.id = journal[s.cell].id
      BY <1>1, <3>2, <3>3
    <3>5. Transport(journal[s.cell].kind)
      BY <1>3, <3>4, JournalCounts
    <3> QED BY <2>1, <3>1, <3>4, <3>5 DEF Due, ChargeOf
  <2>2. CASE ~Completed
    <3>1. journal[s.cell].id # s.id \/ Transport(journal[s.cell].kind)
      BY <1>3, JournalCounts
    <3> QED BY <1>3, <2>2, <3>1 DEF Due, ChargeOf
  <2> QED BY <2>1, <2>2
<1> QED BY <1>2, <1>3

\* the number of a new attempt is that of no other
LEMMA FreshNumber ==
  ASSUME Typed, StartsOk, Sound, NEW c \in Cells, NEW n, n = Cardinality(starts) + 1
  PROVE  [cell |-> c, id |-> n] \notin Charged
<1>1. SUFFICES ASSUME [cell |-> c, id |-> n] \in Charged PROVE FALSE
  OBVIOUS
<1>2. PICK s \in starts : ChargeOf(s) = [cell |-> c, id |-> n]
  BY <1>1 DEF Sound
<1>3. s.id = n
  BY <1>2 DEF ChargeOf
<1>4. s.id <= Cardinality(starts) /\ Cardinality(starts) \in Nat
  BY FS_CardinalityType DEF StartsOk
<1> QED BY <1>3, <1>4

\* what is charged stays as it was
LEMMA SoundSame ==
  ASSUME Sound, ledger' = ledger, starts \subseteq starts', lane'.due \subseteq lane.due,
         \A s \in starts : ChargeOf(s) \in Charged \cup lane'.due => (Counts(s) => Counts(s)'),
         \A c \in Cells : run'[c].id # 0 => [cell |-> c, id |-> run'[c].id] \notin Charged
  PROVE  Sound'
<1>1. Charged' = Charged
  BY DEF Charged
<1>2. ASSUME NEW x \in Charged \cup lane'.due PROVE \E s \in starts' : ChargeOf(s) = x /\ Counts(s)'
  <2>1. PICK s \in starts : ChargeOf(s) = x /\ Counts(s)
    BY <1>2 DEF Sound
  <2> QED BY <1>2, <2>1
<1> QED BY <1>1, <1>2 DEF Sound, ChargeOf

\* what is charged counts, and is charged once
LEMMA SoundKept ==
  ASSUME Typed, LaneTyped, PoolOk, StartsOk, SettledOk, BatchOk, LaneOk, Sound,
    [Next]_vars
  PROVE  Sound'
<1> USE DEF disk, batchVars, campaignVars
<1>1. ASSUME NEW c \in Cells, Submit(c), UNCHANGED campaignVars PROVE Sound'
  <2>1. UNCHANGED <<ledger, starts, settled, lane>>
    BY <1>1 DEF Submit
  <2>2. \A d \in Cells : run'[d].id \in {0, run[d].id}
    BY <1>1, IdsKept
  <2>3. \A s \in starts : Counts(s)' = Counts(s)
    BY <2>1 DEF Counts
  <2>4. \A d \in Cells : run'[d].id # 0 => [cell |-> d, id |-> run'[d].id] \notin Charged
    BY <2>2 DEF Sound
  <2> QED BY <2>1, <2>3, <2>4, SoundSame
<1>2. ASSUME NEW c \in Cells, Record(c), UNCHANGED campaignVars PROVE Sound'
  <2>1. UNCHANGED <<ledger, starts, lane>>
    BY <1>2 DEF Record
  <2>2. \A d \in Cells : run'[d].id \in {0, run[d].id}
    BY <1>2, IdsKept
  <2>3. lane.due = {}
    <3>1. c \in InPool
      BY <1>2, PoolMoves
    <3> QED BY <3>1 DEF LaneOk, Working
  <2>4. ASSUME NEW s \in starts, ChargeOf(s) \in Charged PROVE Counts(s) => Counts(s)'
    <3>0. s.cell \in Cells /\ s.id # 0
      BY DEF Typed, StartRec, Attempts
    <3>1. s.cell # c \/ s.id # run[c].id
      BY <2>4, <3>0 DEF Sound, ChargeOf
    <3>2. Record(c) => (s.cell # c \/ s.id # run[c].id => (Counts(s)' <=> Counts(s)))
      BY <3>0, CountsMove
    <3> QED BY <1>2, <3>1, <3>2
  <2>5. \A d \in Cells : run'[d].id # 0 => [cell |-> d, id |-> run'[d].id] \notin Charged
    BY <2>2 DEF Sound
  <2> QED BY <2>1, <2>3, <2>4, <2>5, SoundSame
<1>3. ASSUME NEW c \in Cells, Start(c), UNCHANGED campaignVars PROVE Sound'
  <2>0. IsFiniteSet(starts)
    BY DEF StartsOk
  <2>1. UNCHANGED <<ledger, settled, lane>>
    BY <1>3 DEF Start
  <2>2. /\ Alone(c) /\ run[c].id = 0 /\ starts \subseteq starts'
        /\ run'[c].id \in {0, Cardinality(starts) + 1}
    BY ZenonT(30), <1>3, <2>0, StartMoves DEF PoolOk, JobOk, Typed
  <2>3. \A s \in starts : Counts(s)' = Counts(s)
    BY <2>1 DEF Counts
  <2>4. \A d \in Cells : run'[d].id # 0 => [cell |-> d, id |-> run'[d].id] \notin Charged
    <3>1. run'[c].id # 0 => [cell |-> c, id |-> run'[c].id] \notin Charged
      BY <2>2, FreshNumber
    <3> QED BY <2>2, <3>1 DEF Sound, Alone
  <2> QED BY <2>1, <2>2, <2>3, <2>4, SoundSame
<1>4. ASSUME NEW c \in Cells, Bind(c), UNCHANGED campaignVars PROVE Sound'
  <2>1. UNCHANGED <<ledger, starts, settled, lane>>
    BY <1>4 DEF Bind
  <2>2. \A d \in Cells : run'[d].id \in {0, run[d].id}
    BY <1>4, IdsKept
  <2>3. \A s \in starts : Counts(s)' = Counts(s)
    BY <2>1 DEF Counts
  <2>4. \A d \in Cells : run'[d].id # 0 => [cell |-> d, id |-> run'[d].id] \notin Charged
    BY <2>2 DEF Sound
  <2> QED BY <2>1, <2>3, <2>4, SoundSame
<1>5. ASSUME NEW c \in Cells, MoveAside(c), UNCHANGED campaignVars PROVE Sound'
  <2>1. UNCHANGED <<ledger, starts, settled, lane>>
    BY <1>5 DEF MoveAside
  <2>2. \A d \in Cells : run'[d].id \in {0, run[d].id}
    BY <1>5, IdsKept
  <2>3. \A s \in starts : Counts(s)' = Counts(s)
    BY <2>1 DEF Counts
  <2>4. \A d \in Cells : run'[d].id # 0 => [cell |-> d, id |-> run'[d].id] \notin Charged
    BY <2>2 DEF Sound
  <2> QED BY <2>1, <2>3, <2>4, SoundSame
<1>6. ASSUME NEW c \in Cells, Replay(c), UNCHANGED campaignVars PROVE Sound'
  <2>1. UNCHANGED <<ledger, starts, settled, lane>>
    BY <1>6 DEF Replay
  <2>2. \A d \in Cells : run'[d].id \in {0, run[d].id}
    BY <1>6, IdsKept
  <2>3. \A s \in starts : Counts(s)' = Counts(s)
    BY <2>1 DEF Counts
  <2>4. \A d \in Cells : run'[d].id # 0 => [cell |-> d, id |-> run'[d].id] \notin Charged
    BY <2>2 DEF Sound
  <2> QED BY <2>1, <2>3, <2>4, SoundSame
<1>7. ASSUME NEW c \in Cells, Request(c), UNCHANGED campaignVars PROVE Sound'
  <2>1. UNCHANGED <<ledger, starts, settled, lane>>
    BY <1>7 DEF Request
  <2>2. \A d \in Cells : run'[d].id \in {0, run[d].id}
    BY <1>7, IdsKept
  <2>3. \A s \in starts : Counts(s)' = Counts(s)
    BY <2>1 DEF Counts
  <2>4. \A d \in Cells : run'[d].id # 0 => [cell |-> d, id |-> run'[d].id] \notin Charged
    BY <2>2 DEF Sound
  <2> QED BY <2>1, <2>3, <2>4, SoundSame
<1>8. ASSUME NEW c \in Cells, Commit(c), UNCHANGED campaignVars PROVE Sound'
  <2>1. UNCHANGED <<ledger, starts, settled, lane>>
    BY <1>8 DEF Commit
  <2>2. \A d \in Cells : run'[d].id \in {0, run[d].id}
    BY <1>8, IdsKept
  <2>3. \A s \in starts : Counts(s)' = Counts(s)
    BY <2>1 DEF Counts
  <2>4. \A d \in Cells : run'[d].id # 0 => [cell |-> d, id |-> run'[d].id] \notin Charged
    BY <2>2 DEF Sound
  <2> QED BY <2>1, <2>3, <2>4, SoundSame
<1>9. ASSUME NEW c \in Cells, Finish(c), UNCHANGED campaignVars PROVE Sound'
  <2>1. UNCHANGED <<ledger, starts, settled, lane>>
    BY <1>9 DEF Finish
  <2>2. \A d \in Cells : run'[d].id \in {0, run[d].id}
    BY <1>9, IdsKept
  <2>3. \A s \in starts : Counts(s)' = Counts(s)
    BY <2>1 DEF Counts
  <2>4. \A d \in Cells : run'[d].id # 0 => [cell |-> d, id |-> run'[d].id] \notin Charged
    BY <2>2 DEF Sound
  <2> QED BY <2>1, <2>3, <2>4, SoundSame
<1>10. ASSUME NEW c \in Cells, Supervise(c), UNCHANGED campaignVars PROVE Sound'
  <2>1. UNCHANGED <<ledger, starts, settled, lane>>
    BY <1>10 DEF Supervise
  <2>2. \A d \in Cells : run'[d].id \in {0, run[d].id}
    BY <1>10, IdsKept
  <2>3. \A s \in starts : Counts(s)' = Counts(s)
    BY <2>1 DEF Counts
  <2>4. \A d \in Cells : run'[d].id # 0 => [cell |-> d, id |-> run'[d].id] \notin Charged
    BY <2>2 DEF Sound
  <2> QED BY <2>1, <2>3, <2>4, SoundSame
<1>11. ASSUME NEW c \in Cells, WorkerEnds(c), UNCHANGED campaignVars PROVE Sound'
  <2>1. UNCHANGED <<ledger, starts, settled, lane>>
    BY <1>11 DEF WorkerEnds
  <2>2. \A d \in Cells : run'[d].id \in {0, run[d].id}
    BY <1>11, IdsKept
  <2>3. \A s \in starts : Counts(s)' = Counts(s)
    BY <2>1 DEF Counts
  <2>4. \A d \in Cells : run'[d].id # 0 => [cell |-> d, id |-> run'[d].id] \notin Charged
    BY <2>2 DEF Sound
  <2> QED BY <2>1, <2>3, <2>4, SoundSame
<1>12. CASE LaneStart
  <2>1. UNCHANGED <<ledger, starts, settled, run>> /\ lane'.due \subseteq lane.due
    BY <1>12, LaneMoves DEF LaneStart
  <2>2. \A s \in starts : Counts(s)' = Counts(s)
    BY <2>1 DEF Counts
  <2>3. \A d \in Cells : run'[d].id # 0 => [cell |-> d, id |-> run'[d].id] \notin Charged
    BY <2>1 DEF Sound
  <2> QED BY <2>1, <2>2, <2>3, SoundSame
<1>13. CASE Choose
  <2>1. UNCHANGED <<ledger, starts, settled, run>> /\ lane'.due \subseteq lane.due
    BY <1>13, LaneMoves DEF Choose
  <2>2. \A s \in starts : Counts(s)' = Counts(s)
    BY <2>1 DEF Counts
  <2>3. \A d \in Cells : run'[d].id # 0 => [cell |-> d, id |-> run'[d].id] \notin Charged
    BY <2>1 DEF Sound
  <2> QED BY <2>1, <2>2, <2>3, SoundSame
<1>14. CASE Launch
  <2>1. UNCHANGED <<ledger, starts, settled, run>> /\ lane'.due \subseteq lane.due
    BY <1>14, LaneMoves DEF Launch
  <2>2. \A s \in starts : Counts(s)' = Counts(s)
    BY <2>1 DEF Counts
  <2>3. \A d \in Cells : run'[d].id # 0 => [cell |-> d, id |-> run'[d].id] \notin Charged
    BY <2>1 DEF Sound
  <2> QED BY <2>1, <2>2, <2>3, SoundSame
<1>15. CASE Return
  <2>1. UNCHANGED <<ledger, starts, settled, run>> /\ lane'.due \subseteq lane.due
    BY <1>15, LaneMoves DEF Return
  <2>2. \A s \in starts : Counts(s)' = Counts(s)
    BY <2>1 DEF Counts
  <2>3. \A d \in Cells : run'[d].id # 0 => [cell |-> d, id |-> run'[d].id] \notin Charged
    BY <2>1 DEF Sound
  <2> QED BY <2>1, <2>2, <2>3, SoundSame
<1>16. CASE Reconcile
  <2>1. /\ UNCHANGED <<ledger, starts, settled, run>> /\ ~Locked
        /\ (Read /\ lane'.due = Due) \/ lane' = lane
    BY <1>16, ReconcileMoves DEF Reconcile
  <2>2. \A s \in starts : Counts(s)' = Counts(s)
    BY <2>1 DEF Counts
  <2>3. \A d \in Cells : run'[d].id # 0 => [cell |-> d, id |-> run'[d].id] \notin Charged
    BY <2>1 DEF Sound
  <2>4. CASE lane' = lane
    BY <2>1, <2>2, <2>3, <2>4, SoundSame
  <2>5. CASE Read /\ lane'.due = Due
    <3>1. InPool = {} /\ Charged' = Charged
      BY <2>1 DEF Locked, Charged
    <3>2. \A x \in Due : \E s \in starts : ChargeOf(s) = x /\ Counts(s)
      BY <2>5, <3>1, DueCounts
    <3>3. \A x \in Charged' \cup lane'.due : \E s \in starts : ChargeOf(s) = x /\ Counts(s)'
      <4>1. SUFFICES ASSUME NEW x \in Charged \cup Due
                     PROVE  \E s \in starts : ChargeOf(s) = x /\ Counts(s)'
        BY <2>5, <3>1
      <4>2. \E s \in starts : ChargeOf(s) = x /\ Counts(s)
        BY <3>2 DEF Sound
      <4> QED BY <2>2, <4>2
    <3> QED BY <2>1, <2>3, <3>1, <3>3 DEF Sound, ChargeOf
  <2> QED BY <2>1, <2>4, <2>5
<1>17. CASE ChargeAttempt
  <2>1. UNCHANGED <<starts, settled, run>>
    BY <1>17 DEF ChargeAttempt
  <2>2. PICK x \in lane.due : lane'.due = lane.due \ {x} /\ Charged' = Charged \cup {x}
    BY <1>17, ChargeMoves
  <2>3. \A i, j \in DOMAIN ledger' : ledger'[i] = ledger'[j] => i = j
    BY <1>17, ChargeMoves DEF Sound
  <2>4. lane.at = "charge"
    BY <1>17, ChargeMoves
  <2>5. \A d \in Cells : run'[d].id = 0
    <3>1. InPool = {}
      BY <2>4 DEF LaneOk, Working
    <3> QED BY <2>1, <3>1 DEF InPool, PoolOk, JobOk
  <2>6. \A s \in starts : Counts(s)' = Counts(s)
    BY <2>1 DEF Counts
  <2>7. ASSUME NEW y \in Charged' \cup lane'.due
        PROVE  \E s \in starts' : ChargeOf(s) = y /\ Counts(s)'
    <3>1. y \in Charged \cup lane.due
      BY <2>2
    <3>2. \E s \in starts : ChargeOf(s) = y /\ Counts(s)
      BY <3>1 DEF Sound
    <3> QED BY <2>1, <2>6, <3>2
  <2> QED BY <2>3, <2>5, <2>7 DEF Sound, ChargeOf
<1>18. CASE Close
  <2>0. job.reason \notin {"missing", "access"}
    BY <1>18 DEF Close, LaneOk
  <2>1. UNCHANGED <<ledger, starts, settled, run>> /\ lane'.due \subseteq lane.due
    BY <1>18, <2>0, CloseMoves DEF Close, LaneOk
  <2>2. \A s \in starts : Counts(s)' = Counts(s)
    BY <2>1 DEF Counts
  <2>3. \A d \in Cells : run'[d].id # 0 => [cell |-> d, id |-> run'[d].id] \notin Charged
    BY <2>1 DEF Sound
  <2> QED BY <2>1, <2>2, <2>3, SoundSame
<1>19. CASE LaneDies
  <2>1. UNCHANGED <<ledger, starts, settled, run>> /\ lane'.due \subseteq lane.due
    BY <1>19, LaneMoves DEF LaneDies
  <2>2. \A s \in starts : Counts(s)' = Counts(s)
    BY <2>1 DEF Counts
  <2>3. \A d \in Cells : run'[d].id # 0 => [cell |-> d, id |-> run'[d].id] \notin Charged
    BY <2>1 DEF Sound
  <2> QED BY <2>1, <2>2, <2>3, SoundSame
<1>20. CASE LaneExits
  <2>1. UNCHANGED <<ledger, starts, settled, run>> /\ lane'.due \subseteq lane.due
    BY <1>20, LaneMoves DEF LaneExits
  <2>2. \A s \in starts : Counts(s)' = Counts(s)
    BY <2>1 DEF Counts
  <2>3. \A d \in Cells : run'[d].id # 0 => [cell |-> d, id |-> run'[d].id] \notin Charged
    BY <2>1 DEF Sound
  <2> QED BY <2>1, <2>2, <2>3, SoundSame
<1>21. CASE UNCHANGED <<ledger, lane, starts, settled, run>>
  <2>1. UNCHANGED <<ledger, starts, settled, run>> /\ lane'.due \subseteq lane.due
    BY <1>21
  <2>2. \A s \in starts : Counts(s)' = Counts(s)
    BY <2>1 DEF Counts
  <2>3. \A d \in Cells : run'[d].id # 0 => [cell |-> d, id |-> run'[d].id] \notin Charged
    BY <2>1 DEF Sound
  <2> QED BY <2>1, <2>2, <2>3, SoundSame
<1> QED
  BY ZenonT(30), <1>1, <1>2, <1>3, <1>4, <1>5, <1>6, <1>7, <1>8, <1>9, <1>10, <1>11, <1>12,
    <1>13, <1>14, <1>15, <1>16, <1>17, <1>18, <1>19, <1>20, <1>21 DEF Next,
    BatchStep, Worker, vars, campaignVars, Boot, Complete, QuotaResets, RunnerDies,
    PoolCools, CooldownEnds, ExtendAttempts

\* what the steps of an invocation leave of what counts
LEMMA CountsLater ==
  ASSUME Typed, LaneTyped, PoolOk, StartsOk, BatchOk, LaneOk, BatchStep \/ RunnerDies
  PROVE  /\ \A s \in starts : Counts(s)' => Counts(s)
         /\ \A s \in starts' \ starts : s.inv = job.inv /\ Working
<1> USE DEF disk, batchVars
<1> DEFINE Goal == /\ \A s \in starts : Counts(s)' => Counts(s)
                   /\ \A s \in starts' \ starts : s.inv = job.inv /\ Working
<1>1. ASSUME UNCHANGED <<starts, settled>> PROVE Goal
  BY <1>1 DEF Counts
<1>2. ASSUME NEW c \in Cells, Record(c) PROVE Goal
  <2>1. \A s \in starts : s.cell \in Cells
    BY DEF Typed, StartRec
  <2>2. \A s \in starts : Record(c) => (Counts(s)' => Counts(s))
    BY <2>1, CountsMove
  <2>3. starts' = starts
    BY <1>2 DEF Record
  <2> QED BY <1>2, <2>2, <2>3
<1>3. ASSUME NEW c \in Cells, Start(c) PROVE Goal
  <2>1. IsFiniteSet(starts)
    BY DEF StartsOk
  <2>2. \A s \in starts' \ starts : s.inv = summary.inv
    <3>1. \/ UNCHANGED starts
          \/ \E id \in Attempts : starts' = starts \cup {[id |-> id, cell |-> c, inv |-> summary.inv]}
      BY <1>3, <2>1, StartMoves DEF Typed
    <3> QED BY <3>1
  <2>3. c \in InPool
    BY <1>3 DEF Start, InPool
  <2>4. UNCHANGED settled
    BY <1>3 DEF Start
  <2>5. summary.inv = job.inv /\ Working
    BY <2>3 DEF LaneOk, Working
  <2> QED BY <2>2, <2>4, <2>5 DEF Counts
<1>4. CASE RunnerDies \/ Boot \/ Complete \/ QuotaResets
  BY ZenonT(30), <1>1, <1>4 DEF RunnerDies, Boot, Complete, QuotaResets
<1>5. ASSUME NEW c \in Cells, Submit(c) \/ WorkerEnds(c) PROVE Goal
  BY <1>1, <1>5 DEF Submit, WorkerEnds
<1>6. ASSUME NEW c \in Cells, Bind(c) \/ MoveAside(c) \/ Replay(c) \/ Request(c) \/ Commit(c)
                \/ Finish(c) \/ Supervise(c)
      PROVE  Goal
  BY <1>1, <1>6 DEF Bind, MoveAside, Replay, Request, Commit, Finish, Supervise
<1> HIDE DEF disk, batchVars
<1>7. CASE BatchStep
  <2>1. CASE \E c \in Cells : Submit(c) \/ Record(c) \/ Worker(c) \/ WorkerEnds(c)
    BY <1>2, <1>3, <1>5, <1>6, <2>1 DEF Worker
  <2> QED BY <1>4, <1>7, <2>1 DEF BatchStep
<1> QED BY <1>4, <1>7

\* what counts is charged, or belongs to the last invocation
LEMMA FullKept ==
  ASSUME Typed, LaneTyped, PoolOk, StartsOk, SettledOk, BatchOk, LaneOk, Sound, HoldsOk, Unblocked,
         Full, [Next]_vars
  PROVE  Full'
<1>1. ASSUME BatchStep \/ RunnerDies, UNCHANGED <<lane, job, ledger, extra, pool>> PROVE Full'
  <2>1. SUFFICES ASSUME NEW s \in starts', Counts(s)'
                 PROVE  \/ ChargeOf(s) \in Charged
                        \/ s.inv = job.inv /\ job.active
                           /\ (lane.at = "charge" => ChargeOf(s) \in lane.due)
                        \/ s.inv = job.inv /\ job.reason = "missing"
    BY <1>1 DEF Full, Charged, ChargeOf
  <2>2. CASE s \in starts
    <3>1. Counts(s)
      BY <1>1, <2>1, <2>2, CountsLater
    <3> QED BY <2>2, <3>1 DEF Full
  <2>3. CASE s \notin starts
    <3>1. s.inv = job.inv /\ Working
      BY <1>1, <2>1, <2>3, CountsLater
    <3> QED BY <3>1 DEF LaneOk
  <2> QED BY <2>2, <2>3
<1>2. ASSUME UNCHANGED <<starts, settled, ledger>>, job'.inv = job.inv, job'.active = job.active,
             job.reason = "missing" => job'.reason = "missing",
             lane'.at = "charge" => lane.at = "charge" /\ lane.due \subseteq lane'.due
      PROVE  Full'
  <2>1. Charged' = Charged /\ \A s \in starts : Counts(s)' = Counts(s)
    BY <1>2 DEF Charged, Counts
  <2> QED BY <1>2, <2>1 DEF Full, ChargeOf
<1>3. CASE LaneStart
  <2>1. HoldsMove /\ UNCHANGED <<starts, settled, ledger, extra>>
           /\ lane' = [at |-> "loop", due |-> {}]
    BY <1>3, LaneStartMoves DEF LaneStart, disk, batchVars
  <2>2. extra' \in [Cells -> 0..MaxExtensions] /\ \A c \in Cells : extra[c] <= extra'[c]
    BY <2>1 DEF LaneTyped
  <2>3. job.reason = "missing" => job'.reason = "missing"
    BY <2>1, <2>2, HoldsOnly
  <2> QED BY <1>2, <2>1, <2>3 DEF HoldsMove
<1>4. ASSUME NEW c \in Cells, ExtendAttempts(c) PROVE Full'
  <2>1. HoldsMove /\ extra' \in [Cells -> 0..MaxExtensions]
           /\ \A d \in Cells : extra[d] <= extra'[d]
    BY <1>4, ExtendMoves
  <2>2. UNCHANGED <<starts, settled, ledger, lane>>
    BY <1>4 DEF ExtendAttempts, disk, batchVars
  <2>3. job.reason = "missing" => job'.reason = "missing"
    BY <2>1, HoldsOnly
  <2> QED BY <1>2, <2>1, <2>2, <2>3 DEF HoldsMove
<1>5. ASSUME UNCHANGED <<starts, settled, ledger>>, \A s \in starts : Counts(s)
                => ChargeOf(s) \in Charged
      PROVE  Full'
  <2>1. Charged' = Charged /\ \A s \in starts : Counts(s)' = Counts(s)
    BY <1>5 DEF Charged, Counts
  <2> QED BY <1>5, <2>1 DEF Full, ChargeOf
<1>6. CASE Choose
  <2>1. UNCHANGED <<starts, settled, ledger>> /\ ~job.active /\ job.status = "ready"
    BY <1>6 DEF Choose, disk, batchVars
  <2>2. job.reason # "missing"
    BY <2>1 DEF LaneOk
  <2> QED BY <1>5, <2>1, <2>2 DEF Full
<1>7. CASE Launch \/ Return \/ LaneDies \/ LaneExits
  BY <1>2, <1>7, LaneMoves DEF Launch, Return, LaneDies, LaneExits, disk, batchVars
<1>8. CASE Reconcile
  <2>1. UNCHANGED <<starts, settled, ledger, summary, run>> /\ job.active /\ ~Locked
    BY <1>8 DEF Reconcile, disk, batchVars
  <2>2. \/ Read /\ lane'.at = "charge" /\ lane'.due = Due /\ UNCHANGED job
        \/ job'.reason = "missing" /\ job'.inv = job.inv /\ UNCHANGED lane
    BY <1>8, ReconcileMoves
  <2>3. Charged' = Charged /\ \A s \in starts : Counts(s)' = Counts(s)
    BY <2>1 DEF Charged, Counts
  <2>4. \A s \in starts : Counts(s) => ChargeOf(s) \in Charged \/ s.inv = job.inv
    BY DEF Full
  <2>5. CASE Read /\ lane'.at = "charge" /\ lane'.due = Due /\ UNCHANGED job
    <3>1. InPool = {}
      BY <2>1 DEF Locked
    <3>2. \A s \in starts : s.inv = job.inv /\ Counts(s) => ChargeOf(s) \in Due
      BY <2>5, <3>1, DueCounts
    <3> QED BY <2>1, <2>3, <2>4, <2>5, <3>2 DEF Full, ChargeOf
  <2>6. CASE job'.reason = "missing" /\ job'.inv = job.inv /\ UNCHANGED lane
    BY <2>1, <2>3, <2>4, <2>6 DEF Full, ChargeOf
  <2> QED BY <2>2, <2>5, <2>6
<1>9. CASE ChargeAttempt
  <2>1. UNCHANGED <<starts, settled, job>> /\ lane.at = "charge"
    BY <1>9 DEF ChargeAttempt, disk, batchVars
  <2>2. PICK x \in lane.due : lane'.due = lane.due \ {x} /\ Charged' = Charged \cup {x}
    BY <1>9, ChargeMoves
  <2>3. \A s \in starts : Counts(s)' = Counts(s)
    BY <2>1 DEF Counts
  <2>4. ASSUME NEW s \in starts, Counts(s)
        PROVE  \/ ChargeOf(s) \in Charged \cup {x}
               \/ s.inv = job.inv /\ job.active /\ ChargeOf(s) \in lane.due \ {x}
               \/ s.inv = job.inv /\ job.reason = "missing"
    BY <2>1, <2>4 DEF Full
  <2> QED BY <2>1, <2>2, <2>3, <2>4 DEF Full, ChargeOf
<1>10. CASE Close
  <2>1. UNCHANGED <<starts, settled, ledger>> /\ lane.at = "charge" /\ lane.due = {}
    BY <1>10 DEF Close, disk, batchVars
  <2>2. job.reason # "missing"
    BY <2>1 DEF LaneOk
  <2> QED BY <1>5, <2>1, <2>2 DEF Full
<1>11. ASSUME NEW c \in Cells, CooldownEnds(c) PROVE Full'
  <2>1. UNCHANGED <<starts, settled, ledger, lane>>
    BY <1>11 DEF CooldownEnds, disk, batchVars
  <2>2. job'.inv = job.inv /\ job'.active = job.active /\ job'.reason = job.reason
    BY <1>11, CooldownMoves
  <2> QED BY <1>2, <2>1, <2>2
<1>12. CASE PoolCools \/ UNCHANGED vars
  BY <1>2, <1>12 DEF PoolCools, vars, disk, batchVars, campaignVars
<1> QED
  BY <1>1, <1>3, <1>4, <1>6, <1>7, <1>8, <1>9, <1>10, <1>11, <1>12, StepsApart

----------------------------------------------------------------------------
(* The budget *)
\* the charges of a cell are those of starts that count
LEMMA FailuresBounded ==
  ASSUME Typed, LaneTyped, StartsOk, Sound, NEW c \in Cells
  PROVE  /\ IsFiniteSet(Counted(c)) /\ Cardinality(Counted(c)) \in Nat
         /\ Failures(c) <= Cardinality(Counted(c))
<1> DEFINE X == {x \in Charged : x.cell = c}
           f == [x \in X |-> CHOOSE s \in starts : ChargeOf(s) = x /\ Counts(s)]
<1>1. IsFiniteSet(Counted(c))
  BY FS_Subset DEF Counted, StartsOk
<1>2. ASSUME NEW x \in X
      PROVE  f[x] \in starts /\ ChargeOf(f[x]) = x /\ Counts(f[x])
  <2>1. \E s \in starts : ChargeOf(s) = x /\ Counts(s)
    BY DEF Sound
  <2> QED BY <2>1
<1> HIDE DEF f
<1>3. \A x \in X : f[x] \in Counted(c)
  BY <1>2 DEF Counted, ChargeOf
<1>4. \A x, y \in X : f[x] = f[y] => x = y
  BY <1>2
<1>5. f = [x \in X |-> f[x]]
  BY DEF f
<1>6. f \in Injection(X, Counted(c))
  BY <1>3, <1>4, <1>5 DEF Injection, IsInjective
<1>7. Cardinality(X) <= Cardinality(Counted(c))
  BY <1>1, <1>6, FS_Injection
<1> QED BY <1>1, <1>7, FS_CardinalityType DEF Failures

\* and all of them, once what counts is charged
LEMMA CountedBounded ==
  ASSUME Typed, LaneTyped, StartsOk, Sound, NEW c \in Cells,
         \A s \in Counted(c) : ChargeOf(s) \in Charged
  PROVE  Cardinality(Counted(c)) <= Failures(c)
<1> DEFINE X == {x \in Charged : x.cell = c}
           g == [s \in Counted(c) |-> ChargeOf(s)]
<1>1. IsFiniteSet(X)
  BY FailuresCounted
<1>2. \A s \in Counted(c) : g[s] \in X
  BY ZenonT(30) DEF ChargeOf, Counted
<1>3. \A s, t \in Counted(c) : g[s] = g[t] => s = t
  <2>1. SUFFICES ASSUME NEW s \in Counted(c), NEW t \in Counted(c), ChargeOf(s) = ChargeOf(t)
                 PROVE  s = t
    OBVIOUS
  <2>2. s.id = t.id /\ s \in starts /\ t \in starts
    BY <2>1 DEF ChargeOf, Counted
  <2> QED BY <2>2 DEF StartsOk
<1>4. g \in Injection(Counted(c), X)
  BY <1>2, <1>3 DEF Injection, IsInjective
<1> QED BY <1>1, <1>4, FS_Injection DEF Failures

\* a cell with nothing to do has not spent its budget
LEMMA SpentIsTodo ==
  ASSUME Typed, LaneTyped, StartsOk, Sound, Room, NEW c \in Cells, Spent(c)
  PROVE  c \in Todo
<1>1. Failures(c) \in Nat /\ Failures(c) <= Cardinality(Counted(c))
         /\ Cardinality(Counted(c)) \in Nat
  BY FailuresBounded, FailuresCounted
<1>2. MaxAttempts \in Nat /\ extra[c] \in Nat
  BY CampaignAssumption DEF LaneTyped
<1>3. ~(Cardinality(Counted(c)) < MaxAttempts + extra[c])
  BY <1>1, <1>2 DEF Spent
<1> QED BY <1>3 DEF Room

\* holds that nothing else bears on
LEMMA HoldsSame ==
  ASSUME HoldsOk, UNCHANGED <<batch, run, journal, ledger, extra, job, summary>>
  PROVE  HoldsOk'
<1>1. HeldCells(job)' = HeldCells(job) /\ Todo' = Todo /\ InPool' = InPool /\ Stale' = Stale
  BY DEF HeldCells, Todo, InPool, Stale, Working, Read, Completed, Interrupted
<1>2. \A c \in Cells : Spent(c)' = Spent(c)
  BY DEF Spent, Failures, Charged
<1> QED BY <1>1, <1>2 DEF HoldsOk

\* what of the holds the steps of an invocation keep
LEMMA HoldsInBatch ==
  ASSUME Typed, LaneTyped, PoolOk, StartsOk, BatchOk, LaneOk, HoldsOk, BatchStep \/ RunnerDies
  PROVE  /\ HeldCells(job) \subseteq Todo'
         /\ batch'.at = "boot" => HeldCells(job) \subseteq batch'.held
         /\ batch'.at = "run" => batch'.todo \cap HeldCells(job) = {}
         /\ InPool' \cap HeldCells(job) = {}
<1> USE DEF disk, batchVars
<1> DEFINE Goal == /\ HeldCells(job) \subseteq Todo'
                   /\ batch'.at = "boot" => HeldCells(job) \subseteq batch'.held
                   /\ batch'.at = "run" => batch'.todo \cap HeldCells(job) = {}
                   /\ InPool' \cap HeldCells(job) = {}
<1>1. ASSUME InPool' \subseteq InPool, Todo \subseteq Todo',
             batch' = batch \/ batch'.at = "off"
      PROVE  Goal
  BY <1>1 DEF HoldsOk
<1>2. CASE Boot
  <2>1. PICK jobs \in {Pending \ batch.held} \cup {{c} : c \in Pending \ batch.held} :
           batch' = [batch EXCEPT !.at = "run", !.todo = jobs]
    BY ZenonT(30), <1>2 DEF Boot
  <2>2. batch'.at = "run" /\ batch'.todo = jobs
    BY <2>1 DEF Typed, BatchRec
  <2>3. jobs \cap batch.held = {} /\ batch.at = "boot" /\ UNCHANGED <<run, journal>>
    BY <1>2 DEF Boot
  <2>4. Todo' = Todo /\ InPool' = InPool
    BY <2>3 DEF Todo, InPool
  <2> QED BY <2>2, <2>3, <2>4 DEF HoldsOk
<1>3. ASSUME NEW c \in Cells, Submit(c) PROVE Goal
  <2>1. batch.at = "run" /\ c \in batch.todo /\ batch'.at = "run" /\ batch'.todo = batch.todo \ {c}
    BY <1>3, SubmitMoves DEF Typed
  <2>2. Todo' = Todo /\ InPool' \subseteq InPool \cup {c}
    BY <1>3, TodoMoves, PoolMoves
  <2> QED BY <2>1, <2>2 DEF HoldsOk
<1>4. ASSUME NEW c \in Cells, Record(c) PROVE Goal
  <2>1. batch'.at = "run" /\ batch'.todo = batch.todo /\ batch.at = "run"
    BY <1>4, Recorded
  <2>2. Todo \ {c} \subseteq Todo' /\ InPool' = InPool \ {c} /\ c \in InPool
    BY <1>4, TodoMoves, PoolMoves
  <2> QED BY <2>1, <2>2 DEF HoldsOk
<1>5. ASSUME NEW c \in Cells, Worker(c) \/ WorkerEnds(c) PROVE Goal
  <2>1. InPool' \subseteq InPool
    BY <1>5, PoolMoves
  <2>2. UNCHANGED <<batch, journal>>
    BY <1>5 DEF WorkerEnds, Worker, Start, Bind, MoveAside, Replay, Request, Commit, Finish,
       Supervise
  <2>3. Todo' = Todo
    BY <2>2 DEF Todo
  <2> QED BY <1>1, <2>1, <2>2, <2>3
<1>6. CASE Complete \/ RunnerDies \/ QuotaResets
  <2>1. UNCHANGED <<run, journal>> /\ (batch' = batch \/ batch'.at = "off")
    BY <1>6 DEF Complete, RunnerDies, QuotaResets, NotRunning
  <2>2. InPool' = InPool /\ Todo' = Todo
    BY <2>1 DEF InPool, Todo
  <2> QED BY <1>1, <2>1, <2>2
<1> HIDE DEF disk, batchVars
<1>7. CASE BatchStep
  <2>1. CASE \E c \in Cells : Submit(c) \/ Record(c) \/ Worker(c) \/ WorkerEnds(c)
    BY <1>3, <1>4, <1>5, <2>1
  <2> QED BY <1>2, <1>6, <1>7, <2>1 DEF BatchStep
<1> QED BY <1>6, <1>7

\* the holds
LEMMA HoldsKept ==
  ASSUME Typed, LaneTyped, PoolOk, StartsOk, SettledOk, BatchOk, EvidenceFound, LaneOk, Sound, Room,
         HoldsOk, Unblocked, [Next]_vars
  PROVE  HoldsOk'
<1>1. ASSUME BatchStep \/ RunnerDies, UNCHANGED <<lane, job, ledger, extra, pool>> PROVE HoldsOk'
  <2>1. /\ HeldCells(job)' = HeldCells(job)
        /\ \A c \in Cells : Spent(c)' = Spent(c) /\ job'.held[c] = job.held[c]
    BY <1>1 DEF HeldCells, Spent, Failures, Charged
  <2>2. ~Stale' => ~Stale
    <3>1. CASE UNCHANGED <<batch, run, journal, starts, summary, settled>>
      BY <1>1, <3>1 DEF Stale, Read, Completed, Interrupted, Working, InPool
    <3>2. CASE Working
      BY <1>1, <3>2 DEF Stale
    <3> QED BY <1>1, <3>1, <3>2, BatchWorks
  <2> QED BY <1>1, <2>1, <2>2, HoldsInBatch DEF HoldsOk
<1>2. ASSUME UNCHANGED <<batch, run, journal, starts, settled, ledger, summary>>, HoldsMove,
             extra' \in [Cells -> 0..MaxExtensions], \A c \in Cells : extra[c] <= extra'[c]
      PROVE  HoldsOk'
  <2>1. Todo' = Todo /\ InPool' = InPool /\ HeldCells(job)' = HeldCells(job')
    BY <1>2 DEF Todo, InPool, HeldCells
  <2>2. \A c \in Cells : Failures(c)' = Failures(c)
    BY <1>2 DEF Failures, Charged
  <2>3. \A c \in Cells : Spent(c)' /\ job'.held[c] # "repair" => job'.held[c] = "budget"
    BY <1>2, <2>2 DEF HoldsMove, Spent
  <2>4. HeldCells(job') \subseteq Todo
    <3>1. SUFFICES ASSUME NEW c \in Cells, job'.held[c] # "no" PROVE c \in Todo
      BY DEF HeldCells
    <3>2. CASE job'.held[c] = "budget" /\ Failures(c) > 0 /\ Failures(c) >= MaxAttempts + extra'[c]
      <4>0. Failures(c) \in Nat
        BY FailuresCounted
      <4>1. extra[c] \in Nat /\ extra'[c] \in Nat /\ MaxAttempts \in Nat /\ extra[c] <= extra'[c]
        BY <1>2, CampaignAssumption DEF LaneTyped
      <4>2. Spent(c)
        BY <3>2, <4>0, <4>1 DEF Spent
      <4> QED BY <4>2, SpentIsTodo
    <3>3. CASE job.held[c] # "no"
      BY <3>3 DEF HoldsOk, HeldCells
    <3> QED BY <1>2, <3>1, <3>2, <3>3 DEF HoldsMove
  <2>5. ASSUME Working PROVE HeldCells(job') \subseteq HeldCells(job)
    <3>1. ~Stale
      BY <2>5 DEF Stale, LaneOk
    <3> QED BY <1>2, <3>1, HoldsOnly
  <2>6. /\ batch'.at = "boot" => HeldCells(job') \subseteq batch'.held
        /\ batch'.at = "run" => batch'.todo \cap HeldCells(job') = {}
        /\ InPool' \cap HeldCells(job') = {}
    BY <1>2, <2>1, <2>5 DEF Working, HoldsOk
  <2> QED BY <2>1, <2>3, <2>4, <2>6 DEF HoldsOk
<1>3. CASE LaneStart
  <2>1. HoldsMove /\ UNCHANGED <<batch, run, journal, starts, settled, ledger, summary, extra>>
    BY <1>3, LaneStartMoves DEF LaneStart, disk, batchVars
  <2>2. extra' \in [Cells -> 0..MaxExtensions] /\ \A c \in Cells : extra[c] <= extra'[c]
    BY <2>1 DEF LaneTyped
  <2> QED BY <1>2, <2>1, <2>2
<1>4. ASSUME NEW c \in Cells, ExtendAttempts(c) PROVE HoldsOk'
  <2>1. HoldsMove /\ extra' \in [Cells -> 0..MaxExtensions]
           /\ \A d \in Cells : extra[d] <= extra'[d]
    BY <1>4, ExtendMoves
  <2>2. UNCHANGED <<batch, run, journal, starts, settled, ledger, summary>>
    BY <1>4 DEF ExtendAttempts, disk, batchVars
  <2> QED BY <1>2, <2>1, <2>2
<1>5. ASSUME UNCHANGED <<batch, run, journal, ledger, extra, summary>>, job'.held = job.held, ~Stale
      PROVE  HoldsOk'
  <2>1. HeldCells(job)' = HeldCells(job) /\ Todo' = Todo /\ InPool' = InPool
    BY <1>5 DEF HeldCells, Todo, InPool
  <2>2. \A c \in Cells : Spent(c)' = Spent(c)
    BY <1>5 DEF Spent, Failures, Charged
  <2> QED BY <1>5, <2>1, <2>2 DEF HoldsOk
<1>6. CASE Choose
  <2>1. UNCHANGED <<batch, run, journal, ledger, extra, summary>> /\ ~job.active
           /\ job.status = "ready"
    BY <1>6 DEF Choose, disk, batchVars
  <2>2. ~Stale /\ job'.held = job.held
    BY <1>6, <2>1, LaneMoves DEF Stale, LaneOk
  <2> QED BY <1>5, <2>1, <2>2
<1>7. CASE Launch
  <2>1. UNCHANGED <<run, journal, ledger, extra, summary, job>> /\ lane.at = "launch"
    BY <1>7 DEF Launch, disk
  <2>2. batch'.at = "boot" /\ batch'.held = HeldCells(job)
    BY <1>7, LaneMoves
  <2>3. ~Stale /\ InPool = {}
    <3>1. job.active /\ ~Working /\ summary.inv < job.inv
      BY <2>1 DEF LaneOk
    <3>2. summary.inv # job.inv
      BY <3>1 DEF Typed, LaneTyped, SummaryRec, JobRec
    <3> QED BY <3>1, <3>2 DEF LaneOk, Stale, Read, Completed, Interrupted, Working
  <2>4. HeldCells(job)' = HeldCells(job) /\ Todo' = Todo /\ InPool' = InPool
    BY <2>1 DEF HeldCells, Todo, InPool
  <2>5. \A c \in Cells : Spent(c)' = Spent(c)
    BY <2>1 DEF Spent, Failures, Charged
  <2> QED BY <2>1, <2>2, <2>3, <2>4, <2>5 DEF HoldsOk
<1>8. CASE Return \/ LaneDies \/ LaneExits \/ PoolCools \/ UNCHANGED vars
  BY <1>8, HoldsSame DEF Return, LaneDies, LaneExits, PoolCools, vars, disk, batchVars, campaignVars
<1>9. CASE Reconcile
  <2>1. UNCHANGED <<batch, run, journal, ledger, extra, summary>> /\ job.active
    BY <1>9 DEF Reconcile, disk, batchVars
  <2>2. UNCHANGED job \/ (~Read /\ job'.held = job.held)
    BY <1>9, ReconcileMoves
  <2>3. ~Read => ~Stale
    BY <2>1 DEF Stale, LaneOk
  <2> QED BY <1>5, <2>1, <2>2, <2>3, HoldsSame
<1>10. CASE ChargeAttempt
  <2>1. UNCHANGED <<batch, run, journal, extra, summary, job>> /\ lane.at = "charge"
    BY <1>10 DEF ChargeAttempt, disk, batchVars
  <2>2. HeldCells(job)' = HeldCells(job) /\ Todo' = Todo /\ InPool' = InPool /\ Stale' = Stale
    BY <2>1 DEF HeldCells, Todo, InPool, Stale, Working, Read, Completed, Interrupted
  <2>3. Stale
    BY <2>1 DEF LaneOk, Stale
  <2> QED BY <2>1, <2>2, <2>3 DEF HoldsOk
<1>11. CASE Close
  <2>1. UNCHANGED <<batch, run, journal, ledger, extra, summary>> /\ lane.at = "charge"
    BY <1>11 DEF Close, disk, batchVars
  <2>2. ~Working /\ job.reason \notin {"missing", "access"}
    BY <2>1 DEF LaneOk
  <2>3. /\ \A c \in Cells :
              \/ job'.held[c] = job.held[c]
              \/ job'.held[c] = "budget" /\ Spent(c)
              \/ job'.held[c] = "cooldown" /\ journal[c].kind = "transport"
              \/ job'.held[c] = "repair" /\ (NeedsRepair(journal[c].kind) \/ ~Evident(c))
        /\ job'.reason # "access" => \A c \in Cells :
              Spent(c) /\ job'.held[c] # "repair" => job'.held[c] = "budget"
    BY <1>11, <2>2, CloseMoves DEF Spent
  <2>4. HeldCells(job)' = HeldCells(job') /\ Todo' = Todo /\ InPool' = InPool /\ InPool = {}
           /\ batch'.at = "off"
    BY <2>1, <2>2 DEF HeldCells, Todo, InPool, Working
  <2>5. \A c \in Cells : Spent(c)' = Spent(c)
    BY <2>1 DEF Spent, Failures, Charged
  <2>6. HeldCells(job') \subseteq Todo
    <3>1. SUFFICES ASSUME NEW c \in Cells, job'.held[c] # "no" PROVE c \in Todo
      BY DEF HeldCells
    <3>2. CASE job'.held[c] = job.held[c]
      BY <3>1, <3>2 DEF HoldsOk, HeldCells
    <3>3. CASE Spent(c)
      BY <3>3, SpentIsTodo
    <3>4. CASE journal[c].kind = "transport" \/ NeedsRepair(journal[c].kind)
      BY <3>4 DEF Todo, Retryable
    <3> QED BY <2>3, <3>2, <3>3, <3>4 DEF EvidenceFound
  <2> QED BY <2>3, <2>4, <2>5, <2>6 DEF HoldsOk, Stale
<1>12. ASSUME NEW c \in Cells, CooldownEnds(c) PROVE HoldsOk'
  <2>1. UNCHANGED <<batch, run, journal, ledger, extra, summary>>
    BY <1>12 DEF CooldownEnds, disk, batchVars
  <2>2. /\ job'.held[c] = IF job.held[c] = "cooldown" THEN "no" ELSE job.held[c]
        /\ \A d \in Cells \ {c} : job'.held[d] = job.held[d]
        /\ job'.inv = job.inv /\ job'.active = job.active /\ job'.reason = job.reason
    BY <1>12, CooldownMoves
  <2>3. Todo' = Todo /\ InPool' = InPool /\ Stale' = Stale
           /\ HeldCells(job)' \subseteq HeldCells(job)
    BY <2>1, <2>2 DEF Todo, InPool, Stale, Working, Read, Completed, Interrupted, HeldCells
  <2>4. \A d \in Cells : Spent(d)' = Spent(d)
    BY <2>1 DEF Spent, Failures, Charged
  <2>5. ~Stale => \A d \in Cells : Spent(d) /\ job'.held[d] # "repair" => job'.held[d] = "budget"
    BY <2>2 DEF HoldsOk
  <2> QED BY <2>1, <2>3, <2>4, <2>5 DEF HoldsOk
<1> QED
  BY <1>1, <1>3, <1>4, <1>6, <1>7, <1>8, <1>9, <1>10, <1>11, <1>12, StepsApart

\* the number of what counts
LEMMA CountedTyped ==
  ASSUME Typed, LaneTyped, StartsOk, NEW c \in Cells
  PROVE  /\ IsFiniteSet(Counted(c)) /\ Cardinality(Counted(c)) \in Nat
         /\ MaxAttempts \in Nat /\ extra[c] \in Nat
<1>1. IsFiniteSet(Counted(c))
  BY FS_Subset DEF Counted, StartsOk
<1> QED BY <1>1, FS_CardinalityType, CampaignAssumption DEF LaneTyped

\* room that no start and no outcome takes
LEMMA RoomSame ==
  ASSUME Room, Typed, LaneTyped, StartsOk, UNCHANGED <<starts, settled>>, Todo \subseteq Todo',
         \A c \in Cells : run'[c].at = "queued" =>
           run[c].at = "queued" \/ (batch.at = "run" /\ c \in batch.todo),
         batch'.at = "run" => batch.at = "run" /\ batch'.todo \subseteq batch.todo,
         extra' \in [Cells -> 0..MaxExtensions], \A c \in Cells : extra[c] <= extra'[c]
  PROVE  Room'
<1>1. \A c \in Cells : Counted(c)' = Counted(c)
  BY DEF Counted, Counts
<1>2. SUFFICES ASSUME NEW c \in Cells
               PROVE  /\ (c \notin Todo' \/ run'[c].at = "queued" \/ (batch'.at = "run" /\ c \in batch'.todo))
                           => Cardinality(Counted(c)) < MaxAttempts + extra'[c]
                      /\ Cardinality(Counted(c)) <= MaxAttempts + extra'[c]
  BY <1>1 DEF Room
<1>3. /\ Cardinality(Counted(c)) \in Nat /\ MaxAttempts \in Nat /\ extra[c] \in Nat
      /\ extra'[c] \in Nat /\ extra[c] <= extra'[c]
  BY CountedTyped, CampaignAssumption
<1>4. (c \notin Todo' \/ run'[c].at = "queued" \/ (batch'.at = "run" /\ c \in batch'.todo))
        => (c \notin Todo \/ run[c].at = "queued" \/ (batch.at = "run" /\ c \in batch.todo))
  OBVIOUS
<1> QED BY <1>3, <1>4 DEF Room

\* a cell that was not held when its invocation began has an attempt left
LEMMA RoomToBoot ==
  ASSUME Typed, LaneTyped, StartsOk, BatchOk, LaneOk, Sound, Full, HoldsOk, batch.at = "boot",
         NEW c \in Cells, c \notin batch.held
  PROVE  Cardinality(Counted(c)) < MaxAttempts + extra[c]
<1>1. summary.inv < job.inv /\ job.held[c] = "no" /\ ~Stale
  <2>1. Working
    BY DEF Working
  <2>2. c \notin HeldCells(job) /\ summary.inv < batch.inv /\ batch.inv = job.inv
    BY DEF HoldsOk, BatchOk, Dispatched, LaneOk
  <2> QED BY <2>1, <2>2 DEF LaneOk, Stale, HeldCells
<1>2. ~Spent(c)
  BY <1>1 DEF HoldsOk
<1>3. ASSUME NEW s \in Counted(c) PROVE ChargeOf(s) \in Charged
  <2>1. s \in starts /\ Counts(s)
    BY DEF Counted
  <2>2. s.inv <= summary.inv /\ s.inv \in Nat /\ summary.inv \in Nat /\ job.inv \in Nat
    BY <2>1 DEF StartsOk, Typed, StartRec, SummaryRec, LaneTyped, JobRec
  <2>3. s.inv # job.inv
    BY <1>1, <2>2
  <2> QED BY <2>1, <2>3 DEF Full
<1>4. Cardinality(Counted(c)) <= Failures(c)
  BY <1>3, CountedBounded
<1>5. Failures(c) \in Nat
  BY FailuresCounted
<1>6. MaxAttempts > 0
  BY CampaignAssumption
<1> QED BY <1>2, <1>4, <1>5, <1>6, CountedTyped DEF Spent

\* a start takes one attempt, from a cell that is to be started
LEMMA RoomToStart ==
  ASSUME Typed, LaneTyped, PoolOk, StartsOk, BatchOk, Room, NEW c \in Cells, Start(c),
         UNCHANGED extra
  PROVE  Room'
<1> USE DEF disk, batchVars
<1>0. IsFiniteSet(starts)
  BY DEF StartsOk
<1>1. /\ UNCHANGED <<batch, journal, settled>> /\ run[c].at = "queued" /\ c \in InPool
  BY DEF Start, InPool
<1>2. /\ Alone(c) /\ run'[c].at # "queued"
      /\ \/ UNCHANGED starts
         \/ \E id \in Attempts : starts' = starts \cup {[id |-> id, cell |-> c, inv |-> summary.inv]}
  BY <1>0, StartMoves DEF Typed
<1>3. c \in Todo /\ Todo' = Todo /\ ~(batch.at = "run" /\ c \in batch.todo)
  BY <1>1 DEF BatchOk, Dispatched, Todo
<1>4. ASSUME NEW d \in Cells, d # c PROVE Counted(d)' = Counted(d)
  BY <1>1, <1>2, <1>4 DEF Counted, Counts
<1>5. \E t : Counted(c)' \subseteq Counted(c) \cup {t}
  BY <1>1, <1>2 DEF Counted, Counts
<1>6. Cardinality(Counted(c)') <= Cardinality(Counted(c)) + 1
  <2>1. PICK t : Counted(c)' \subseteq Counted(c) \cup {t}
    BY <1>5
  <2>2. IsFiniteSet(Counted(c)) /\ Cardinality(Counted(c)) \in Nat
    BY CountedTyped
  <2>3. IsFiniteSet(Counted(c) \cup {t})
           /\ Cardinality(Counted(c) \cup {t}) <= Cardinality(Counted(c)) + 1
    <3>1. Cardinality(Counted(c) \cup {t})
            = IF t \in Counted(c) THEN Cardinality(Counted(c)) ELSE Cardinality(Counted(c)) + 1
      BY <2>2, FS_AddElement
    <3> QED BY <2>2, <3>1, FS_AddElement
  <2>4. Cardinality(Counted(c)') <= Cardinality(Counted(c) \cup {t}) /\ IsFiniteSet(Counted(c)')
    BY <2>1, <2>3, FS_Subset
  <2>5. Cardinality(Counted(c)') \in Nat /\ Cardinality(Counted(c) \cup {t}) \in Nat
    BY <2>3, <2>4, FS_CardinalityType
  <2> QED BY <2>2, <2>3, <2>4, <2>5
<1>7. Cardinality(Counted(c)') \in Nat
  <2>1. PICK t : Counted(c)' \subseteq Counted(c) \cup {t}
    BY <1>5
  <2> QED BY <2>1, CountedTyped, FS_AddElement, FS_Subset, FS_CardinalityType
<1>8. Cardinality(Counted(c)) < MaxAttempts + extra[c]
  BY <1>1 DEF Room
<1>9. Cardinality(Counted(c)') <= MaxAttempts + extra'[c]
  BY <1>6, <1>7, <1>8, CountedTyped
<1> QED BY <1>1, <1>2, <1>3, <1>4, <1>9 DEF Room, Alone

\* an outcome that is final takes back what its attempt counted
LEMMA RoomToRecord ==
  ASSUME Typed, LaneTyped, PoolOk, StartsOk, SettledOk, BatchOk, Room, NEW c \in Cells, Record(c),
         UNCHANGED extra
  PROVE  Room'
<1>1. /\ UNCHANGED starts /\ run[c].at = "done" /\ c \in InPool /\ Alone(c) /\ run'[c].at = "no"
      /\ batch'.at = batch.at /\ batch'.todo = batch.todo
      /\ \A d \in Cells \ {c} : journal'[d] = journal[d]
      /\ journal'[c] = run[c].row
  BY ZenonT(30), Recorded, PoolMoves DEF Record
<1>2. c \notin batch.todo
  BY <1>1 DEF BatchOk, Dispatched
<1>3. \A s \in starts : s.cell \in Cells
  BY DEF Typed, StartRec
<1>4. \A s \in starts : /\ Counts(s)' => Counts(s)
                        /\ s.cell # c => (Counts(s)' <=> Counts(s))
  BY <1>3, CountsMove
<1>5. ASSUME NEW d \in Cells, d # c PROVE Counted(d)' = Counted(d)
  BY <1>1, <1>4, <1>5 DEF Counted
<1>6. Counted(c)' \subseteq Counted(c)
  BY <1>1, <1>4 DEF Counted
<1>7. /\ IsFiniteSet(Counted(c)) /\ Cardinality(Counted(c)) \in Nat
         /\ Cardinality(Counted(c)') \in Nat
      /\ Cardinality(Counted(c)') <= Cardinality(Counted(c)) /\ MaxAttempts \in Nat
         /\ extra[c] \in Nat
  BY <1>6, CountedTyped, FS_Subset, FS_CardinalityType
<1>8. Cardinality(Counted(c)) <= MaxAttempts + extra[c]
  BY DEF Room
<1>9. ASSUME c \notin Todo' PROVE Cardinality(Counted(c)') < MaxAttempts + extra'[c]
  <2>1. ~Retryable(run[c].row.kind) /\ ~NeedsRepair(run[c].row.kind)
    BY <1>1, <1>9 DEF Todo
  <2>2. run[c].id # 0
    <3>1. run[c].id = 0 => journal'[c] = Parked
      BY Recorded
    <3> QED BY <1>1, <2>1, <3>1, GivenRows DEF Retryable
  <2>3. PICK t \in starts : t.id = run[c].id /\ t.cell = c
    <3>1. [id |-> run[c].id, cell |-> c, inv |-> summary.inv] \in starts
      BY <2>2 DEF StartsOk
    <3> QED BY <3>1
  <2>4. t \in Counted(c)
    <3>1. run[c].id \notin Ids(c)
      BY DEF SettledOk, OutcomesOk
    <3> QED BY <2>3, <3>1 DEF Counted, Counts, Ids
  <2>5. t \notin Counted(c)'
    <3>1. /\ Len(settled[c]) \in Nat /\ DOMAIN settled'[c] = 1..(Len(settled[c]) + 1)
          /\ settled'[c][Len(settled[c]) + 1] = [id |-> run[c].id, kind |-> run[c].row.kind]
      BY <2>2, Recorded
    <3>2. Len(settled[c]) + 1 \in DOMAIN settled'[c]
      BY <3>1
    <3>3. ~Transport(run[c].row.kind)
      BY <2>1 DEF Transport, Retryable
    <3>4. ~Counts(t)'
      BY <2>3, <3>1, <3>2, <3>3 DEF Counts
    <3> QED BY <3>4 DEF Counted
  <2>6. Counted(c)' \subseteq Counted(c) \ {t}
    BY <1>6, <2>5
  <2>7. IsFiniteSet(Counted(c) \ {t}) /\ Cardinality(Counted(c) \ {t}) = Cardinality(Counted(c)) - 1
    BY <1>7, <2>4, FS_RemoveElement
  <2>8. Cardinality(Counted(c)') <= Cardinality(Counted(c)) - 1
    BY <2>6, <2>7, FS_Subset
  <2> QED BY <1>7, <1>8, <2>8
<1>10. \A d \in Cells \ {c} : (d \notin Todo' <=> d \notin Todo) /\ run'[d] = run[d]
  BY <1>1 DEF Todo, Alone
<1>11. ASSUME NEW d \in Cells
       PROVE  /\ (d \notin Todo' \/ run'[d].at = "queued" \/ (batch'.at = "run" /\ d \in batch'.todo))
                    => Cardinality(Counted(d)') < MaxAttempts + extra'[d]
              /\ Cardinality(Counted(d)') <= MaxAttempts + extra'[d]
  <2>1. CASE d = c
    BY <1>1, <1>2, <1>7, <1>8, <1>9, <2>1
  <2>2. CASE d # c
    BY <1>1, <1>5, <1>10, <2>2 DEF Room
  <2> QED BY <2>1, <2>2
<1> QED BY <1>11 DEF Room

\* a worker that has started is not to be started
LEMMA QueuedKept ==
  ASSUME Typed, PoolOk, NEW c \in Cells, NEW d \in Cells, run'[d].at = "queued",
         \/ Bind(c) \/ MoveAside(c) \/ Replay(c) \/ Request(c) \/ Commit(c) \/ Finish(c)
            \/ Supervise(c)
         \/ WorkerEnds(c)
  PROVE  run[d].at = "queued"
<1>1. \A k \in Kinds : Ends(c, k) => run[d].at = "queued"
  BY DEF Ends
<1>2. CASE Bind(c) \/ MoveAside(c) \/ Replay(c)
  BY <1>2, PrepareMoves DEF Alone, Typed
<1>3. CASE Request(c)
  <2>1. run[c].total = run[c].ok
    BY <1>3 DEF Request, PoolOk, JobOk
  <2> QED BY <1>1, <1>3, <2>1, RequestMoves DEF Typed
<1>4. CASE Commit(c)
  <2>1. run[c].ok < Boundaries
    BY <1>4 DEF Commit, PoolOk, JobOk
  <2> QED BY <1>4, <2>1, CommitMoves DEF Alone, Typed
<1>5. CASE Finish(c) \/ Supervise(c)
  BY <1>1, <1>5, FinishEnds, SuperviseEnds DEF Typed
<1>6. CASE WorkerEnds(c)
  <2>1. run' = [run EXCEPT ![c] = Idle]
    BY <1>6 DEF WorkerEnds
  <2> QED BY <2>1, LeaveMoves DEF Typed, Alone
<1> QED BY <1>2, <1>3, <1>4, <1>5, <1>6

\* the room that is left
LEMMA RoomKept ==
  ASSUME Typed, LaneTyped, PoolOk, StartsOk, SettledOk, BatchOk, LaneOk, Sound, Full, HoldsOk, Room,
         [Next]_vars
  PROVE  Room'
<1>0. UNCHANGED extra => extra' \in [Cells -> 0..MaxExtensions]
         /\ \A c \in Cells : extra[c] <= extra'[c]
  BY CampaignAssumption DEF LaneTyped
<1>1. ASSUME BatchStep \/ RunnerDies, UNCHANGED <<lane, job, ledger, extra, pool>> PROVE Room'
  <2>1. CASE Boot
    <3>1. PICK jobs \in {Pending \ batch.held} \cup {{c} : c \in Pending \ batch.held} :
             batch' = [batch EXCEPT !.at = "run", !.todo = jobs]
      BY ZenonT(30), <2>1 DEF Boot
    <3>2. batch'.at = "run" /\ batch'.todo = jobs
      BY <3>1 DEF Typed, BatchRec
    <3>3. /\ jobs \cap batch.held = {} /\ batch.at = "boot"
          /\ UNCHANGED <<run, journal, starts, settled>>
      BY <2>1 DEF Boot
    <3>4. Todo' = Todo /\ \A c \in Cells : Counted(c)' = Counted(c)
      BY <3>3 DEF Todo, Counted, Counts
    <3>5. \A c \in Cells : c \in jobs => Cardinality(Counted(c)) < MaxAttempts + extra[c]
      BY <3>3, RoomToBoot
    <3> QED BY <1>1, <3>2, <3>3, <3>4, <3>5 DEF Room
  <2>2. ASSUME NEW c \in Cells, Submit(c) PROVE Room'
    <3>1. UNCHANGED <<starts, settled>>
      BY <2>2 DEF Submit
    <3>2. /\ batch.at = "run" /\ c \in batch.todo /\ batch'.todo = batch.todo \ {c}
          /\ UNCHANGED run \/ Alone(c)
      BY <2>2, SubmitMoves DEF Typed
    <3>3. Todo' = Todo
      BY <2>2, TodoMoves
    <3>4. \A d \in Cells : run'[d].at = "queued" =>
             run[d].at = "queued" \/ (batch.at = "run" /\ d \in batch.todo)
      BY <3>2 DEF Alone
    <3> QED BY <1>0, <1>1, <3>1, <3>2, <3>3, <3>4, RoomSame
  <2>3. ASSUME NEW c \in Cells, Start(c) PROVE Room'
    BY <1>1, <2>3, RoomToStart
  <2>4. ASSUME NEW c \in Cells, Record(c) PROVE Room'
    BY <1>1, <2>4, RoomToRecord
  <2>5. ASSUME NEW c \in Cells,
               \/ Bind(c) \/ MoveAside(c) \/ Replay(c) \/ Request(c) \/ Commit(c) \/ Finish(c)
                  \/ Supervise(c)
               \/ WorkerEnds(c)
        PROVE  Room'
    <3>1. UNCHANGED <<batch, journal, starts, settled>>
      BY <2>5 DEF Bind, MoveAside, Replay, Request, Commit, Finish, Supervise, WorkerEnds, disk
    <3>2. Todo' = Todo
      BY <3>1 DEF Todo
    <3>3. \A d \in Cells : run'[d].at = "queued" => run[d].at = "queued"
      BY <2>5, QueuedKept
    <3> QED BY <1>0, <1>1, <3>1, <3>2, <3>3, RoomSame
  <2>6. CASE Complete \/ RunnerDies \/ QuotaResets
    <3>1. UNCHANGED <<run, journal, starts, settled>> /\ (batch' = batch \/ batch'.at = "off")
      BY <2>6 DEF Complete, RunnerDies, QuotaResets, NotRunning, disk
    <3>2. Todo' = Todo
      BY <3>1 DEF Todo
    <3> QED BY <1>0, <1>1, <3>1, <3>2, RoomSame
  <2>7. CASE \E c \in Cells : Submit(c) \/ Record(c) \/ Worker(c) \/ WorkerEnds(c)
    BY <2>2, <2>3, <2>4, <2>5, <2>7 DEF Worker
  <2> QED BY <1>1, <2>1, <2>6, <2>7 DEF BatchStep
<1>2. ASSUME UNCHANGED <<run, journal, starts, settled>>, UNCHANGED batch \/ batch'.at = "boot",
             extra' \in [Cells -> 0..MaxExtensions], \A c \in Cells : extra[c] <= extra'[c]
      PROVE  Room'
  <2>1. Todo' = Todo
    BY <1>2 DEF Todo
  <2> QED BY <1>2, <2>1, RoomSame
<1>3. ASSUME NEW c \in Cells, ExtendAttempts(c) PROVE Room'
  <2>1. UNCHANGED <<batch, run, journal, starts, settled>>
    BY <1>3 DEF ExtendAttempts, disk, batchVars
  <2> QED BY <1>2, <1>3, <2>1, ExtendMoves
<1>4. CASE \/ LaneStart \/ Choose \/ Return \/ Reconcile \/ ChargeAttempt \/ Close
           \/ \E c \in Cells : CooldownEnds(c)
           \/ PoolCools \/ LaneDies \/ LaneExits \/ UNCHANGED vars
  <2>1. UNCHANGED <<batch, run, journal, starts, settled, extra>>
    BY <1>4 DEF LaneStart, Choose, Return, Reconcile, ChargeAttempt, Close, CooldownEnds, PoolCools,
         LaneDies, LaneExits, vars, disk, batchVars, campaignVars
  <2> QED BY <1>0, <1>2, <2>1
<1>5. CASE Launch
  <2>1. UNCHANGED <<run, journal, starts, settled, extra>> /\ batch'.at = "boot"
    BY <1>5, LaneMoves DEF Launch, disk
  <2> QED BY <1>0, <1>2, <2>1
<1> QED BY <1>1, <1>3, <1>4, <1>5, StepsApart

\* a job that may go on has a cell that is not held
LEMMA UnblockedKept ==
  ASSUME Typed, LaneTyped, PoolOk, StartsOk, SettledOk, BatchOk, LaneOk, Sound, HoldsOk, Unblocked,
         [Next]_vars
  PROVE  Unblocked'
<1>0. Goes(job)' <=> Goes(job')
  BY DEF Goes, HeldCells
<1>1. ASSUME BatchStep \/ RunnerDies, UNCHANGED <<lane, job, ledger, extra, pool>> PROVE Unblocked'
  <2>1. CASE UNCHANGED <<batch, run, journal, starts, summary, settled>>
    <3>1. Todo' = Todo /\ Working' = Working /\ Read' = Read /\ Goes(job') = Goes(job)
      BY <1>1, <2>1 DEF Todo, Working, InPool, Read, Completed, Interrupted
    <3> QED BY <1>0, <1>1, <3>1 DEF Unblocked
  <2>2. CASE Working
    <3>1. job.active \/ job.reason = "missing"
      BY <2>2 DEF LaneOk
    <3> QED BY <1>0, <1>1, <2>2, <3>1 DEF Unblocked
  <2> QED BY <1>1, <2>1, <2>2, BatchWorks
<1>2. ASSUME UNCHANGED <<batch, run, journal, summary>>, HoldsMove,
             extra' \in [Cells -> 0..MaxExtensions], \A c \in Cells : extra[c] <= extra'[c]
      PROVE  Unblocked'
  <2>1. job'.inv = job.inv /\ job'.active = job.active /\ job'.pending = job.pending
    BY <1>2 DEF HoldsMove
  <2>2. Todo' = Todo /\ Working' = Working /\ Read' = Read
    BY <1>2, <2>1 DEF Todo, Working, InPool, Read, Completed, Interrupted
  <2>3. /\ Goes(job) /\ ~Stale => Goes(job')
        /\ job.reason = "missing" => job'.reason = "missing" /\ Goes(job')
        /\ job'.reason \in {job.reason, "none", "exhausted", "held"}
    BY <1>2, HoldsOnly
  <2>4. ~job'.active /\ job'.status = "ready" /\ ~job'.waits => Goes(job')
    BY <1>2 DEF HoldsMove, LaneOk
  <2>5. job.active /\ (~Read \/ Working) => Goes(job')
    BY <2>3 DEF Unblocked, Stale, LaneOk
  <2> QED BY <1>0, <2>1, <2>2, <2>3, <2>4, <2>5 DEF Unblocked
<1>3. CASE LaneStart
  <2>1. HoldsMove /\ UNCHANGED <<batch, run, journal, summary, extra>>
    BY <1>3, LaneStartMoves DEF LaneStart, disk, batchVars
  <2>2. extra' \in [Cells -> 0..MaxExtensions] /\ \A c \in Cells : extra[c] <= extra'[c]
    BY <2>1, CampaignAssumption DEF LaneTyped
  <2> QED BY <1>2, <2>1, <2>2
<1>4. ASSUME NEW c \in Cells, ExtendAttempts(c) PROVE Unblocked'
  <2>1. UNCHANGED <<batch, run, journal, summary>>
    BY <1>4 DEF ExtendAttempts, disk, batchVars
  <2> QED BY <1>2, <1>4, <2>1, ExtendMoves
<1>5. CASE Choose
  <2>1. ~job.active /\ job.status = "ready" /\ ~job.waits
    BY <1>5 DEF Choose
  <2>2. /\ job' \in JobRec /\ job'.active /\ job'.held = job.held /\ job'.pending = job.pending
        /\ job'.reason = job.reason
    BY <1>5, LaneMoves
  <2>3. Goes(job) /\ Goes(job')
    BY <2>1, <2>2 DEF Unblocked, Goes, HeldCells
  <2> QED BY <1>0, <2>2, <2>3 DEF Unblocked
<1>6. CASE Launch
  <2>1. UNCHANGED <<run, journal, summary, job>> /\ lane.at = "launch"
    BY <1>6 DEF Launch, disk
  <2>2. job.active /\ ~Read
    <3>1. job.active /\ summary.inv < job.inv
      BY <2>1 DEF LaneOk
    <3>2. summary.inv # job.inv
      BY <3>1 DEF Typed, LaneTyped, SummaryRec, JobRec
    <3> QED BY <3>1, <3>2 DEF Read, Completed, Interrupted
  <2>3. Goes(job')
    BY <2>1, <2>2 DEF Unblocked
  <2> QED BY <1>0, <2>1, <2>2, <2>3 DEF Unblocked
<1>7. CASE Return \/ ChargeAttempt \/ PoolCools \/ LaneDies \/ LaneExits \/ UNCHANGED vars
  <2>1. UNCHANGED <<batch, run, journal, summary, job>>
    BY <1>7 DEF Return, ChargeAttempt, PoolCools, LaneDies, LaneExits, vars, disk, batchVars,
       campaignVars
  <2>2. Todo' = Todo /\ Working' = Working /\ Read' = Read /\ Goes(job') = Goes(job)
    BY <2>1 DEF Todo, Working, InPool, Read, Completed, Interrupted
  <2> QED BY <1>0, <2>1, <2>2 DEF Unblocked
<1>8. CASE Reconcile
  <2>1. UNCHANGED <<batch, run, journal, summary>> /\ job.active
    BY <1>8 DEF Reconcile, disk, batchVars
  <2>2. \/ UNCHANGED job
        \/ /\ ~Read /\ job' \in JobRec /\ ~job'.active /\ job'.status = "attention"
           /\ job'.reason = "missing" /\ job'.held = job.held /\ job'.pending = job.pending
    BY <1>8, ReconcileMoves
  <2>3. CASE UNCHANGED job
    <3>1. Todo' = Todo /\ Working' = Working /\ Read' = Read /\ Goes(job') = Goes(job)
      BY <2>1, <2>3 DEF Todo, Working, InPool, Read, Completed, Interrupted
    <3> QED BY <1>0, <2>3, <3>1 DEF Unblocked
  <2>4. CASE /\ ~Read /\ job' \in JobRec /\ ~job'.active /\ job'.status = "attention"
             /\ job'.reason = "missing" /\ job'.held = job.held /\ job'.pending = job.pending
    <3>1. Goes(job) /\ Goes(job')
      BY <2>1, <2>4 DEF Unblocked, Goes, HeldCells
    <3> QED BY <1>0, <2>4, <3>1 DEF Unblocked
  <2> QED BY <2>2, <2>3, <2>4
<1>9. CASE Close
  <2>1. UNCHANGED <<journal, summary>> /\ lane.at = "charge"
    BY <1>9 DEF Close, disk, batchVars
  <2>2. Read /\ job.reason \notin {"missing", "access"}
    BY <2>1 DEF LaneOk
  <2>3. /\ ~job'.active /\ job'.pending = summary.pending /\ job'.reason # "missing"
        /\ job'.status = "ready" /\ ~job'.waits => Goes(job')
    BY <1>9, <2>2, CloseMoves
  <2>4. Todo' = Todo /\ Cardinality(Todo) <= summary.pending
    BY <2>1, <2>2 DEF Todo, BatchOk, Summed, Read, Completed, Interrupted
  <2> QED BY <1>0, <2>3, <2>4 DEF Unblocked
<1>10. ASSUME NEW c \in Cells, CooldownEnds(c) PROVE Unblocked'
  <2>1. UNCHANGED <<batch, run, journal, summary>>
    BY <1>10 DEF CooldownEnds, disk, batchVars
  <2>2. /\ job' \in JobRec
        /\ job'.held[c] = IF job.held[c] = "cooldown" THEN "no" ELSE job.held[c]
        /\ \A d \in Cells \ {c} : job'.held[d] = job.held[d]
        /\ job'.inv = job.inv /\ job'.active = job.active /\ job'.reason = job.reason
        /\ job'.status = job.status /\ job'.pending = job.pending
        /\ job'.waits <=> job.waits /\ job.held[c] # "cooldown"
    BY <1>10, CooldownMoves
  <2>3. Todo' = Todo /\ Working' = Working /\ Read' = Read
    BY <2>1, <2>2 DEF Todo, Working, InPool, Read, Completed, Interrupted
  <2>4. HeldCells(job') \subseteq HeldCells(job)
    BY <2>2 DEF HeldCells
  <2>5. Goes(job) => Goes(job')
    BY <2>2, <2>4, FewerHeld DEF LaneTyped
  <2>6. ASSUME ~job.active, job.status = "ready", job.waits, job.held[c] = "cooldown"
        PROVE  Goes(job')
    <3>1. job.reason # "missing" /\ job.inv # 0
      BY <2>6 DEF LaneOk
    <3>2. Cardinality(Todo) <= job.pending
      BY <2>6, <3>1 DEF Unblocked, LaneTyped, JobRec
    <3>3. HeldCells(job') \subseteq Todo \ {c} /\ c \in Todo
      BY <2>2, <2>4, <2>6 DEF HoldsOk, HeldCells
    <3>4. IsFiniteSet(Todo) /\ Cardinality(Todo) \in Nat
      BY CellsFinite DEF Todo
    <3>5. IsFiniteSet(Todo \ {c}) /\ Cardinality(Todo \ {c}) = Cardinality(Todo) - 1
      BY <3>3, <3>4, FS_RemoveElement
    <3>6. Cardinality(HeldCells(job')) <= Cardinality(Todo) - 1
             /\ Cardinality(HeldCells(job')) \in Nat
      BY <3>3, <3>5, FS_Subset, FS_CardinalityType
    <3>7. job'.pending \in Nat
      BY <2>2 DEF JobRec
    <3> QED BY <2>2, <3>2, <3>4, <3>6, <3>7 DEF Goes
  <2>7. ~job'.active /\ job'.status = "ready" /\ ~job'.waits => Goes(job')
    BY <2>2, <2>5, <2>6 DEF Unblocked
  <2> QED BY <1>0, <2>2, <2>3, <2>5, <2>7 DEF Unblocked
<1> QED
  BY <1>1, <1>3, <1>4, <1>5, <1>6, <1>7, <1>8, <1>9, <1>10, StepsApart

----------------------------------------------------------------------------
(* The invariant, and what follows from it *)
IInv ==
  /\ Typed /\ LaneTyped
  /\ PoolOk /\ StartsOk /\ SettledOk /\ BatchOk
  /\ Placed /\ EvidenceFound /\ RowChain /\ Lineage
  /\ LaneOk /\ Sound /\ Full /\ HoldsOk /\ Room /\ Unblocked

\* nothing has run, nothing is charged and nothing is held
LEMMA IInvInit == Init => IInv
<1> SUFFICES ASSUME Init PROVE IInv
  OBVIOUS
<1> USE DEF Init, BatchInit
<1>1. Typed
  <2>1. batch \in BatchRec /\ summary \in SummaryRec
    BY DEF NotRunning, NoSummary, BatchRec, SummaryRec
  <2>2. run \in [Cells -> RunRec] /\ journal \in [Cells -> Row]
    BY GivenRows
  <2>3. ckpt \in [Cells -> 0..Boundaries] /\ dir \in [Cells -> 0..MaxStarts]
    BY BatchAssumption
  <2>4. settled \in [Cells -> Seq(SettledRec)]
    OBVIOUS
  <2> QED BY <2>1, <2>2, <2>3, <2>4 DEF Typed
<1>2. LaneTyped
  <2>1. lane \in LaneRec
    BY DEF LaneRec
  <2>2. job.held \in [Cells -> Holds] /\ job \in JobRec
    BY CampaignAssumption DEF JobRec, Holds
  <2>3. ledger \in Seq(Charge) /\ extra \in [Cells -> 0..MaxExtensions] /\ deaths \in 0..MaxDeaths
    BY CampaignAssumption
  <2> QED BY <2>1, <2>2, <2>3 DEF LaneTyped
<1>3. InPool = {} /\ Todo = Cells /\ HeldCells(job) = {}
  BY GivenRows DEF InPool, Todo, HeldCells
<1>4. \A c \in Cells : run[c].at = "no" /\ run[c].id = 0 /\ journal[c] = NoRow /\ settled[c] = <<>>
  BY GivenRows
<1>5. PoolOk
  BY <1>4 DEF PoolOk, JobOk, Playing
<1>6. StartsOk
  BY <1>4, FS_EmptySet DEF StartsOk
<1>7. SettledOk
  BY <1>4, GivenRows DEF SettledOk, OutcomesOk, Ids
<1>8. BatchOk
  BY <1>3 DEF BatchOk, Dispatched, Invoked, Summed, Answered, NotRunning, NoSummary
<1>9. Placed /\ EvidenceFound /\ RowChain /\ Lineage
  BY <1>4, GivenRows DEF Placed, PlacedAt, EvidenceFound, Evident, Audited, RowChain, Continued,
       Lineage, Listed
<1>17. /\ job.status = "ready" /\ job.reason = "none" /\ job.inv = 0 /\ ~job.active /\ ~job.waits
       /\ job.pending = 0 /\ \A c \in Cells : job.held[c] = "no"
  OBVIOUS
<1>18. /\ batch.at = "off" /\ summary.inv = 0 /\ summary.status = "none" /\ lane.at = "off"
          /\ lane.due = {}
       /\ starts = {}
  BY DEF NotRunning, NoSummary
<1> HIDE DEF Init, BatchInit
<1>10. LaneOk
  BY <1>3, <1>17, <1>18 DEF LaneOk, Working, NotRunning, NoSummary, Read, Completed, Interrupted
<1>11. Charged = {}
  BY DEF Charged, Init
<1>12. Sound /\ Full
  <2>1. DOMAIN ledger = {}
    BY DEF Init
  <2> QED BY <1>4, <1>11, <1>18, <2>1 DEF Sound, Full
<1>13. \A c \in Cells : Failures(c) = 0 /\ Counted(c) = {} /\ Cardinality(Counted(c)) = 0
  BY <1>11, <1>18, FS_EmptySet DEF Failures, Counted
<1>14. HoldsOk
  BY <1>3, <1>13, <1>17, <1>18 DEF HoldsOk, Spent
<1>15. Room
  <2>1. \A c \in Cells : extra[c] = 0
    BY DEF Init
  <2> QED BY <1>3, <1>4, <1>13, <1>18, <2>1, CampaignAssumption DEF Room
<1>16. Unblocked
  BY <1>3, <1>17, <1>18 DEF Unblocked, Goes
<1> QED BY <1>1, <1>2, <1>5, <1>6, <1>7, <1>8, <1>9, <1>10, <1>12, <1>14, <1>15, <1>16 DEF IInv

\* every step keeps the invariant, part by part
LEMMA IInvKept == IInv /\ [Next]_vars => IInv'
<1> SUFFICES ASSUME IInv, [Next]_vars PROVE IInv'
  OBVIOUS
<1>0. /\ Typed /\ LaneTyped
      /\ PoolOk /\ StartsOk /\ SettledOk /\ BatchOk
      /\ Placed /\ EvidenceFound /\ RowChain /\ Lineage
      /\ LaneOk /\ Sound /\ Full /\ HoldsOk /\ Room /\ Unblocked
  BY DEF IInv
<1>1. Typed' /\ LaneTyped'
  BY <1>0, TypedKept, LaneTypedKept
<1>2. PoolOk' /\ StartsOk' /\ SettledOk'
  BY <1>0, PoolKept, StartsKept, SettledKept
<1>3. Placed' /\ EvidenceFound'
  BY <1>0, PlacedKept, EvidenceKept
<1>4. RowChain' /\ Lineage'
  BY <1>0, RowsKept, LineageKept
<1>5. BatchOk' /\ LaneOk'
  BY <1>0, BatchKept, LaneKept
<1>6. Sound' /\ Full'
  BY <1>0, SoundKept, FullKept
<1>7. HoldsOk' /\ Room' /\ Unblocked'
  BY <1>0, HoldsKept, RoomKept, UnblockedKept
<1> QED BY <1>1, <1>2, <1>3, <1>4, <1>5, <1>6, <1>7 DEF IInv

\* hence the invariant holds throughout
LEMMA Invariance == Spec => []IInv
BY IInvInit, IInvKept, PTL DEF Spec

\* an audit that is closed has known entries only, so that it names the outcomes recorded
LEMMA ClosedIsComplete == Typed /\ Lineage => LineageComplete
<1> SUFFICES ASSUME Typed, Lineage, NEW c \in Cells,
                    journal[c].chain # <<>>, Closed(journal[c].chain)
             PROVE  [i \in DOMAIN journal[c].chain |-> journal[c].chain[i].id]
                      = [i \in DOMAIN settled[c] |-> settled[c][i].id]
  BY DEF LineageComplete
<1>1. journal[c].chain \in Seq(Entry) /\ settled[c] \in Seq(SettledRec)
  BY DEF Typed, Row
<1>2. Known(journal[c].chain)
  BY DEF Closed, Known
<1>3. Named(journal[c].chain, settled[c])
  BY <1>2 DEF Lineage, Listed
<1>4. DOMAIN journal[c].chain = DOMAIN settled[c]
  BY <1>1, <1>3 DEF Named
<1> QED BY <1>3, <1>4 DEF Named

\* Sound and Full meet when no invocation is open
LEMMA LedgerInExactTerms == IInv => LedgerIsExact
<1> SUFFICES ASSUME IInv PROVE LedgerIsExact
  OBVIOUS
<1>1. Cardinality(Charged) = Len(ledger)
  <2>1. ledger \in Seq(Charge) /\ Len(ledger) \in Nat /\ DOMAIN ledger = 1..Len(ledger)
    BY DEF IInv, LaneTyped
  <2>2. \A i, j \in DOMAIN ledger : ledger[i] = ledger[j] => i = j
    BY DEF IInv, Sound
  <2> DEFINE f == [i \in 1..Len(ledger) |-> ledger[i]]
  <2>3. f \in Bijection(1..Len(ledger), Charged)
    BY <2>1, <2>2 DEF Bijection, Injection, IsInjective, Surjection, Charged
  <2>4. ExistsBijection(1..Len(ledger), Charged)
    BY <2>3 DEF ExistsBijection
  <2> QED BY <2>1, <2>4, FS_CountingElements
<1>2. ASSUME Quiet, job.reason # "missing"
      PROVE  Charged = {[cell |-> s.cell, id |-> s.id] : s \in {t \in starts : Counts(t)}}
  <2>1. \A x \in Charged : \E s \in starts : ChargeOf(s) = x /\ Counts(s)
    BY DEF IInv, Sound
  <2>2. \A s \in starts : Counts(s) => ChargeOf(s) \in Charged
    BY <1>2 DEF IInv, Full, Quiet
  <2> QED BY <2>1, <2>2 DEF ChargeOf
<1> QED BY <1>1, <1>2 DEF LedgerIsExact

(* Every variable of the batch runner and of the campaign keeps its type.    *)
THEOREM TypeCorrect == Spec => []CampaignTypeOK
<1>1. IInv => CampaignTypeOK
  BY TypesByName DEF IInv
<1> QED BY <1>1, Invariance, PTL

(* Whatever dies between the binding of a directory, its renaming and the    *)
(* next attempt, the artifacts of the last recorded attempt of a cell are    *)
(* found: _filter_pending_jobs never holds a cell for evidence that the      *)
(* runner moved itself.                                                      *)
THEOREM EvidenceIsFound == Spec => []EvidenceFound
<1>1. IInv => EvidenceFound
  BY DEF IInv
<1> QED BY <1>1, Invariance, PTL

(* A recovery audit that _evaluate calls closed names every attempt of the   *)
(* cell whose outcome was recorded, once and in order.                       *)
THEOREM LineageIsComplete == Spec => []LineageComplete
<1>1. IInv => LineageComplete
  BY ClosedIsComplete DEF IInv
<1> QED BY <1>1, Invariance, PTL

(* No attempt is charged twice, and when no invocation is open the ledger    *)
(* holds the attempts that failed at the transport or were never settled,    *)
(* and no others, whichever process died during apply_invocation and         *)
(* however often interrupted_attempts went over the same starts.             *)
THEOREM LedgerExact == Spec => []LedgerIsExact
BY LedgerInExactTerms, Invariance, PTL

(* No cell is started more often at a cost than max_episode_attempts and its *)
(* extensions allow, although the charge follows the start by a whole        *)
(* invocation and the hold follows the charge.                               *)
THEOREM BudgetKept == Spec => []BudgetHolds
<1>1. IInv => BudgetHolds
  BY DEF IInv, Room, Counted, BudgetHolds
<1> QED BY <1>1, Invariance, PTL
===============================================================================
