--------------------------- MODULE EpisodeCheckpoint ---------------------------
(***************************************************************************)
(* JournaledAgent (runner/checkpoint.py): the durable journal of one        *)
(* episode cell and the attempts that extend or replay it.                  *)
(*                                                                         *)
(* An attempt recreates the seeded environment and the agent, opens the     *)
(* journal under an exclusive lock and runs the episode loop through the    *)
(* proxy.  Below the saved frontier the proxy answers from the journal; at  *)
(* the frontier it calls the model and commits the answer, line first and   *)
(* head second, before the environment sees it.  The process may die at any *)
(* step, storage may fail, and somebody may edit the journal file.          *)
(*                                                                         *)
(* A journal line is its boundary: what the environment showed (the input,  *)
(* environment and evidence hashes) and the agent's decision (the result    *)
(* and the state delta it determines).  The hash chain makes the head's     *)
(* hash stand for the whole sequence of lines, so the head IS a sequence.   *)
(***************************************************************************)
EXTENDS Naturals, Sequences, SequencesExt

CONSTANTS
  Workers,        \* processes that may run an attempt of the cell
  NoWorker,
  Decisions,      \* what the agent may answer at a boundary
  Evidence,       \* what a boundary may show; several: not reproducible
  MaxBoundaries,  \* bound: agent boundaries of the episode
  MaxAttempts,    \* bound: attempts at the cell
  MaxEdits        \* bound: edits of the journal by somebody else

ASSUME ConstantsAssumption ==
  /\ NoWorker \notin Workers
  /\ Decisions # {} /\ Evidence # {}

Boundary == [evidence : Evidence, decision : Decisions]

VARIABLES
  file,      \* the journal file: absent, empty, or with its header line
  journal,   \* the boundary lines of the journal
  torn,      \* the journal ends in an incomplete line
  headFile,  \* the head file exists
  head,      \* the boundary lines the head stands for
  changed,   \* the journal's stat differs from the attempt's _journal_stat
  lock,      \* who holds the cell's flock
  attempts,
  edits,
  pc,        \* where each attempt is
  records,   \* self._records, and self._head which stands for them
  cursor,    \* self._cursor
  failed,    \* self._failure is not None
  line,      \* the boundary in progress
  agent,     \* the agent's resume state: the decisions it remembers
  acts,      \* the decisions that reached the attempt's environment
  scored     \* the episodes that were handed to scoring

pair    == <<file, journal, torn, headFile, head>>
attempt == <<records, cursor, failed, line, agent, acts>>
vars    == <<pair, changed, lock, attempts, edits, pc, attempt, scored>>

\* idle: no process; create, createHead: _load_or_create writes a new pair;
\* loaded: read, not yet stat'ed; ready: between two calls of the proxy;
\* calling: inside the agent; append, replace: inside _append
PCs == {"idle", "create", "createHead", "loaded", "ready", "calling", "append",
        "replace"}

Decided(lines) == [i \in DOMAIN lines |-> lines[i].decision]

NoLine == CHOOSE boundary \in Boundary : TRUE

TypeOK ==
  /\ file \in {"absent", "empty", "headed"}
  /\ journal \in Seq(Boundary)
  /\ torn \in BOOLEAN
  /\ headFile \in BOOLEAN
  /\ head \in Seq(Boundary)
  /\ changed \in BOOLEAN
  /\ lock \in Workers \cup {NoWorker}
  /\ attempts \in Nat /\ edits \in Nat
  /\ pc \in [Workers -> PCs]
  /\ records \in [Workers -> Seq(Boundary)]
  /\ cursor \in [Workers -> Nat]
  /\ failed \in [Workers -> BOOLEAN]
  /\ line \in [Workers -> Boundary]
  /\ agent \in [Workers -> Seq(Decisions)]
  /\ acts \in [Workers -> Seq(Decisions)]
  /\ scored \subseteq Seq(Decisions)

Init ==
  /\ file = "absent" /\ journal = <<>> /\ torn = FALSE
  /\ headFile = FALSE /\ head = <<>> /\ changed = FALSE
  /\ lock = NoWorker /\ attempts = 0 /\ edits = 0
  /\ pc = [w \in Workers |-> "idle"]
  /\ records = [w \in Workers |-> <<>>]
  /\ cursor = [w \in Workers |-> 0]
  /\ failed = [w \in Workers |-> FALSE]
  /\ line = [w \in Workers |-> NoLine]
  /\ agent = [w \in Workers |-> <<>>]
  /\ acts = [w \in Workers |-> <<>>]
  /\ scored = {}

Goto(w, label) == pc' = [pc EXCEPT ![w] = label]

-----------------------------------------------------------------------------
(* Opening the cell.  An exception of __init__ closes the attempt, which is *)
(* what Crash does to it.                                                   *)

\* flock(LOCK_EX | LOCK_NB) fails
Locked == lock # NoWorker

\* what _load_or_create accepts and reads
Readable == file = "headed" /\ headFile /\ ~torn /\ journal = head

\* neither file: the journal is created, without a line
Create(w) ==
  /\ pc[w] = "idle" /\ ~Locked /\ attempts < MaxAttempts
  /\ file = "absent" /\ ~headFile
  /\ attempts' = attempts + 1
  /\ lock' = w
  /\ file' = "empty"
  /\ Goto(w, "create")
  /\ UNCHANGED <<journal, torn, headFile, head, changed, edits, attempt, scored>>

WriteHeader(w) ==
  /\ pc[w] = "create"
  /\ file' = "headed"
  /\ Goto(w, "createHead")
  /\ UNCHANGED <<journal, torn, headFile, head, changed, lock, attempts, edits, attempt,
                 scored>>

WriteFirstHead(w) ==
  /\ pc[w] = "createHead"
  /\ headFile' = TRUE
  /\ Goto(w, "loaded")
  /\ UNCHANGED <<file, journal, torn, head, changed, lock, attempts, edits, attempt,
                 scored>>

\* mutant: a pair that disagrees is repaired from the journal
LoadRepaired(w) ==
  /\ pc[w] = "idle" /\ ~Locked /\ attempts < MaxAttempts
  /\ file = "headed" /\ headFile
  /\ attempts' = attempts + 1
  /\ lock' = w
  /\ torn' = FALSE /\ head' = journal
  /\ records' = [records EXCEPT ![w] = journal]
  /\ Goto(w, "loaded")
  /\ UNCHANGED <<file, journal, headFile, changed, edits, cursor, failed, line, agent,
                 acts, scored>>

Load(w) ==
  /\ pc[w] = "idle" /\ ~Locked /\ attempts < MaxAttempts
  /\ Readable
  /\ attempts' = attempts + 1
  /\ lock' = w
  /\ records' = [records EXCEPT ![w] = journal]
  /\ Goto(w, "loaded")
  /\ UNCHANGED <<pair, changed, edits, cursor, failed, line, agent, acts, scored>>

\* a pair that is incomplete, torn or disagrees: the attempt fails at once
Refuse(w) ==
  /\ pc[w] = "idle" /\ attempts < MaxAttempts
  /\ Locked \/ (file # "absent" /\ ~Readable)
  /\ attempts' = attempts + 1
  /\ UNCHANGED <<pair, changed, lock, edits, pc, attempt, scored>>

\* _journal_stat is taken only after the journal was read
Opened(w) ==
  /\ pc[w] = "loaded"
  /\ changed' = FALSE
  /\ Goto(w, "ready")
  /\ UNCHANGED <<pair, lock, attempts, edits, attempt, scored>>

-----------------------------------------------------------------------------
(* _invoke, from a latched failure or up to the agent's answer.            *)

\* _check_current_head
Current(w) == ~changed /\ head = records[w]

Invoked(w) == pc[w] = "ready" /\ ~failed[w] /\ Len(acts[w]) < MaxBoundaries

\* mutant: the attempt can be used again after a failure
Retried(w) == UNCHANGED failed

Latch(w) == failed' = [failed EXCEPT ![w] = TRUE]

Frontier(w) == cursor[w] >= Len(records[w])

(* A saved boundary shows what it showed when it was saved: the agent gets  *)
(* its state and the environment its decision from the journal.             *)
Replay(w, evidence) ==
  /\ Invoked(w) /\ Current(w) /\ ~Frontier(w)
  /\ LET saved == records[w][cursor[w] + 1]
     IN  /\ saved.evidence = evidence
         /\ agent' = [agent EXCEPT ![w] = SubSeq(Decided(records[w]), 1, cursor[w] + 1)]
         /\ acts' = [acts EXCEPT ![w] = Append(@, saved.decision)]
  /\ cursor' = [cursor EXCEPT ![w] = @ + 1]
  /\ UNCHANGED <<pair, changed, lock, attempts, edits, pc, records, failed, line, scored>>

\* the files changed, or the replay diverged from the saved boundary
Diverge(w, evidence) ==
  /\ Invoked(w)
  /\ \/ ~Current(w)
     \/ ~Frontier(w) /\ records[w][cursor[w] + 1].evidence # evidence
  /\ Latch(w)
  /\ UNCHANGED <<pair, changed, lock, attempts, edits, pc, records, cursor, line, agent,
                 acts, scored>>

\* the frontier: the provider is called
Call(w, evidence) ==
  /\ Invoked(w) /\ Current(w) /\ Frontier(w)
  /\ line' = [line EXCEPT ![w].evidence = evidence]
  /\ Goto(w, "calling")
  /\ UNCHANGED <<pair, changed, lock, attempts, edits, records, cursor, failed, agent,
                 acts, scored>>

Answered(w, decision) ==
  /\ pc[w] = "calling"
  /\ line' = [line EXCEPT ![w].decision = decision]
  /\ agent' = [agent EXCEPT ![w] = Append(@, decision)]
  /\ Goto(w, "append")
  /\ UNCHANGED <<pair, changed, lock, attempts, edits, records, cursor, failed, acts,
                 scored>>

\* the agent raises, perhaps after it changed its session, or returns
\* something that is not an action
AgentFails(w) ==
  /\ pc[w] = "calling"
  /\ \/ UNCHANGED agent
     \/ \E decision \in Decisions : agent' = [agent EXCEPT ![w] = Append(@, decision)]
  /\ Latch(w)
  /\ Goto(w, "ready")
  /\ UNCHANGED <<pair, changed, lock, attempts, edits, records, cursor, line, acts, scored>>

-----------------------------------------------------------------------------
(* _append, and the return of _invoke.                                     *)

Appendable(w) == Current(w) /\ ~torn /\ Len(journal) = Len(records[w])

AppendLine(w) ==
  /\ pc[w] = "append" /\ Appendable(w)
  /\ journal' = Append(journal, line[w])
  /\ changed' = TRUE
  /\ Goto(w, "replace")
  /\ UNCHANGED <<file, torn, headFile, head, lock, attempts, edits, attempt, scored>>

\* something changed, or storage fails, perhaps after part of the line
AppendFails(w) ==
  /\ pc[w] = "append"
  /\ torn' \in {torn, torn \/ Appendable(w)}
  /\ changed' \in {changed, TRUE}
  /\ Latch(w)
  /\ Goto(w, "ready")
  /\ UNCHANGED <<file, journal, headFile, head, lock, attempts, edits, records, cursor,
                 line, agent, acts, scored>>

\* mutants: the environment gets the decision before the head is replaced;
\* the caller gets the journal's line instead of the decision
ReplaceLater(w) ==
  /\ pc[w] = "replace"
  /\ records' = [records EXCEPT ![w] = Append(@, line[w])]
  /\ cursor' = [cursor EXCEPT ![w] = @ + 1]
  /\ acts' = [acts EXCEPT ![w] = Append(@, line[w].decision)]
  /\ changed' = FALSE
  /\ Goto(w, "ready")
  /\ UNCHANGED <<pair, lock, attempts, edits, failed, line, agent, scored>>

ReplaceUnhashed(w) ==
  /\ pc[w] = "replace"
  /\ head' = Append(records[w], [decision |-> line[w].decision])
  /\ records' = [records EXCEPT ![w] = Append(@, line[w])]
  /\ cursor' = [cursor EXCEPT ![w] = @ + 1]
  /\ acts' = [acts EXCEPT ![w] = Append(@, line[w].decision)]
  /\ changed' = FALSE
  /\ Goto(w, "ready")
  /\ UNCHANGED <<file, journal, torn, headFile, lock, attempts, edits, failed, line,
                 agent, scored>>

\* the head is replaced and the decision reaches the environment
ReplaceHead(w) ==
  /\ pc[w] = "replace"
  /\ head' = Append(records[w], line[w])
  /\ records' = [records EXCEPT ![w] = Append(@, line[w])]
  /\ cursor' = [cursor EXCEPT ![w] = @ + 1]
  /\ acts' = [acts EXCEPT ![w] = Append(@, line[w].decision)]
  /\ changed' = FALSE
  /\ Goto(w, "ready")
  /\ UNCHANGED <<file, journal, torn, headFile, lock, attempts, edits, failed, line,
                 agent, scored>>

\* the head is not replaced, or it is and the attempt does not learn it
ReplaceFails(w) ==
  /\ pc[w] = "replace"
  /\ head' \in {head, Append(records[w], line[w])}
  /\ Latch(w)
  /\ Goto(w, "ready")
  /\ UNCHANGED <<file, journal, torn, headFile, changed, lock, attempts, edits, records,
                 cursor, line, agent, acts, scored>>

-----------------------------------------------------------------------------
(* The end of an attempt: its process's memory is gone.                    *)

Gone(w) ==
  /\ lock' = NoWorker
  /\ Goto(w, "idle")
  /\ records' = [records EXCEPT ![w] = <<>>]
  /\ cursor' = [cursor EXCEPT ![w] = 0]
  /\ failed' = [failed EXCEPT ![w] = FALSE]
  /\ line' = [line EXCEPT ![w] = NoLine]
  /\ agent' = [agent EXCEPT ![w] = <<>>]
  /\ acts' = [acts EXCEPT ![w] = <<>>]

\* mutant: an episode may end inside the saved one
CompleteAnywhere(w) == ~failed[w] /\ Current(w)

\* assert_replay_complete
ReplayComplete(w) == ~failed[w] /\ cursor[w] = Len(records[w]) /\ Current(w)

\* the episode loop ends, by itself or by an exception; close()
Finish(w) ==
  /\ pc[w] = "ready"
  /\ scored' = IF ReplayComplete(w) THEN scored \cup {acts[w]} ELSE scored
  /\ Gone(w)
  /\ UNCHANGED <<pair, changed, attempts, edits>>

(* The process dies; the kernel releases its lock.  A line it was writing   *)
(* may be incomplete, and a head it was replacing may have been replaced.   *)
Crash(w) ==
  /\ pc[w] # "idle"
  /\ Gone(w)
  /\ \/ UNCHANGED <<torn, headFile, head>>
     \/ /\ pc[w] = "create" \/ (pc[w] = "append" /\ Appendable(w))
        /\ torn' = TRUE
        /\ UNCHANGED <<headFile, head>>
     \/ /\ pc[w] = "createHead"
        /\ headFile' = TRUE
        /\ UNCHANGED <<torn, head>>
     \/ /\ pc[w] = "replace"
        /\ head' = Append(records[w], line[w])
        /\ UNCHANGED <<torn, headFile>>
  /\ UNCHANGED <<file, journal, changed, attempts, edits, scored>>

\* somebody without the lock removes the last line or changes its decision
Edit ==
  /\ edits < MaxEdits /\ edits' = edits + 1
  /\ journal # <<>>
  /\ \/ journal' = Front(journal)
     \/ \E decision \in Decisions : journal' = [journal EXCEPT ![Len(journal)].decision = decision]
  /\ changed' = TRUE
  /\ UNCHANGED <<file, torn, headFile, head, lock, attempts, pc, attempt, scored>>

-----------------------------------------------------------------------------
Attempt(w) ==
  \/ Create(w) \/ WriteHeader(w) \/ WriteFirstHead(w)
  \/ Load(w) \/ Refuse(w) \/ Opened(w)
  \/ \E evidence \in Evidence :
       Replay(w, evidence) \/ Diverge(w, evidence) \/ Call(w, evidence)
  \/ \E decision \in Decisions : Answered(w, decision)
  \/ AgentFails(w)
  \/ AppendLine(w) \/ AppendFails(w) \/ ReplaceHead(w) \/ ReplaceFails(w)
  \/ Finish(w) \/ Crash(w)

Next == Edit \/ \E w \in Workers : Attempt(w)

Spec == Init /\ [][Next]_vars

-----------------------------------------------------------------------------
(* Safety.                                                                 *)

(* No decision reaches an environment before it is durable: what an        *)
(* attempt's environment was told is what the head says, from the start.   *)
CommittedFirst == \A w \in Workers : IsPrefix(acts[w], Decided(head))

(* The model is asked only at the saved frontier: when an answer is looked *)
(* for, the environment and the agent's session have been through every    *)
(* committed decision and through nothing else, so that a saved decision   *)
(* is never sampled again and a failed call leaves no trace in the next.   *)
CalledAtFrontier ==
  \A w \in Workers :
    pc[w] = "calling" => agent[w] = Decided(head) /\ acts[w] = agent[w]

(* What is committed stays committed: whatever dies or is edited, the head *)
(* only grows, so two attempts that act at one boundary act alike.         *)
HeadGrows == [][IsPrefix(head, head')]_vars

(* A scored episode is the whole committed one.                            *)
ScoredIsCommitted == [][\A episode \in scored' \ scored : episode = Decided(head)]_vars

(* A pair that a crash or an edit left in disagreement is held: no attempt *)
(* repairs it or gets past it to the model.                                *)
Held == lock = NoWorker /\ file # "absent" /\ ~Readable

HeldForInspection == [][Held /\ UNCHANGED edits => Held']_vars
=============================================================================
