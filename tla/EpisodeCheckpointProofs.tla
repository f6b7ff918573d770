------------------------ MODULE EpisodeCheckpointProofs ------------------------
(***************************************************************************)
(* For every number of processes, decisions, boundaries, attempts and       *)
(* edits: an environment is only told what is durable, the model is only    *)
(* asked at the saved frontier, and what is committed stays committed.      *)
(*                                                                         *)
(* The argument: the lock makes the attempt alone; its records are a prefix *)
(* of the head and, from a call of the model until the head is replaced,    *)
(* the head itself; its environment was told the first cursor decisions of  *)
(* its records.                                                             *)
(*                                                                         *)
(* The second part is about the process that runs an attempt, under the     *)
(* deadlines of WorkerDeadline, for any limits, native processes and marks: *)
(* its types, that nothing is left behind, that a returned result is        *)
(* complete, and that postprocessing is charged from its first mark.        *)
(***************************************************************************)
EXTENDS EpisodeCheckpoint, WorkerDeadline, TLAPS

(* A prefix, element by element.                                           *)
LEMMA PrefixByIndex ==
  ASSUME NEW S, NEW s \in Seq(S), NEW t \in Seq(S)
  PROVE  IsPrefix(s, t) <=> /\ Len(s) <= Len(t)
                            /\ \A i \in 1 .. Len(s) : s[i] = t[i]
<1>1. Len(s) \in Nat /\ Len(t) \in Nat
  OBVIOUS
<1>2. SubSeq(s, 1, Len(s)) = [i \in 1 .. Len(s) |-> s[i]]
  BY <1>1
<1>3. ASSUME Len(s) <= Len(t)
      PROVE  SubSeq(t, 1, Len(s)) = [i \in 1 .. Len(s) |-> t[i]]
  BY <1>1, <1>3
<1>4. ASSUME Len(s) <= Len(t)
      PROVE  SubSeq(s, 1, Len(s)) = SubSeq(t, 1, Len(s))
               <=> \A i \in 1 .. Len(s) : s[i] = t[i]
  BY <1>2, <1>3, <1>4
<1> QED
  BY <1>4 DEF IsPrefix

(* The decisions of a sequence of lines.                                   *)
LEMMA DecidedType ==
  ASSUME NEW lines \in Seq(Boundary)
  PROVE  /\ Decided(lines) \in Seq(Decisions)
         /\ Len(Decided(lines)) = Len(lines)
         /\ \A i \in 1 .. Len(lines) : Decided(lines)[i] = lines[i].decision
<1>1. DOMAIN lines = 1 .. Len(lines) /\ Len(lines) \in Nat
  OBVIOUS
<1>2. ASSUME NEW i \in 1 .. Len(lines) PROVE lines[i].decision \in Decisions
  <2>1. lines[i] \in Boundary
    BY <1>1
  <2> QED
    BY <2>1 DEF Boundary
<1>3. Decided(lines) = [i \in 1 .. Len(lines) |-> lines[i].decision]
  BY <1>1 DEF Decided
<1>4. Decided(lines) \in [1 .. Len(lines) -> Decisions]
  BY <1>2, <1>3
<1>5. Decided(lines) \in Seq(Decisions)
  BY <1>1, <1>4
<1>6. Len(Decided(lines)) = Len(lines)
  BY <1>1, <1>4, <1>5
<1> QED
  BY <1>3, <1>5, <1>6

(* NoLine is a boundary.                                                   *)
LEMMA NoLineType == NoLine \in Boundary
<1>1. \E boundary \in Boundary : TRUE
  <2>1. PICK d \in Decisions, e \in Evidence : TRUE
    BY ConstantsAssumption DEF ConstantsAssumption
  <2>2. [evidence |-> e, decision |-> d] \in Boundary
    BY <2>1 DEF Boundary
  <2> QED
    BY <2>2
<1> QED
  BY <1>1 DEF NoLine

(* What a process that is gone leaves behind is typed.                     *)
LEMMA GoneType ==
  ASSUME TypeOK, NEW w \in Workers, Gone(w)
  PROVE  /\ lock' \in Workers \cup {NoWorker}
         /\ pc' \in [Workers -> PCs]
         /\ records' \in [Workers -> Seq(Boundary)]
         /\ cursor' \in [Workers -> Nat]
         /\ failed' \in [Workers -> BOOLEAN]
         /\ line' \in [Workers -> Boundary]
         /\ agent' \in [Workers -> Seq(Decisions)]
         /\ acts' \in [Workers -> Seq(Decisions)]
<1>1. <<>> \in Seq(Boundary) /\ <<>> \in Seq(Decisions)
  OBVIOUS
<1>2. /\ lock' \in Workers \cup {NoWorker}
      /\ pc' \in [Workers -> PCs]
  BY DEF Gone, Goto, TypeOK, PCs
<1>3. /\ records' \in [Workers -> Seq(Boundary)]
      /\ cursor' \in [Workers -> Nat]
      /\ line' \in [Workers -> Boundary]
  BY <1>1, NoLineType DEF Gone, TypeOK
<1>4. /\ failed' \in [Workers -> BOOLEAN]
      /\ agent' \in [Workers -> Seq(Decisions)]
      /\ acts' \in [Workers -> Seq(Decisions)]
  BY <1>1 DEF Gone, TypeOK
<1> QED
  BY <1>2, <1>3, <1>4

(* Types are kept where an attempt writes a sequence.                      *)
LEMMA AppendType ==
  ASSUME TypeOK, NEW w \in Workers
  PROVE  /\ Append(records[w], line[w]) \in Seq(Boundary)
         /\ Append(journal, line[w]) \in Seq(Boundary)
         /\ Append(acts[w], line[w].decision) \in Seq(Decisions)
         /\ \A d \in Decisions : Append(agent[w], d) \in Seq(Decisions)
<1>1. line[w] \in Boundary /\ line[w].decision \in Decisions
  BY DEF TypeOK, Boundary
<1>2. /\ records[w] \in Seq(Boundary) /\ journal \in Seq(Boundary)
      /\ acts[w] \in Seq(Decisions) /\ agent[w] \in Seq(Decisions)
  BY DEF TypeOK
<1> QED
  BY <1>1, <1>2

(* A step of the editor keeps the types.                                   *)
LEMMA EditType == TypeOK /\ Edit => journal' \in Seq(Boundary)
<1> SUFFICES ASSUME TypeOK, Edit PROVE journal' \in Seq(Boundary)
  OBVIOUS
<1>1. journal \in Seq(Boundary) /\ Len(journal) \in Nat \ {0}
  BY DEF TypeOK, Edit
<1>2. CASE journal' = Front(journal)
  BY <1>1, <1>2 DEF Front
<1>3. ASSUME NEW d \in Decisions,
             journal' = [journal EXCEPT ![Len(journal)].decision = d]
      PROVE  journal' \in Seq(Boundary)
  <2>1. journal[Len(journal)] \in Boundary /\ Len(journal) \in DOMAIN journal
    BY <1>1
  <2>2. [journal[Len(journal)] EXCEPT !.decision = d] \in Boundary
    BY <1>3, <2>1 DEF Boundary
  <2>3. journal' = [journal EXCEPT ![Len(journal)] =
                      [journal[Len(journal)] EXCEPT !.decision = d]]
    BY <1>3
  <2> QED
    BY <1>1, <2>1, <2>2, <2>3
<1> QED
  BY <1>2, <1>3 DEF Edit

(* Each operation of an attempt keeps the types.                           *)
LEMMA AttemptType ==
  ASSUME TypeOK, NEW w \in Workers, Attempt(w)
  PROVE  TypeOK'
<1>1. CASE Create(w)
  BY <1>1 DEF Create, Goto, attempt, TypeOK, PCs
<1>2. CASE WriteHeader(w)
  BY <1>2 DEF WriteHeader, Goto, attempt, TypeOK, PCs
<1>3. CASE WriteFirstHead(w)
  BY <1>3 DEF WriteFirstHead, Goto, attempt, TypeOK, PCs
<1>4. CASE Load(w)
  BY <1>4 DEF Load, Goto, pair, TypeOK, PCs
<1>5. CASE Refuse(w)
  BY <1>5 DEF Refuse, pair, attempt, TypeOK, PCs
<1>6. CASE Opened(w)
  BY <1>6 DEF Opened, Goto, pair, attempt, TypeOK, PCs
<1>7. ASSUME NEW e \in Evidence, Replay(w, e) PROVE TypeOK'
  <2>1. records[w] \in Seq(Boundary) /\ cursor[w] \in Nat /\ acts[w] \in Seq(Decisions)
    BY DEF TypeOK
  <2>2. cursor[w] + 1 \in 1 .. Len(records[w])
    BY <1>7, <2>1 DEF Replay, Frontier
  <2>3. records[w][cursor[w] + 1] \in Boundary
    BY <2>1, <2>2
  <2>4. Append(acts[w], records[w][cursor[w] + 1].decision) \in Seq(Decisions)
    BY <2>1, <2>3 DEF Boundary
  <2>5. SubSeq(Decided(records[w]), 1, cursor[w] + 1) \in Seq(Decisions)
    BY <2>1, <2>2, DecidedType
  <2>6. /\ acts' \in [Workers -> Seq(Decisions)]
        /\ agent' \in [Workers -> Seq(Decisions)]
        /\ cursor' \in [Workers -> Nat]
    BY SMTT(30), <1>7, <2>1, <2>4, <2>5 DEF Replay, TypeOK
  <2> QED
    BY <1>7, <2>6 DEF Replay, pair, TypeOK
<1>8. ASSUME NEW e \in Evidence, Diverge(w, e) PROVE TypeOK'
  <2>1. failed' \in [Workers -> BOOLEAN]
    BY <1>8 DEF Diverge, Latch, TypeOK
  <2> QED
    BY <1>8, <2>1 DEF Diverge, pair, TypeOK
<1>9. ASSUME NEW e \in Evidence, Call(w, e) PROVE TypeOK'
  <2>1. line[w] \in Boundary
    BY DEF TypeOK
  <2>2. [line[w] EXCEPT !.evidence = e] \in Boundary
    BY <2>1 DEF Boundary
  <2>3. line' \in [Workers -> Boundary]
    BY <1>9, <2>2 DEF Call, TypeOK
  <2> QED
    BY <1>9, <2>3 DEF Call, Goto, pair, TypeOK, PCs
<1>10. ASSUME NEW d \in Decisions, Answered(w, d) PROVE TypeOK'
  <2>1. line[w] \in Boundary
    BY DEF TypeOK
  <2>2. [line[w] EXCEPT !.decision = d] \in Boundary
    BY <2>1 DEF Boundary
  <2>3. line' \in [Workers -> Boundary]
    BY <1>10, <2>2 DEF Answered, TypeOK
  <2>4. agent' \in [Workers -> Seq(Decisions)]
    BY <1>10, AppendType DEF Answered, TypeOK
  <2> QED
    BY <1>10, <2>3, <2>4 DEF Answered, Goto, pair, TypeOK, PCs
<1>11. CASE AgentFails(w)
  <2>1. agent' \in [Workers -> Seq(Decisions)]
    BY ZenonT(30), <1>11, AppendType DEF AgentFails, TypeOK
  <2>2. failed' \in [Workers -> BOOLEAN]
    BY <1>11 DEF AgentFails, Latch, TypeOK
  <2> QED
    BY <1>11, <2>1, <2>2 DEF AgentFails, Goto, pair, TypeOK, PCs
<1>12. CASE AppendLine(w)
  BY <1>12, AppendType DEF AppendLine, Goto, attempt, TypeOK, PCs
<1>13. CASE AppendFails(w)
  <2>1. failed' \in [Workers -> BOOLEAN] /\ torn' \in BOOLEAN /\ changed' \in BOOLEAN
    BY <1>13 DEF AppendFails, Latch, TypeOK
  <2> QED
    BY <1>13, <2>1 DEF AppendFails, Goto, TypeOK, PCs
<1>14. CASE ReplaceHead(w)
  <2>1. /\ head' \in Seq(Boundary)
        /\ records' \in [Workers -> Seq(Boundary)]
        /\ acts' \in [Workers -> Seq(Decisions)]
    BY <1>14, AppendType DEF ReplaceHead, TypeOK
  <2>2. cursor' \in [Workers -> Nat] /\ changed' \in BOOLEAN
    <3>1. cursor[w] + 1 \in Nat
      BY DEF TypeOK
    <3> QED
      BY <1>14, <3>1 DEF ReplaceHead, TypeOK
  <2> QED
    BY <1>14, <2>1, <2>2 DEF ReplaceHead, Goto, TypeOK, PCs
<1>15. CASE ReplaceFails(w)
  <2>1. head' \in Seq(Boundary)
    BY <1>15, AppendType DEF ReplaceFails, TypeOK
  <2>2. failed' \in [Workers -> BOOLEAN]
    BY <1>15 DEF ReplaceFails, Latch, TypeOK
  <2> QED
    BY <1>15, <2>1, <2>2 DEF ReplaceFails, Goto, TypeOK, PCs
<1>16. CASE Finish(w)
  <2>1. scored' \subseteq Seq(Decisions)
    BY <1>16 DEF Finish, TypeOK
  <2> QED
    BY <1>16, <2>1, GoneType DEF Finish, pair, TypeOK
<1>17. CASE Crash(w)
  <2>1. head' \in Seq(Boundary) /\ torn' \in BOOLEAN /\ headFile' \in BOOLEAN
    BY <1>17, AppendType DEF Crash, TypeOK
  <2> QED
    BY <1>17, <2>1, GoneType DEF Crash, TypeOK
<1> QED
  BY <1>1, <1>2, <1>3, <1>4, <1>5, <1>6, <1>7, <1>8, <1>9, <1>10, <1>11, <1>12, <1>13,
     <1>14, <1>15, <1>16, <1>17 DEF Attempt

(* The variables have their types when an episode's cell is new ...        *)
LEMMA TypeInit == Init => TypeOK
<1> SUFFICES ASSUME Init PROVE TypeOK
  OBVIOUS
<1>1. <<>> \in Seq(Boundary) /\ <<>> \in Seq(Decisions)
  OBVIOUS
<1>2. /\ cursor \in [Workers -> Nat] /\ failed \in [Workers -> BOOLEAN]
      /\ pc \in [Workers -> PCs] /\ line \in [Workers -> Boundary]
  BY NoLineType DEF Init, PCs
<1>3. /\ records \in [Workers -> Seq(Boundary)]
      /\ agent \in [Workers -> Seq(Decisions)]
      /\ acts \in [Workers -> Seq(Decisions)]
  BY <1>1 DEF Init
<1>4. /\ file \in {"absent", "empty", "headed"} /\ journal \in Seq(Boundary)
      /\ torn \in BOOLEAN /\ headFile \in BOOLEAN /\ head \in Seq(Boundary)
  BY <1>1 DEF Init
<1>5. /\ changed \in BOOLEAN /\ lock \in Workers \cup {NoWorker}
      /\ attempts \in Nat /\ edits \in Nat /\ scored \subseteq Seq(Decisions)
  BY DEF Init
<1> QED
  BY <1>2, <1>3, <1>4, <1>5, Zenon DEF TypeOK

(* ... and keep them.                                                      *)
LEMMA TypeStep == TypeOK /\ [Next]_vars => TypeOK'
<1>1. TypeOK /\ UNCHANGED vars => TypeOK'
  BY DEF vars, pair, attempt, TypeOK
<1>2. TypeOK /\ Edit => TypeOK'
  BY SMTT(30), EditType DEF Edit, attempt, TypeOK
<1> QED
  BY <1>1, <1>2, AttemptType DEF Next

(* The variables of EpisodeCheckpoint keep their types.                    *)
THEOREM TypeCorrect == Spec => []TypeOK
BY TypeInit, TypeStep, PTL DEF Spec

-----------------------------------------------------------------------------
(* The strengthening.                                                      *)

\* at most one attempt of the cell is under way
OneAttempt == \A w \in Workers : pc[w] # "idle" => lock = w

(* What an attempt has in memory, against the head on disk and against what *)
(* its environment and its agent's session went through.                   *)
Follows(w) ==
  /\ IsPrefix(records[w], head)
  /\ cursor[w] <= Len(records[w])
  /\ Len(acts[w]) = cursor[w]
  /\ \A i \in 1 .. cursor[w] : acts[w][i] = records[w][i].decision
  /\ pc[w] \in {"idle", "create", "createHead", "loaded"} =>
       cursor[w] = 0 /\ agent[w] = <<>> /\ ~failed[w]
  /\ pc[w] = "idle" => records[w] = <<>>
  /\ pc[w] = "ready" /\ ~failed[w] => agent[w] = acts[w]
  /\ pc[w] = "calling" => agent[w] = acts[w]
  /\ pc[w] \in {"calling", "append", "replace"} =>
       head = records[w] /\ cursor[w] = Len(records[w]) /\ ~failed[w]
  /\ pc[w] \in {"append", "replace"} => agent[w] = Append(acts[w], line[w].decision)

IInv == TypeOK /\ OneAttempt /\ \A w \in Workers : Follows(w)

-----------------------------------------------------------------------------
(* The empty sequence is a prefix.                                         *)
LEMMA EmptyPrefix ==
  ASSUME NEW S, NEW t \in Seq(S)
  PROVE  IsPrefix(<<>>, t)
<1>1. <<>> \in Seq(S) /\ Len(<<>>) = 0 /\ Len(t) \in Nat
  OBVIOUS
<1>2. Len(<<>>) <= Len(t) /\ \A i \in 1 .. Len(<<>>) : <<>>[i] = t[i]
  BY <1>1
<1> QED
  BY <1>1, <1>2, PrefixByIndex, Zenon

(* Sequences with the same elements are the same.                          *)
LEMMA SameElements ==
  ASSUME NEW S, NEW s \in Seq(S), NEW t \in Seq(S), Len(s) = Len(t),
         \A i \in 1 .. Len(s) : s[i] = t[i]
  PROVE  s = t
<1>1. s = [i \in 1 .. Len(s) |-> s[i]] /\ t = [i \in 1 .. Len(t) |-> t[i]]
  OBVIOUS
<1> QED
  BY <1>1

(* A sequence is a prefix of itself.                                       *)
LEMMA SelfPrefix ==
  ASSUME NEW S, NEW s \in Seq(S)
  PROVE  IsPrefix(s, s)
BY PrefixByIndex

(* A sequence is a prefix of what it is extended to.                       *)
LEMMA AppendPrefix ==
  ASSUME NEW S, NEW s \in Seq(S), NEW e \in S
  PROVE  IsPrefix(s, Append(s, e))
<1>1. /\ Append(s, e) \in Seq(S) /\ Len(s) \in Nat
      /\ Len(Append(s, e)) = Len(s) + 1
      /\ \A i \in 1 .. Len(s) : Append(s, e)[i] = s[i]
  OBVIOUS
<1>2. Len(s) <= Len(Append(s, e)) /\ \A i \in 1 .. Len(s) : s[i] = Append(s, e)[i]
  BY <1>1
<1> QED
  BY <1>1, <1>2, PrefixByIndex, Zenon

(* A step that leaves the head and an attempt alone leaves Follows alone.  *)
LEMMA FollowsUnchanged ==
  ASSUME NEW w, Follows(w), UNCHANGED head,
         records'[w] = records[w], cursor'[w] = cursor[w], failed'[w] = failed[w],
         line'[w] = line[w], agent'[w] = agent[w], acts'[w] = acts[w], pc'[w] = pc[w]
  PROVE  Follows(w)'
BY DEF Follows

(* What a step of one attempt does to another one: nothing, and while the  *)
(* head changes there is no other one.                                     *)
LEMMA OthersFollow ==
  ASSUME IInv, NEW w \in Workers, Attempt(w), NEW v \in Workers, v # w, TypeOK'
  PROVE  Follows(v)'
<1>1. /\ records'[v] = records[v] /\ cursor'[v] = cursor[v] /\ failed'[v] = failed[v]
      /\ line'[v] = line[v] /\ agent'[v] = agent[v] /\ acts'[v] = acts[v]
      /\ pc'[v] = pc[v]
      /\ head' = head \/ pc[w] # "idle"
  <2> USE DEF IInv, TypeOK, Goto, Latch, pair, attempt
  <2>1. CASE Create(w) \/ WriteHeader(w) \/ WriteFirstHead(w) \/ Load(w) \/ Refuse(w)
    BY <2>1 DEF Create, WriteHeader, WriteFirstHead, Load, Refuse
  <2>2. CASE Opened(w) \/ \E e \in Evidence : Diverge(w, e) \/ Call(w, e)
    BY <2>2 DEF Opened, Diverge, Call
  <2>3. CASE \E e \in Evidence : Replay(w, e)
    BY <2>3 DEF Replay
  <2>4. CASE AgentFails(w) \/ \E d \in Decisions : Answered(w, d)
    BY SMTT(30), <2>4 DEF AgentFails, Answered
  <2>5. CASE AppendLine(w) \/ AppendFails(w)
    BY <2>5 DEF AppendLine, AppendFails
  <2>6. CASE ReplaceHead(w) \/ ReplaceFails(w)
    BY ZenonT(30), <2>6 DEF ReplaceHead, ReplaceFails
  <2>7. CASE Finish(w) \/ Crash(w)
    BY ZenonT(30), <2>7 DEF Finish, Crash, Gone
  <2> QED
    BY <2>1, <2>2, <2>3, <2>4, <2>5, <2>6, <2>7 DEF Attempt
<1>2. CASE head' = head
  BY <1>1, <1>2, FollowsUnchanged DEF IInv
<1>3. CASE head' # head
  <2>1. pc[v] = "idle"
    BY <1>1, <1>3 DEF IInv, OneAttempt
  <2>2. records[v] = <<>> /\ IsPrefix(<<>>, head')
    BY <2>1, EmptyPrefix DEF IInv, Follows, TypeOK
  <2> QED
    BY <1>1, <2>1, <2>2 DEF IInv, Follows
<1> QED
  BY <1>2, <1>3

(* A step of an attempt keeps the attempt alone.                           *)
LEMMA OneAttemptStep ==
  ASSUME IInv, NEW w \in Workers, Attempt(w)
  PROVE  OneAttempt'
<1> DEFINE Others == \A v \in Workers \ {w} : pc'[v] = pc[v]
           Takes == lock = NoWorker /\ lock' = w
           Keeps == lock' = lock /\ (pc[w] = "idle" => pc'[w] = "idle")
           Leaves == pc[w] # "idle" /\ lock' = NoWorker /\ pc'[w] = "idle"
<1> SUFFICES Others /\ (Takes \/ Keeps \/ Leaves)
  BY ConstantsAssumption DEF ConstantsAssumption, IInv, OneAttempt
<1>0. pc \in [Workers -> PCs]
  BY DEF IInv, TypeOK
<1>1. CASE Create(w) \/ Load(w)
  BY <1>0, <1>1 DEF Create, Load, Goto, Locked
<1>2. CASE Refuse(w) \/ WriteHeader(w) \/ WriteFirstHead(w) \/ Opened(w)
  BY <1>0, <1>2 DEF Refuse, WriteHeader, WriteFirstHead, Opened, Goto
<1>3. CASE \E e \in Evidence : Replay(w, e) \/ Diverge(w, e) \/ Call(w, e)
  BY <1>0, <1>3 DEF Replay, Diverge, Call, Goto, Invoked
<1>4. CASE AgentFails(w) \/ \E d \in Decisions : Answered(w, d)
  BY <1>0, <1>4 DEF AgentFails, Answered, Goto
<1>5. CASE AppendLine(w) \/ AppendFails(w) \/ ReplaceHead(w) \/ ReplaceFails(w)
  BY <1>0, <1>5 DEF AppendLine, AppendFails, ReplaceHead, ReplaceFails, Goto
<1>6. CASE Finish(w) \/ Crash(w)
  BY <1>0, <1>6 DEF Finish, Crash, Gone, Goto
<1> QED
  BY <1>1, <1>2, <1>3, <1>4, <1>5, <1>6 DEF Attempt

(* A step of an attempt keeps what it has in memory in line with the head. *)
LEMMA AttemptFollows ==
  ASSUME IInv, NEW w \in Workers, Attempt(w), TypeOK'
  PROVE  Follows(w)'
<1>1. /\ Follows(w) /\ records[w] \in Seq(Boundary) /\ head \in Seq(Boundary)
      /\ line[w] \in Boundary /\ acts[w] \in Seq(Decisions) /\ agent[w] \in Seq(Decisions)
      /\ cursor[w] \in Nat /\ Len(records[w]) \in Nat
  BY DEF IInv, TypeOK
<1>t. /\ pc \in [Workers -> PCs] /\ records \in [Workers -> Seq(Boundary)]
      /\ cursor \in [Workers -> Nat] /\ line \in [Workers -> Boundary]
      /\ agent \in [Workers -> Seq(Decisions)] /\ acts \in [Workers -> Seq(Decisions)]
      /\ failed \in [Workers -> BOOLEAN]
  BY DEF IInv, TypeOK
<1>2. CASE Create(w) \/ WriteHeader(w) \/ WriteFirstHead(w)
  BY <1>1, <1>t, <1>2
  DEF Create, WriteHeader, WriteFirstHead, Follows, Goto, attempt
<1>3. CASE Load(w)
  <2>1. records'[w] = head /\ head' = head /\ IsPrefix(head, head)
    BY <1>1, <1>t, <1>3, SelfPrefix DEF Load, Readable, pair
  <2>2. /\ pc'[w] = "loaded" /\ cursor'[w] = 0 /\ agent'[w] = <<>> /\ ~failed'[w]
        /\ acts'[w] = acts[w] /\ Len(acts[w]) = 0
    BY <1>1, <1>t, <1>3 DEF Load, Goto, Follows
  <2> QED
    BY <1>1, <2>1, <2>2 DEF Follows
<1>4. CASE Refuse(w)
  BY <1>1, <1>4 DEF Refuse, Follows, pair, attempt
<1>5. CASE Opened(w)
  BY <1>1, <1>t, <1>5 DEF Opened, Follows, Goto, pair, attempt
<1>6. ASSUME NEW e \in Evidence, Replay(w, e) PROVE Follows(w)'
  <2>1. PICK saved \in Boundary : saved = records[w][cursor[w] + 1]
    BY <1>1, <1>6 DEF Replay, Frontier
  <2>2. /\ pc'[w] = "ready" /\ ~failed'[w] /\ head' = head /\ records'[w] = records[w]
        /\ cursor'[w] = cursor[w] + 1 /\ cursor[w] < Len(records[w])
        /\ acts'[w] = Append(acts[w], saved.decision)
        /\ agent'[w] = SubSeq(Decided(records[w]), 1, cursor[w] + 1)
    BY <1>1, <1>t, <1>6, <2>1 DEF Replay, Frontier, Invoked, pair
  <2>3. saved.decision \in Decisions
    BY DEF Boundary
  <2>4. /\ Len(acts'[w]) = cursor'[w]
        /\ \A i \in 1 .. cursor'[w] : acts'[w][i] = records'[w][i].decision
    BY SMTT(30), <1>1, <2>1, <2>2, <2>3 DEF Follows
  <2>5. agent'[w] = acts'[w]
    <3>1. /\ Decided(records[w]) \in Seq(Decisions)
          /\ Len(Decided(records[w])) = Len(records[w])
          /\ \A i \in 1 .. Len(records[w]) :
               Decided(records[w])[i] = records[w][i].decision
      BY <1>1, DecidedType
    <3>2. /\ agent'[w] \in Seq(Decisions) /\ Len(agent'[w]) = cursor[w] + 1
          /\ \A i \in 1 .. cursor[w] + 1 : agent'[w][i] = Decided(records[w])[i]
      BY SMTT(30), <1>1, <2>2, <3>1
    <3>3. acts'[w] \in Seq(Decisions) /\ Len(acts'[w]) = cursor[w] + 1
      BY <2>2, <2>4 DEF TypeOK
    <3>4. ASSUME NEW i \in 1 .. Len(agent'[w]) PROVE agent'[w][i] = acts'[w][i]
      <4>1. i \in 1 .. cursor[w] + 1 /\ i \in 1 .. Len(records[w])
        BY <1>1, <2>2, <3>2
      <4>2. agent'[w][i] = records[w][i].decision
        BY <3>1, <3>2, <4>1
      <4>3. acts'[w][i] = records[w][i].decision
        BY <2>2, <2>4, <4>1
      <4> QED
        BY <4>2, <4>3
    <3> QED
      BY <3>2, <3>3, <3>4, SameElements
  <2>6. cursor'[w] <= Len(records'[w]) /\ IsPrefix(records'[w], head')
    BY <1>1, <2>2 DEF Follows
  <2> QED
    BY <2>2, <2>4, <2>5, <2>6 DEF Follows
<1>7. ASSUME NEW e \in Evidence, Diverge(w, e) PROVE Follows(w)'
  BY <1>1, <1>t, <1>7 DEF Diverge, Invoked, Latch, Follows, pair
<1>8. ASSUME NEW e \in Evidence, Call(w, e) PROVE Follows(w)'
  <2>1. /\ pc[w] = "ready" /\ ~failed[w] /\ head = records[w]
        /\ cursor[w] = Len(records[w])
    BY <1>1, <1>8 DEF Call, Invoked, Current, Frontier, Follows
  <2>2. /\ pc'[w] = "calling" /\ head' = head
        /\ UNCHANGED <<records, cursor, failed, agent, acts>>
    BY <1>t, <1>8 DEF Call, Goto, pair
  <2> QED
    BY <1>1, <2>1, <2>2 DEF Follows
<1>9. ASSUME NEW d \in Decisions, Answered(w, d) PROVE Follows(w)'
  <2>1. /\ pc[w] = "calling" /\ pc'[w] = "append" /\ head' = head
        /\ line'[w].decision = d /\ agent'[w] = Append(agent[w], d)
        /\ UNCHANGED <<records, cursor, failed, acts>>
    BY <1>1, <1>t, <1>9 DEF Answered, Goto, pair, Boundary
  <2> QED
    BY <1>1, <2>1 DEF Follows
<1>10. CASE AgentFails(w) \/ AppendFails(w)
  <2>1. /\ pc'[w] = "ready" /\ failed'[w] /\ head' = head
        /\ UNCHANGED <<records, cursor, acts>>
    BY <1>t, <1>10 DEF AgentFails, AppendFails, Latch, Goto, pair
  <2> QED
    BY <1>1, <2>1 DEF Follows
<1>11. CASE AppendLine(w)
  BY <1>1, <1>t, <1>11 DEF AppendLine, Goto, Follows, attempt
<1>12. CASE ReplaceHead(w)
  <2> DEFINE lines == Append(records[w], line[w])
  <2>1. /\ pc[w] = "replace" /\ pc'[w] = "ready" /\ head' = lines /\ records'[w] = lines
        /\ cursor'[w] = cursor[w] + 1 /\ UNCHANGED agent
        /\ acts'[w] = Append(acts[w], line[w].decision)
    BY <1>1, <1>t, <1>12 DEF ReplaceHead, Goto
  <2>2. /\ cursor[w] = Len(records[w]) /\ agent[w] = acts'[w]
    BY <1>1, <2>1 DEF Follows
  <2>3. /\ lines \in Seq(Boundary) /\ Len(lines) = cursor'[w] /\ IsPrefix(lines, lines)
        /\ \A i \in 1 .. cursor[w] : lines[i] = records[w][i]
        /\ lines[cursor[w] + 1] = line[w]
    <3>1. /\ lines \in Seq(Boundary) /\ Len(lines) = Len(records[w]) + 1
          /\ \A i \in 1 .. Len(records[w]) : lines[i] = records[w][i]
          /\ lines[Len(records[w]) + 1] = line[w]
      BY <1>1
    <3>2. IsPrefix(lines, lines)
      BY <3>1, SelfPrefix, Zenon
    <3> QED
      BY <2>1, <2>2, <3>1, <3>2
  <2>4. line[w].decision \in Decisions
    BY <1>1 DEF Boundary
  <2>5. /\ Len(acts'[w]) = cursor'[w]
        /\ \A i \in 1 .. cursor'[w] : acts'[w][i] = records'[w][i].decision
    BY <1>1, <2>1, <2>3, <2>4 DEF Follows
  <2> QED
    BY <1>1, <2>1, <2>2, <2>3, <2>5 DEF Follows
<1>13. CASE ReplaceFails(w)
  <2>1. IsPrefix(records[w], head')
    BY <1>1, <1>13, AppendPrefix DEF ReplaceFails, Follows
  <2>2. /\ pc'[w] = "ready" /\ failed'[w] /\ UNCHANGED <<records, cursor, acts>>
    BY <1>t, <1>13 DEF ReplaceFails, Latch, Goto
  <2> QED
    BY <1>1, <2>1, <2>2 DEF Follows
<1>14. CASE Finish(w) \/ Crash(w)
  <2>1. head' \in Seq(Boundary)
    BY DEF TypeOK
  <2>2. IsPrefix(<<>>, head')
    BY <2>1, EmptyPrefix
  <2>3. /\ pc'[w] = "idle" /\ records'[w] = <<>> /\ cursor'[w] = 0 /\ ~failed'[w]
        /\ agent'[w] = <<>> /\ acts'[w] = <<>>
    BY <1>t, <1>14 DEF Finish, Crash, Gone, Goto
  <2> QED
    BY <2>2, <2>3 DEF Follows
<1> QED
  BY <1>2, <1>3, <1>4, <1>5, <1>6, <1>7, <1>8, <1>9, <1>10, <1>11, <1>12, <1>13, <1>14
  DEF Attempt

(* The strengthening is inductive.                                         *)
LEMMA Inductive == Spec => []IInv
<1>1. Init => IInv
  <2> SUFFICES ASSUME Init, NEW w \in Workers PROVE Follows(w)
    BY TypeInit DEF Init, IInv, OneAttempt
  <2>1. IsPrefix(<<>>, head)
    BY TypeInit, EmptyPrefix DEF TypeOK
  <2> QED
    BY <2>1 DEF Init, Follows
<1>2. IInv /\ [Next]_vars => IInv'
  <2> SUFFICES ASSUME IInv, [Next]_vars PROVE IInv'
    OBVIOUS
  <2>1. TypeOK'
    BY TypeStep DEF IInv
  <2>2. CASE UNCHANGED vars
    BY <2>1, <2>2, FollowsUnchanged DEF IInv, OneAttempt, vars, pair, attempt
  <2>3. CASE Edit
    BY <2>1, <2>3, FollowsUnchanged DEF IInv, OneAttempt, Edit, attempt
  <2>4. ASSUME NEW w \in Workers, Attempt(w) PROVE IInv'
    BY <2>1, <2>4, OneAttemptStep, AttemptFollows, OthersFollow DEF IInv
  <2> QED
    BY <2>2, <2>3, <2>4 DEF Next
<1> QED
  BY <1>1, <1>2, PTL DEF Spec

(* CommittedFirst: no decision reaches an environment before it is durable. *)
THEOREM OnlyDurableActions == Spec => []CommittedFirst
<1>1. IInv => CommittedFirst
  <2> SUFFICES ASSUME IInv, NEW w \in Workers PROVE IsPrefix(acts[w], Decided(head))
    BY DEF CommittedFirst
  <2>1. /\ head \in Seq(Boundary) /\ records[w] \in Seq(Boundary)
        /\ acts[w] \in Seq(Decisions) /\ cursor[w] \in Nat
    BY DEF IInv, TypeOK
  <2>2. /\ Len(records[w]) <= Len(head)
        /\ \A i \in 1 .. Len(records[w]) : records[w][i] = head[i]
    BY <2>1, PrefixByIndex DEF IInv, Follows
  <2>3. /\ Len(acts[w]) = cursor[w] /\ cursor[w] <= Len(records[w])
        /\ \A i \in 1 .. cursor[w] : acts[w][i] = records[w][i].decision
    BY DEF IInv, Follows
  <2>4. /\ Decided(head) \in Seq(Decisions) /\ Len(Decided(head)) = Len(head)
        /\ \A i \in 1 .. Len(head) : Decided(head)[i] = head[i].decision
    BY <2>1, DecidedType
  <2>5. Len(acts[w]) <= Len(Decided(head))
    BY <2>1, <2>2, <2>3, <2>4
  <2>6. \A i \in 1 .. Len(acts[w]) : acts[w][i] = Decided(head)[i]
    BY <2>1, <2>2, <2>3, <2>4
  <2> QED
    BY <2>1, <2>4, <2>5, <2>6, PrefixByIndex, Zenon
<1> QED
  BY <1>1, Inductive, PTL

(* CalledAtFrontier: the model is asked only at the saved frontier.        *)
THEOREM NoResampling == Spec => []CalledAtFrontier
<1>1. IInv => CalledAtFrontier
  <2> SUFFICES ASSUME IInv, NEW w \in Workers, pc[w] = "calling"
               PROVE  agent[w] = Decided(head) /\ acts[w] = agent[w]
    BY DEF CalledAtFrontier
  <2>1. head \in Seq(Boundary) /\ acts[w] \in Seq(Decisions)
    BY DEF IInv, TypeOK
  <2>2. /\ agent[w] = acts[w] /\ head = records[w] /\ cursor[w] = Len(records[w])
        /\ Len(acts[w]) = cursor[w]
        /\ \A i \in 1 .. cursor[w] : acts[w][i] = records[w][i].decision
    BY DEF IInv, Follows
  <2>3. /\ Decided(head) \in Seq(Decisions) /\ Len(Decided(head)) = Len(head)
        /\ \A i \in 1 .. Len(head) : Decided(head)[i] = head[i].decision
    BY <2>1, DecidedType
  <2>4. Len(acts[w]) = Len(Decided(head))
        /\ \A i \in 1 .. Len(acts[w]) : acts[w][i] = Decided(head)[i]
    BY <2>2, <2>3
  <2>5. acts[w] = Decided(head)
    BY <2>1, <2>3, <2>4, SameElements
  <2> QED
    BY <2>2, <2>5
<1> QED
  BY <1>1, Inductive, PTL

(* HeadGrows: what is committed stays committed.                           *)
THEOREM CommittedForGood == Spec => HeadGrows
<1>1. IInv /\ [Next]_vars => [IsPrefix(head, head')]_vars
  <2> SUFFICES ASSUME IInv, [Next]_vars PROVE IsPrefix(head, head')
    OBVIOUS
  <2>1. head \in Seq(Boundary)
    BY DEF IInv, TypeOK
  <2>2. CASE head' = head
    BY <2>1, <2>2, SelfPrefix
  <2>3. ASSUME NEW w \in Workers, pc[w] = "replace", head' = Append(records[w], line[w])
        PROVE  IsPrefix(head, head')
    <3>1. head = records[w] /\ line[w] \in Boundary
      BY <2>3 DEF IInv, Follows, TypeOK
    <3> QED
      BY <2>1, <2>3, <3>1, AppendPrefix
  <2>4. CASE Edit \/ UNCHANGED vars
    BY <2>2, <2>4 DEF Edit, vars, pair
  <2>5. ASSUME NEW w \in Workers, Attempt(w)
        PROVE  head' = head \/ (pc[w] = "replace" /\ head' = Append(records[w], line[w]))
    <3>1. CASE Create(w) \/ WriteHeader(w) \/ WriteFirstHead(w) \/ Load(w) \/ Refuse(w)
               \/ Opened(w) \/ \E e \in Evidence : Replay(w, e) \/ Diverge(w, e) \/ Call(w, e)
      BY <3>1
      DEF Create, WriteHeader, WriteFirstHead, Load, Refuse, Opened, Replay, Diverge, Call, pair
    <3>2. CASE AgentFails(w) \/ AppendLine(w) \/ AppendFails(w) \/ Finish(w)
               \/ \E d \in Decisions : Answered(w, d)
      BY <3>2 DEF AgentFails, AppendLine, AppendFails, Finish, Answered, pair
    <3>3. CASE ReplaceHead(w) \/ ReplaceFails(w) \/ Crash(w)
      BY <3>3 DEF ReplaceHead, ReplaceFails, Crash
    <3> QED
      BY <2>5, <3>1, <3>2, <3>3 DEF Attempt
  <2> QED
    BY <2>2, <2>3, <2>4, <2>5 DEF Next
<1> QED
  BY <1>1, Inductive, PTL DEF Spec, HeadGrows

(* ScoredIsCommitted: an attempt hands in its episode only where it has       *)
(* replayed the whole journal and the head still stands for it, so what is    *)
(* scored is the committed episode and not a part of it.                      *)
THEOREM WholeEpisodesScored == Spec => ScoredIsCommitted
<1>1. IInv /\ [Next]_vars => [\A episode \in scored' \ scored : episode = Decided(head)]_vars
  <2> SUFFICES ASSUME IInv, [Next]_vars, NEW episode \in scored' \ scored
               PROVE  episode = Decided(head)
    OBVIOUS
  <2>1. PICK w \in Workers : Attempt(w)
    BY DEF Next, Edit, vars
  <2>2. Finish(w)
    <3>1. scored' # scored
      OBVIOUS
    <3>2. ~(Create(w) \/ WriteHeader(w) \/ WriteFirstHead(w) \/ Load(w) \/ Refuse(w)
            \/ Opened(w) \/ \E e \in Evidence : Replay(w, e) \/ Diverge(w, e) \/ Call(w, e))
      BY <3>1 DEF Create, WriteHeader, WriteFirstHead, Load, Refuse, Opened, Replay, Diverge,
                  Call
    <3>3. ~(AgentFails(w) \/ AppendLine(w) \/ AppendFails(w) \/ ReplaceHead(w)
            \/ ReplaceFails(w) \/ Crash(w) \/ \E d \in Decisions : Answered(w, d))
      BY <3>1 DEF AgentFails, AppendLine, AppendFails, ReplaceHead, ReplaceFails, Crash, Answered
    <3> QED
      BY <2>1, <3>2, <3>3 DEF Attempt
  <2>3. /\ episode = acts[w] /\ cursor[w] = Len(records[w]) /\ head = records[w]
    BY <2>2 DEF Finish, ReplayComplete, Current
  <2>4. /\ head \in Seq(Boundary) /\ acts[w] \in Seq(Decisions)
        /\ Len(acts[w]) = cursor[w]
        /\ \A i \in 1 .. cursor[w] : acts[w][i] = records[w][i].decision
    BY DEF IInv, TypeOK, Follows
  <2>5. /\ Decided(head) \in Seq(Decisions) /\ Len(Decided(head)) = Len(head)
        /\ \A i \in 1 .. Len(head) : Decided(head)[i] = head[i].decision
    BY <2>4, DecidedType
  <2>6. /\ Len(acts[w]) = Len(Decided(head))
        /\ \A i \in 1 .. Len(acts[w]) : acts[w][i] = Decided(head)[i]
    BY <2>3, <2>4, <2>5
  <2> QED
    BY <2>3, <2>4, <2>5, <2>6, SameElements
<1> QED
  BY <1>1, Inductive, PTL DEF Spec, ScoredIsCommitted

(* HeldForInspection: where the journal and its head disagree and no attempt *)
(* is under way, none gets past __init__, and so only an edit by somebody     *)
(* else makes the pair readable again.                                        *)
THEOREM BrokenPairsHeld == Spec => HeldForInspection
<1>1. IInv /\ [Next]_vars => [Held /\ UNCHANGED edits => Held']_vars
  <2> SUFFICES ASSUME IInv, [Next]_vars, Held, UNCHANGED edits PROVE Held'
    OBVIOUS
  <2>1. ASSUME UNCHANGED <<lock, file, headFile, torn, journal, head>> PROVE Held'
    BY <2>1 DEF Held, Readable
  <2>2. ~Edit
    BY DEF Edit, IInv, TypeOK
  <2>3. CASE UNCHANGED vars
    BY <2>1, <2>3 DEF vars, pair
  <2>4. ASSUME NEW w \in Workers, Attempt(w) PROVE Refuse(w)
    <3>1. pc[w] = "idle"
      BY ConstantsAssumption DEF ConstantsAssumption, IInv, OneAttempt, Held
    <3>2. ~(Create(w) \/ Load(w))
      BY DEF Create, Load, Held
    <3>3. ~(WriteHeader(w) \/ WriteFirstHead(w) \/ Opened(w)
            \/ \E e \in Evidence : Replay(w, e) \/ Diverge(w, e) \/ Call(w, e))
      BY <3>1 DEF WriteHeader, WriteFirstHead, Opened, Replay, Diverge, Call, Invoked
    <3>4. ~(AgentFails(w) \/ AppendLine(w) \/ AppendFails(w) \/ ReplaceHead(w)
            \/ ReplaceFails(w) \/ Finish(w) \/ Crash(w) \/ \E d \in Decisions : Answered(w, d))
      BY <3>1 DEF AgentFails, AppendLine, AppendFails, ReplaceHead, ReplaceFails, Finish, Crash,
                  Answered
    <3> QED
      BY <2>4, <3>2, <3>3, <3>4 DEF Attempt
  <2>5. ASSUME NEW w \in Workers, Refuse(w) PROVE Held'
    BY <2>1, <2>5 DEF Refuse, pair
  <2> QED
    BY <2>2, <2>3, <2>4, <2>5 DEF Next
<1> QED
  BY <1>1, Inductive, PTL DEF Spec, HeldForInspection

-----------------------------------------------------------------------------
(* The worker process *)

LEMMA SendType ==
  ASSUME DeadlineTypeOK, NEW kind \in {"postprocessing", "result", "error"}, Send(kind)
  PROVE  pipe' \in Seq(Messages)
  <1>1. time \in Nat /\ pipe \in Seq(Messages)
    BY DEF DeadlineTypeOK
  <1>2. [kind |-> kind, at |-> time] \in Messages
    BY <1>1 DEF Messages
  <1> QED BY <1>1, <1>2 DEF Send

LEMMA ReceiveType ==
  ASSUME DeadlineTypeOK, pipe # <<>>
  PROVE  /\ Head(pipe) \in Messages /\ Tail(pipe) \in Seq(Messages)
         /\ Head(pipe).at \in Nat
         /\ Head(pipe).kind \in {"postprocessing", "result", "error"}
  <1>1. Head(pipe) \in Messages /\ Tail(pipe) \in Seq(Messages)
    BY DEF DeadlineTypeOK
  <1> QED BY <1>1 DEF Messages

LEMMA MarkType ==
  ASSUME DeadlineTypeOK, Len(marks) < MaxMarks
  PROVE  /\ Append(marks, time) \in Seq(Nat)
         /\ Len(Append(marks, time)) <= MaxMarks
  BY DeadlineAssumption DEF DeadlineAssumption, DeadlineTypeOK

LEMMA ChildTypes ==
  ASSUME DeadlineTypeOK, Child
  PROVE  DeadlineTypeOK'
  <1>1. CASE Setsid
    BY <1>1 DEF DeadlineTypeOK, Setsid, supervisor
  <1>2. CASE StartNative
    BY <1>2 DEF DeadlineTypeOK, StartNative, supervisor
  <1>3. CASE NativeEnds
    BY <1>3 DEF DeadlineTypeOK, NativeEnds, supervisor
  <1>4. CASE Mark
    BY <1>4, SendType, MarkType DEF DeadlineTypeOK, Mark, supervisor
  <1>5. CASE WriteResult
    BY <1>5 DEF DeadlineTypeOK, WriteResult, supervisor
  <1>6. CASE SendResult
    BY <1>6, SendType DEF DeadlineTypeOK, SendResult, supervisor
  <1>7. CASE Fails
    BY <1>7, SendType DEF DeadlineTypeOK, Fails, supervisor
  <1>8. CASE CloseConnection
    BY <1>8 DEF DeadlineTypeOK, CloseConnection, supervisor
  <1>9. CASE Exits
    BY <1>9 DEF DeadlineTypeOK, Exits, supervisor
  <1> QED BY <1>1, <1>2, <1>3, <1>4, <1>5, <1>6, <1>7, <1>8, <1>9 DEF Child

LEMMA SuperviseTypes ==
  ASSUME DeadlineTypeOK, Supervise
  PROVE  DeadlineTypeOK'
  <1>1. CASE Spawn
    BY <1>1 DEF DeadlineTypeOK, Spawn
  <1>2. CASE SpawnFails
    BY <1>2 DEF DeadlineTypeOK, SpawnFails, job, Outcomes
  <1>3. CASE Started
    BY <1>3 DEF DeadlineTypeOK, Started, job
  <1>4. CASE Check
    BY <1>4 DEF DeadlineTypeOK, Check, job, Ends, Outcomes
  <1>5. CASE Receive
    BY <1>5, ReceiveType DEF DeadlineTypeOK, Receive, job, Ends, Outcomes
  <1>6. CASE EndOfPipe
    BY <1>6 DEF DeadlineTypeOK, EndOfPipe, job, Ends, Outcomes
  <1>7. CASE PollTimesOut
    BY <1>7 DEF DeadlineTypeOK, PollTimesOut, job
  <1>8. CASE IsAlive
    BY <1>8 DEF DeadlineTypeOK, IsAlive, job, Ends, Outcomes
  <1>9. CASE KillGroup
    BY <1>9 DEF DeadlineTypeOK, KillGroup, Killed
  <1>10. CASE NoGroup
    BY <1>10 DEF DeadlineTypeOK, NoGroup, job
  <1>11. CASE KillLeader
    BY <1>11 DEF DeadlineTypeOK, KillLeader, Killed
  <1>12. CASE Join
    BY <1>12 DEF DeadlineTypeOK, Join, job, Outcomes
  <1> QED BY <1>1, <1>2, <1>3, <1>4, <1>5, <1>6, <1>7, <1>8, <1>9, <1>10, <1>11,
             <1>12 DEF Supervise

\* The variables keep their types, whatever the child does and whenever it or
\* the supervisor is killed.
THEOREM DeadlineTypes == DeadlineSpec => []DeadlineTypeOK
  <1>1. DeadlineInit => DeadlineTypeOK
    <2> SUFFICES ASSUME DeadlineInit PROVE DeadlineTypeOK
      OBVIOUS
    <2>1. <<>> \in Seq(Nat) /\ <<>> \in Seq(Messages) /\ Len(<<>>) = 0
      OBVIOUS
    <2>2. marks \in Seq(Nat) /\ pipe \in Seq(Messages) /\ Len(marks) <= MaxMarks
      BY <2>1, DeadlineAssumption DEF DeadlineAssumption, DeadlineInit
    <2>3. time \in 0..MaxTime /\ now \in 0..MaxTime /\ natives \subseteq Natives
      BY DeadlineAssumption DEF DeadlineAssumption, DeadlineInit
    <2>4. /\ sup = "start" /\ outcome \in Outcomes /\ child = "none"
          /\ post \in Nat \cup {Never}
          /\ result \in BOOLEAN /\ early \in BOOLEAN /\ cut \in BOOLEAN
      BY Zenon DEF DeadlineInit, Outcomes
    <2> QED BY <2>2, <2>3, <2>4 DEF DeadlineTypeOK
  <1>2. DeadlineTypeOK /\ [DeadlineNext]_deadlineVars => DeadlineTypeOK'
    <2> SUFFICES ASSUME DeadlineTypeOK, [DeadlineNext]_deadlineVars PROVE DeadlineTypeOK'
      OBVIOUS
    <2>1. CASE Supervise
      BY <2>1, SuperviseTypes
    <2>2. CASE Child
      BY <2>2, ChildTypes
    <2>3. CASE Terminate
      BY <2>3 DEF DeadlineTypeOK, Terminate, job, Outcomes
    <2>4. CASE Tick
      BY <2>4, DeadlineAssumption DEF DeadlineAssumption, DeadlineTypeOK, Tick, supervisor, job
    <2>5. CASE UNCHANGED deadlineVars
      BY <2>5 DEF DeadlineTypeOK, deadlineVars, supervisor, job
    <2> QED BY <2>1, <2>2, <2>3, <2>4, <2>5 DEF DeadlineNext
  <1> QED BY <1>1, <1>2, PTL DEF DeadlineSpec

-----------------------------------------------------------------------------
(* What a call leaves behind.  Stopped holds from the kill on, and a step of  *)
(* the child cannot undo it: it takes a child that is not stopped to start a  *)
(* process.                                                                   *)

Stopped ==
  /\ child \in {"none", "dead", "stuck"}
  /\ natives # {} => early

KillInv ==
  /\ sup \in {"start", "spawned", "check", "poll", "alive", "kill", "leader", "join", "done"}
  /\ sup = "start" => child = "none" /\ natives = {}
  /\ sup = "leader" => early
  /\ sup = "join" => Stopped
  /\ sup = "done" /\ ~cut => Stopped

LEMMA ChildStaysStopped ==
  ASSUME Child, Stopped
  PROVE  Stopped'
  <1>1. CASE NativeEnds
    BY <1>1 DEF Stopped, NativeEnds, supervisor
  <1>2. CASE Exits
    BY <1>2 DEF Stopped, Exits, supervisor
  <1> QED BY <1>1, <1>2 DEF Child, Stopped, Setsid, StartNative, Mark,
             WriteResult, SendResult, Fails, CloseConnection

LEMMA ChildStaysUnborn ==
  ASSUME Child, child = "none", natives = {}
  PROVE  FALSE
  BY DEF Child, Setsid, StartNative, NativeEnds, Mark,
         WriteResult, SendResult,
         Fails, CloseConnection, Exits

LEMMA ChildLeavesSupervisor ==
  ASSUME Child
  PROVE  UNCHANGED <<time, sup, now, post, outcome, early, cut>>
  BY DEF Child, Setsid, StartNative, NativeEnds, Mark,
         WriteResult, SendResult,
         Fails, CloseConnection, Exits, supervisor

LEMMA SuperviseKills ==
  ASSUME KillInv, Supervise
  PROVE  KillInv'
  <1>1. CASE Spawn
    BY <1>1 DEF KillInv, Spawn
  <1>2. CASE SpawnFails
    BY <1>2 DEF KillInv, SpawnFails, Stopped, job
  <1>3. CASE Started
    BY <1>3 DEF KillInv, Started
  <1>4. CASE Check
    BY <1>4 DEF KillInv, Check, Ends
  <1>5. CASE Receive
    BY <1>5 DEF KillInv, Receive, Ends
  <1>6. CASE EndOfPipe
    BY <1>6 DEF KillInv, EndOfPipe, Ends
  <1>7. CASE PollTimesOut
    BY <1>7 DEF KillInv, PollTimesOut
  <1>8. CASE IsAlive
    BY <1>8 DEF KillInv, IsAlive, Ends
  <1>9. CASE KillGroup
    BY <1>9 DEF KillInv, KillGroup, Killed, Stopped
  <1>10. CASE NoGroup
    BY <1>10 DEF KillInv, NoGroup
  <1>11. CASE KillLeader
    BY <1>11 DEF KillInv, KillLeader, Killed, Stopped
  <1>12. CASE Join
    BY <1>12 DEF KillInv, Join, Stopped, job
  <1> QED BY <1>1, <1>2, <1>3, <1>4, <1>5, <1>6, <1>7, <1>8, <1>9, <1>10, <1>11,
             <1>12 DEF Supervise

\* However a call ends, and whatever its job did, its child is killed and so is
\* every native process of a child that led its group.
THEOREM NothingLeft == DeadlineSpec => []NothingLeftBehind
  <1>1. DeadlineInit => KillInv
    BY DEF DeadlineInit, KillInv
  <1>2. KillInv /\ [DeadlineNext]_deadlineVars => KillInv'
    <2> SUFFICES ASSUME KillInv, [DeadlineNext]_deadlineVars PROVE KillInv'
      OBVIOUS
    <2>1. CASE Supervise
      BY <2>1, SuperviseKills
    <2>2. CASE Child
      BY <2>2, ChildStaysStopped, ChildStaysUnborn, ChildLeavesSupervisor DEF KillInv
    <2>3. CASE Terminate
      <3>1. sup' \in {"kill", "done"} /\ UNCHANGED <<child, natives, early>>
        BY <2>3 DEF Terminate, job
      <3>2. sup' = "done" /\ ~cut' => sup \in {"start", "join"}
        <4>1. CASE cut \/ sup \in {"spawned", "kill", "leader"}
          BY <2>3, <4>1, Zenon DEF Terminate
        <4>2. CASE sup \in {"check", "poll", "alive"}
          BY <2>3, <4>2 DEF Terminate
        <4>3. CASE sup \in {"start", "join"}
          BY <4>3
        <4> QED BY <2>3, <4>1, <4>2, <4>3 DEF Terminate, KillInv
      <3> QED BY <3>1, <3>2 DEF KillInv, Stopped
    <2>4. CASE Tick
      BY <2>4 DEF KillInv, Tick, Stopped, supervisor, job
    <2>5. CASE UNCHANGED deadlineVars
      BY <2>5 DEF KillInv, Stopped, deadlineVars, supervisor, job
    <2> QED BY <2>1, <2>2, <2>3, <2>4, <2>5 DEF DeadlineNext
  <1>3. KillInv => NothingLeftBehind
    BY DEF KillInv, NothingLeftBehind, Stopped
  <1> QED BY <1>1, <1>2, <1>3, PTL DEF DeadlineSpec

-----------------------------------------------------------------------------
(* What the messages say.  A result is announced after its file is in place,  *)
(* and a mark is not received before the first one was made.                  *)

\* some mark was made by time t
After(t, ms) == ms # <<>> /\ ms[1] <= t

Truthful(m, written, ms) ==
  /\ m.kind = "result" => written
  /\ m.kind = "postprocessing" => After(m.at, ms)

AllTruthful(p, written, ms) == \A i \in DOMAIN p : Truthful(p[i], written, ms)

\* nothing has ended the call yet
Fresh == sup \in {"start", "spawned", "check", "poll", "alive"} => outcome = "none"

Told ==
  /\ Fresh
  /\ child = "written" => result
  /\ marks # <<>> => After(time, marks)
  /\ AllTruthful(pipe, result, marks)
  /\ post # Never => After(post, marks)
  /\ outcome = "result" => result
  /\ outcome = "postprocessing" => marks # <<>> /\ now >= marks[1] + PostLimit

LEMMA AppendTruthful ==
  ASSUME NEW p \in Seq(Messages), NEW m \in Messages, NEW written, NEW ms,
         AllTruthful(p, written, ms), Truthful(m, written, ms)
  PROVE  AllTruthful(Append(p, m), written, ms)
  <1> SUFFICES ASSUME NEW i \in DOMAIN Append(p, m)
               PROVE  Truthful(Append(p, m)[i], written, ms)
    BY DEF AllTruthful
  <1>1. CASE i \in DOMAIN p
    <2>1. Append(p, m)[i] = p[i]
      BY <1>1
    <2> QED BY <1>1, <2>1 DEF AllTruthful
  <1>2. CASE i \notin DOMAIN p
    <2>1. Append(p, m)[i] = m
      BY <1>2
    <2> QED BY <2>1
  <1> QED BY <1>1, <1>2

LEMMA TailTruthful ==
  ASSUME NEW p \in Seq(Messages), p # <<>>, NEW written, NEW ms,
         AllTruthful(p, written, ms)
  PROVE  Truthful(Head(p), written, ms) /\ AllTruthful(Tail(p), written, ms)
  <1>1. Truthful(Head(p), written, ms)
    BY DEF AllTruthful
  <1>2. ASSUME NEW i \in DOMAIN Tail(p)
        PROVE  Truthful(Tail(p)[i], written, ms)
    <2>1. i + 1 \in DOMAIN p /\ Tail(p)[i] = p[i + 1]
      BY <1>2
    <2> QED BY <2>1 DEF AllTruthful
  <1> QED BY <1>1, <1>2 DEF AllTruthful

\* a later mark leaves what was true, true
LEMMA MarkTruthful ==
  ASSUME NEW p, NEW written, NEW ms \in Seq(Nat), NEW t \in Nat,
         AllTruthful(p, written, ms)
  PROVE  AllTruthful(p, written, Append(ms, t))
  <1>1. ms # <<>> => Append(ms, t) # <<>> /\ Append(ms, t)[1] = ms[1]
    OBVIOUS
  <1> QED BY <1>1 DEF AllTruthful, Truthful, After

\* a message sent is true if what it says is
LEMMA SendTold ==
  ASSUME DeadlineTypeOK, NEW kind \in {"postprocessing", "result", "error"}, Send(kind),
         NEW written, NEW ms, AllTruthful(pipe, written, ms),
         kind = "result" => written,
         kind = "postprocessing" => After(time, ms)
  PROVE  AllTruthful(pipe', written, ms)
  <1>1. PICK m \in Messages : m.kind = kind /\ m.at = time
                              /\ (pipe' = pipe \/ pipe' = Append(pipe, m))
    <2>1. time \in Nat
      BY DEF DeadlineTypeOK
    <2>2. [kind |-> kind, at |-> time] \in Messages
      BY <2>1 DEF Messages
    <2> QED BY <2>2 DEF Send
  <1>2. Truthful(m, written, ms)
    BY <1>1 DEF Truthful
  <1>3. pipe \in Seq(Messages)
    BY DEF DeadlineTypeOK
  <1> QED BY <1>1, <1>2, <1>3, AppendTruthful

LEMMA MarkTold ==
  ASSUME DeadlineTypeOK, Told, Mark
  PROVE  Told'
  <1>1. time \in Nat /\ marks \in Seq(Nat)
    BY DEF DeadlineTypeOK
  <1>2. marks' = Append(marks, time)
        /\ UNCHANGED <<time, sup, child, result, post, outcome, now>>
    BY DEF Mark, supervisor
  <1>3. marks' # <<>> /\ (marks # <<>> => marks'[1] = marks[1])
        /\ (marks = <<>> => marks'[1] = time)
    BY <1>1, <1>2
  <1>4. After(time, marks')
    BY <1>1, <1>3 DEF Told, After
  <1>5. AllTruthful(pipe, result, marks')
    BY <1>1, <1>2, MarkTruthful DEF Told
  <1>6. AllTruthful(pipe', result, marks')
    BY <1>4, <1>5, SendTold DEF Mark
  <1>7. post # Never => After(post, marks')
    BY <1>3 DEF Told, After
  <1>8. outcome = "postprocessing" => marks' # <<>> /\ now >= marks'[1] + PostLimit
    BY <1>3 DEF Told
  <1> QED BY <1>2, <1>4, <1>6, <1>7, <1>8 DEF Told, Fresh

LEMMA ChildTold ==
  ASSUME DeadlineTypeOK, Told, Child
  PROVE  Told'
  <1>1. CASE Setsid
    BY <1>1 DEF Told, Fresh, Setsid, supervisor
  <1>2. CASE StartNative
    BY <1>2 DEF Told, Fresh, StartNative, supervisor
  <1>3. CASE NativeEnds
    BY <1>3 DEF Told, Fresh, NativeEnds, supervisor
  <1>4. CASE Mark
    BY <1>4, MarkTold
  <1>5. CASE WriteResult
    <2>1. AllTruthful(pipe, TRUE, marks)
      BY DEF Told, AllTruthful, Truthful
    <2> QED BY <1>5, <2>1 DEF Told, Fresh, WriteResult, supervisor
  <1>6. CASE SendResult
    <2>1. AllTruthful(pipe', result, marks)
      BY <1>6, SendTold DEF SendResult, Told
    <2> QED BY <1>6, <2>1 DEF Told, Fresh, SendResult, supervisor
  <1>7. CASE Fails
    <2>1. AllTruthful(pipe', result, marks)
      BY <1>7, SendTold DEF Fails, Told
    <2> QED BY <1>7, <2>1 DEF Told, Fresh, Fails, supervisor
  <1>8. CASE CloseConnection
    BY <1>8 DEF Told, Fresh, CloseConnection, supervisor
  <1>9. CASE Exits
    BY <1>9 DEF Told, Fresh, Exits, supervisor
  <1> QED BY <1>1, <1>2, <1>3, <1>4, <1>5, <1>6, <1>7, <1>8, <1>9 DEF Child

LEMMA ReceiveTold ==
  ASSUME DeadlineTypeOK, Told, Receive
  PROVE  Told'
  <1>1. /\ pipe \in Seq(Messages) /\ pipe # <<>> /\ pipe' = Tail(pipe)
        /\ UNCHANGED <<time, now, child, result, marks>>
    BY DEF DeadlineTypeOK, Receive, job
  <1>2. Truthful(Head(pipe), result, marks) /\ AllTruthful(pipe', result, marks)
    BY <1>1, TailTruthful DEF Told
  <1>3. CASE Head(pipe).kind = "postprocessing"
    <2>1. /\ sup' = "check" /\ sup = "poll" /\ outcome' = outcome
          /\ post' = IF post = Never THEN Head(pipe).at ELSE post
      BY <1>3 DEF Receive
    <2>2. post' # Never => After(post', marks)
      BY <1>2, <1>3, <2>1 DEF Truthful, Told
    <2> QED BY <1>1, <1>2, <2>1, <2>2 DEF Told, Fresh
  <1>4. CASE Head(pipe).kind # "postprocessing"
    <2>1. outcome' = Head(pipe).kind /\ post' = post /\ sup' = "kill"
      BY <1>4 DEF Receive, Ends
    <2>2. outcome' # "postprocessing" /\ (outcome' = "result" => result)
      BY <1>2, <1>4, <2>1 DEF Truthful
    <2> QED BY <1>1, <1>2, <2>1, <2>2 DEF Told, Fresh
  <1> QED BY <1>3, <1>4

LEMMA CheckTold ==
  ASSUME DeadlineTypeOK, Told, Check
  PROVE  Told'
  <1>1. now' = time /\ UNCHANGED <<time, post, pipe, child, result, marks>>
    BY DEF Check, job
  <1>2. outcome = "none" /\ (sup' = "kill" \/ outcome' = "none")
    BY DEF Check, Ends, Told, Fresh
  <1>3. CASE outcome' = "postprocessing"
    <2>1. PostOver(time) /\ sup' = "kill"
      BY <1>2, <1>3 DEF Check, Ends
    <2>2. time \in Nat /\ post \in Nat /\ marks \in Seq(Nat)
      BY <2>1 DEF DeadlineTypeOK, PostOver
    <2>3. marks # <<>> /\ marks[1] <= post /\ marks[1] \in Nat
      BY <2>1, <2>2 DEF PostOver, Told, After
    <2>4. time >= marks[1] + PostLimit
      BY <2>1, <2>2, <2>3, DeadlineAssumption DEF DeadlineAssumption, PostOver
    <2> QED BY <1>1, <1>3, <2>1, <2>3, <2>4 DEF Told, Fresh
  <1>4. CASE outcome' # "postprocessing"
    <2>1. outcome' # "result"
      BY <1>2 DEF Check, Ends
    <2> QED BY <1>1, <1>2, <1>4, <2>1 DEF Told, Fresh
  <1> QED BY <1>3, <1>4

LEMMA SuperviseTold ==
  ASSUME DeadlineTypeOK, Told, Supervise
  PROVE  Told'
  <1>1. CASE Spawn
    BY <1>1 DEF Told, Fresh, Spawn
  <1>2. CASE SpawnFails
    BY <1>2 DEF Told, Fresh, SpawnFails, job
  <1>3. CASE Started
    BY <1>3 DEF Told, Fresh, Started, job
  <1>4. CASE Check
    BY <1>4, CheckTold
  <1>5. CASE Receive
    BY <1>5, ReceiveTold
  <1>6. CASE EndOfPipe
    BY <1>6 DEF Told, Fresh, EndOfPipe, Ends, job
  <1>7. CASE PollTimesOut
    BY <1>7 DEF Told, Fresh, PollTimesOut, job
  <1>8. CASE IsAlive
    BY <1>8 DEF Told, Fresh, IsAlive, Ends, job
  <1>9. CASE KillGroup
    BY <1>9 DEF Told, Fresh, KillGroup, Killed
  <1>10. CASE NoGroup
    BY <1>10 DEF Told, Fresh, NoGroup, job
  <1>11. CASE KillLeader
    BY <1>11 DEF Told, Fresh, KillLeader, Killed
  <1>12. CASE Join
    BY <1>12 DEF Told, Fresh, Join, job
  <1> QED BY <1>1, <1>2, <1>3, <1>4, <1>5, <1>6, <1>7, <1>8, <1>9, <1>10, <1>11,
             <1>12 DEF Supervise

LEMMA ToldInvariant == DeadlineSpec => [](DeadlineTypeOK /\ Told)
  <1>1. DeadlineInit => Told
    BY DEF DeadlineInit, Told, Fresh, AllTruthful
  <1>2. DeadlineTypeOK /\ Told /\ [DeadlineNext]_deadlineVars => Told'
    <2> SUFFICES ASSUME DeadlineTypeOK, Told, [DeadlineNext]_deadlineVars PROVE Told'
      OBVIOUS
    <2>1. CASE Supervise
      BY <2>1, SuperviseTold
    <2>2. CASE Child
      BY <2>2, ChildTold
    <2>3. CASE Terminate
      <3>1. sup' \in {"kill", "done"} /\ outcome' = "terminated"
        BY <2>3 DEF Terminate
      <3> QED BY <2>3, <3>1 DEF Told, Fresh, Terminate, job
    <2>4. CASE Tick
      <3>1. time \in Nat /\ time' = time + 1 /\ marks \in Seq(Nat)
        BY <2>4 DEF Tick, DeadlineTypeOK
      <3>2. UNCHANGED <<sup, child, result, marks, post, outcome, now, pipe>>
        BY <2>4 DEF Tick, supervisor, job
      <3>3. marks # <<>> => After(time', marks)
        BY <3>1 DEF Told, After
      <3> QED BY <3>2, <3>3 DEF Told, Fresh
    <2>5. CASE UNCHANGED deadlineVars
      BY <2>5 DEF Told, Fresh, deadlineVars, supervisor, job
    <2> QED BY <2>1, <2>2, <2>3, <2>4, <2>5 DEF DeadlineNext
  <1> QED BY <1>1, <1>2, DeadlineTypes, PTL DEF DeadlineSpec

\* A result is returned only from a file that is in place.
THEOREM ResultComplete == DeadlineSpec => []ResultIsComplete
  <1>1. Told => ResultIsComplete
    BY DEF Told, ResultIsComplete
  <1> QED BY <1>1, ToldInvariant, PTL

\* Postprocessing is never cut short: its limit counts from the first mark.
THEOREM ChargedFromFirstMark == DeadlineSpec => []PostprocessingCharged
  <1>1. Told => PostprocessingCharged
    BY DEF Told, PostprocessingCharged
  <1> QED BY <1>1, ToldInvariant, PTL
=============================================================================
