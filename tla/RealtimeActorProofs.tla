-------------------------- MODULE RealtimeActorProofs --------------------------
(***************************************************************************)
(* Theorems about RealtimeActor, for every number of submissions, horizon,  *)
(* number of calls, delay and choice of validity windows.                   *)
(*                                                                         *)
(* The inductive invariant is built in layers, each proved from the ones    *)
(* before it: TypeOK and Control (the actor is not done while it decides or *)
(* calls the environment), Places and HeldInOnePlace (where a submission    *)
(* may be), CandidatesCurrent and DispatchIsCurrent (what a dispatch was    *)
(* decided on), VersionsSpent and OneWinnerPerVersion.                      *)
(*                                                                         *)
(* The second half is about what the actor executes and what it leaves      *)
(* undone, on top of those theorems: an action is accepted once, a delayed  *)
(* call runs only for an open action and inside its lifetime, the work that *)
(* a replacement replaces is gone while it executes, and every step of the  *)
(* actor is a step of ActionLifecycle or none.  Last, what a step may never *)
(* do: start a call of the environment once a fence has failed, or          *)
(* supersede delayed work but in the step that accepts its replacement.     *)
(***************************************************************************)
EXTENDS RealtimeActor, WellFoundedInduction, TLAPS

(* The newest of some submissions is one of them, and no other is newer.   *)
LEMMA NewestIsNewest ==
  ASSUME NEW S \in SUBSET Subs, S # {}
  PROVE  /\ Newest(S) \in S
         /\ \A t \in S : t <= Newest(S)
<1> DEFINE Back == {MaxSubmissions - s : s \in S}
<1>1. Back \in SUBSET Nat /\ Back # {}
  <2>1. \A s \in S : s \in Int /\ MaxSubmissions - s \in Nat
    BY ConstantsAssumption DEF Subs, ConstantsAssumption
  <2>2. PICK s \in S : TRUE
    OBVIOUS
  <2> QED
    BY <2>1, <2>2
<1>2. PICK b \in Back : \A y \in Back : ~ (<<y, b>> \in OpToRel(<, Nat))
  BY ZenonT(30), <1>1, NatLessThanWellFounded, WFMin
<1>3. PICK s \in S : b = MaxSubmissions - s
  OBVIOUS
<1>4. \A t \in S : t <= s
  <2> TAKE t \in S
  <2>1. MaxSubmissions - t \in Back
    OBVIOUS
  <2>2. ~ (MaxSubmissions - t < b)
    BY <1>1, <1>2, <2>1 DEF OpToRel
  <2> QED
    BY <1>3, <2>2, ConstantsAssumption DEF Subs, ConstantsAssumption
<1> QED
  BY <1>4 DEF Newest

(* While the actor decides or calls the environment it is not done, and it  *)
(* is done when the horizon is reached.                                     *)
Control ==
  /\ pc \in {"clockDue", "selecting", "stepping", "investigationDue",
            "investigationSelecting", "investigating"} => ~done
  /\ tick < Horizon \/ done
(* A settled submission gets a status, an open one keeps having none.       *)
LEMMA ReceiptsType ==
  ASSUME TypeOK, NEW S, NEW status, \A s \in S \cap Subs : status[s] \in Statuses
  PROVE  Receipts(S, status) \in [Subs -> Statuses \cup {"none"}]
BY DEF TypeOK, Receipts

(* Settling keeps the types of the receipts and the futures.              *)
LEMMA SettleType ==
  ASSUME TypeOK, NEW S, NEW status, \A s \in S \cap Subs : status[s] \in Statuses,
         Settle(S, status)
  PROVE  /\ receipt' \in [Subs -> Statuses \cup {"none"}]
         /\ future' \in [Subs -> Futures]
BY ReceiptsType DEF TypeOK, Settle, Futures

(* So does settling with the drain of _future_completions.                *)
LEMMA SettleAndDrainType ==
  ASSUME TypeOK, NEW S, NEW R, NEW status,
         \A s \in S \cap Subs : status[s] \in Statuses,
         SettleAndDrain(S, R, status)
  PROVE  /\ receipt' \in [Subs -> Statuses \cup {"none"}]
         /\ future' \in [Subs -> Futures]
BY ReceiptsType DEF TypeOK, SettleAndDrain, Futures

(* Cancelling queued calls leaves a queue of due ticks.                    *)
LEMMA UnqueueType ==
  ASSUME TypeOK, NEW S, NEW refused, Unqueue(S, refused)
  PROVE  native' \in [Subs \X Calls -> DueTicks]
BY ConstantsAssumption DEF TypeOK, Unqueue, DueTicks, ConstantsAssumption

(* A call is queued for a tick before the horizon.                         *)
LEMMA RegistryRunsType ==
  ASSUME TypeOK, NEW s, NEW d \in Delays, RegistryRuns(s, d)
  PROVE  /\ native' \in [Subs \X Calls -> DueTicks]
         /\ ran' \subseteq Subs \X Calls
<1>1. ran' \subseteq Subs \X Calls
  BY DEF RegistryRuns, TypeOK, DueCalls
<1>2. ASSUME NEW c \in Subs \X Calls
      PROVE  (IF c[1] = s /\ d[c[2]] # 0 THEN tick + d[c[2]]
              ELSE IF c \in DueCalls THEN 0 ELSE native[c]) \in DueTicks
  <2>1. c[2] \in Calls /\ native[c] \in DueTicks /\ 0 \in DueTicks
    BY ConstantsAssumption DEF ConstantsAssumption, TypeOK, DueTicks
  <2>2. CASE d[c[2]] # 0
    BY <2>1, <2>2, ConstantsAssumption 
    DEF ConstantsAssumption, TypeOK, Delays, DueTicks, Ticks
  <2>3. CASE d[c[2]] = 0
    BY <2>1, <2>3
  <2> QED
    BY <2>2, <2>3
<1> QED
  BY <1>1, <1>2 DEF RegistryRuns

(* What _submit_locked builds from a caller's arguments is a submission.  *)
LEMMA ParametersType ==
  ASSUME TypeOK, submitted + 1 \in Subs, NEW p \in Parameters(submitted + 1)
  PROVE  p \in Submission
<1>1. tick \in Int /\ version \in Nat
  BY ConstantsAssumption DEF ConstantsAssumption, TypeOK, Ticks
<1>2. \A lead \in Leads \cup Lifetimes : tick + lead \in Int
  BY <1>1, ConstantsAssumption DEF ConstantsAssumption
<1>3. p.validFrom \in Int /\ p.expires \in Int
  BY <1>2 DEF Parameters
<1>4. p.kind \in Kinds /\ p.supersedes \in Subs \cup {NoSub} /\ p.key \in Subs
  BY DEF Parameters, TypeOK
<1>5. p.based \in Nat
  BY <1>1 DEF Parameters
<1> QED
  BY <1>3, <1>4, <1>5 DEF Parameters, Submission

(* A discarded candidate changes receipts, futures and candidates only.    *)
LEMMA DiscardType ==
  ASSUME TypeOK, NEW status \in Statuses, Discard(status)
  PROVE  /\ receipt' \in [Subs -> Statuses \cup {"none"}]
         /\ future' \in [Subs -> Futures]
         /\ valid' \subseteq Subs
         /\ pc' \in {"loop", pc}
         /\ UNCHANGED <<version, tick, submitted, sub, keys, pending, fences, active,
                        passed, deferred, native, accepted, ran, done, stop>>
<1>1. /\ receipt' \in [Subs -> Statuses \cup {"none"}]
      /\ future' \in [Subs -> Futures]
  <2> DEFINE s == Newest(valid)
  <2>1. SettleAndDrain({s}, {}, Each(status)) \/ Settle({s}, Each(status))
    BY DEF Discard
  <2> QED
    BY <2>1, SettleType, SettleAndDrainType DEF Each
<1> QED
  BY <1>1 DEF Discard, TypeOK

(* A failed boundary keeps the types and leaves the actor done.            *)
LEMMA BoundaryFailsType ==
  ASSUME TypeOK, NEW fenceTick, NEW next \in PCs, BoundaryFails(fenceTick, next)
  PROVE  TypeOK' /\ done' /\ pc' = next
<1> DEFINE E(refused) == Fenced(Expiring(fenceTick), refused)
           F(refused) == Unfenceable(Expiring(fenceTick), refused)
           status(refused) == [s \in Subs |-> IF s \in F(refused) THEN "fence_failed"
                                              ELSE IF s \in E(refused) THEN "expired"
                                              ELSE Verdict(s)]
<1>1. PICK refused : /\ Settle(E(refused) \cup InvalidFences, status(refused))
                     /\ Unqueue(E(refused), refused)
                     /\ deferred' = [s \in Subs |-> IF s \in E(refused) THEN {}
                                                     ELSE deferred[s]]
  BY DEF BoundaryFails
<1>2. \A s \in (E(refused) \cup InvalidFences) \cap Subs : status(refused)[s] \in Statuses
  BY DEF Verdict, InvalidFences, Statuses
<1>3. receipt' \in [Subs -> Statuses \cup {"none"}] /\ future' \in [Subs -> Futures]
  BY <1>1, <1>2, SettleType
<1>4. native' \in [Subs \X Calls -> DueTicks]
  BY <1>1, UnqueueType
<1> QED
  BY <1>1, <1>3, <1>4 DEF BoundaryFails, TypeOK, LiveFences, InvalidFences

(* No step takes the state out of its types, and what decides or calls the  *)
(* environment does so while the actor is not done.                         *)
LEMMA TypeStep ==
  ASSUME TypeOK, Control, [Next]_vars
  PROVE  TypeOK' /\ Control'
<1> USE DEF TypeOK, Control, PCs
<1>1. CASE ClockDue
  BY <1>1 DEF ClockDue
<1>2. CASE InvestigationDue
  BY <1>2 DEF InvestigationDue
<1>3. CASE LeaveLoop
  BY <1>3 DEF LeaveLoop
<1>4. CASE DispatchEnds
  BY <1>4 DEF DispatchEnds
<1>5. CASE Close
  <2>1. receipt' \in [Subs -> Statuses \cup {"none"}] /\ future' \in [Subs -> Futures]
    BY <1>5, SettleAndDrainType DEF Close, Each, Statuses
  <2> QED
    BY <1>5, <2>1 DEF Close
<1>6. CASE ClockBoundary
  <2> DEFINE invalid == {s \in pending : Verdict(s) # "valid"} \cup InvalidFences
             expired == Expiring(tick + 1)
             status  == [s \in Subs |-> IF s \in expired THEN "expired" ELSE Verdict(s)]
  <2>1. \A s \in (invalid \cup expired) \cap Subs : status[s] \in Statuses
    BY DEF Verdict, InvalidFences, Statuses
  <2>2. Settle(invalid \cup expired, status)
    BY <1>6 DEF ClockBoundary
  <2>3. receipt' \in [Subs -> Statuses \cup {"none"}] /\ future' \in [Subs -> Futures]
    BY <2>1, <2>2, SettleType
  <2>4. native' \in [Subs \X Calls -> DueTicks]
    BY <1>6, UnqueueType DEF ClockBoundary, BoundaryClears
  <2> QED
    BY <1>6, <2>3, <2>4
    DEF ClockBoundary, BoundaryClears, LiveFences, InvalidFences
<1>7. CASE ClockBoundaryFails
  BY <1>7, BoundaryFailsType, ConstantsAssumption
  DEF ClockBoundaryFails, ConstantsAssumption, Ticks
<1>8. CASE InvestigationBoundary
  <2> DEFINE expired == Expiring(tick)
             status  == [s \in Subs |-> IF s \in expired THEN "expired" ELSE Verdict(s)]
  <2>1. \A s \in (InvalidFences \cup expired) \cap Subs : status[s] \in Statuses
    BY DEF Verdict, InvalidFences, Statuses
  <2>2. Settle(InvalidFences \cup expired, status)
    BY <1>8 DEF InvestigationBoundary
  <2>3. receipt' \in [Subs -> Statuses \cup {"none"}] /\ future' \in [Subs -> Futures]
    BY <2>1, <2>2, SettleType
  <2>4. native' \in [Subs \X Calls -> DueTicks]
    BY <1>8, UnqueueType DEF InvestigationBoundary, BoundaryClears
  <2> QED
    BY <1>8, <2>3, <2>4
    DEF InvestigationBoundary, BoundaryClears, LiveFences, InvalidFences
<1>9. CASE InvestigationBoundaryFails
  BY <1>9, BoundaryFailsType, ConstantsAssumption
  DEF InvestigationBoundaryFails, ConstantsAssumption, Ticks
<1>10. CASE CandidateCanceled
  BY <1>10, DiscardType DEF CandidateCanceled, LockFree, Statuses
<1>11. CASE CandidateRejected
  BY <1>11, DiscardType DEF CandidateRejected, LockFree, Statuses
<1>12. CASE ArbitrationFails
  <2>1. receipt' \in [Subs -> Statuses \cup {"none"}] /\ future' \in [Subs -> Futures]
    BY <1>12, SettleAndDrainType DEF ArbitrationFails, Each, Statuses
  <2> QED
    BY <1>12, <2>1 DEF ArbitrationFails
<1>13. CASE Override
  <2>1. receipt' \in [Subs -> Statuses \cup {"none"}] /\ future' \in [Subs -> Futures]
    BY <1>13, SettleAndDrainType DEF Override
  <2>2. active' \in Subs
    BY <1>13, NewestIsNewest DEF Override
  <2> QED
    BY <1>13, <2>1, <2>2 DEF Override
<1>14. CASE Supervise
  <2>1. receipt' \in [Subs -> Statuses \cup {"none"}] /\ future' \in [Subs -> Futures]
    BY <1>14, SettleAndDrainType DEF Supervise
  <2>2. active' \in Subs \cup {NoSub} /\ passed' \in BOOLEAN /\ done' \in BOOLEAN
    BY <1>14 DEF Supervise
  <2>3. pc' \in {"stepping", "dispatched"} /\ (pc' = "stepping" => ~done')
    BY <1>14 DEF Supervise
  <2>4. tick' < Horizon \/ done'
    BY <1>14 DEF Supervise
  <2> QED
    BY <1>14, <2>1, <2>2, <2>3, <2>4 DEF Supervise
<1>15. CASE Commit
  <2> DEFINE s       == Newest(valid)
             older   == (valid \ {s}) \cup {t \in pending : t = sub[s].supersedes}
             dropped == InvalidFences \cap OtherFences(s)
             status  == [t \in Subs |-> IF t \in dropped THEN Verdict(t)
                                        ELSE "superseded"]
  <2>1. s \in Subs
    BY <1>15, NewestIsNewest DEF Commit
  <2>2. \A t \in Subs : status[t] \in Statuses
    BY DEF Verdict, InvalidFences, Statuses
  <2>3. SettleAndDrain(Replaced(s) \cup older \cup dropped, {s}, status)
    BY <1>15 DEF Commit
  <2>4. receipt' \in [Subs -> Statuses \cup {"none"}] /\ future' \in [Subs -> Futures]
    BY <2>2, <2>3, SettleAndDrainType
  <2>5. native' \in [Subs \X Calls -> DueTicks]
    BY <1>15, UnqueueType DEF Commit
  <2>6. fences' \subseteq Subs /\ pending' \subseteq Subs /\ accepted' \subseteq Subs
    BY <1>15, <2>1 DEF Commit, OtherFences, LiveFences
  <2>7. deferred' \in [Subs -> SUBSET Calls]
    BY <1>15 DEF Commit
  <2>8. pc' \in {"stepping", "investigating"} /\ ~done
    BY <1>15 DEF Commit, LockFree
  <2> QED
    BY <1>15, <2>1, <2>4, <2>5, <2>6, <2>7, <2>8 DEF Commit
<1>16. CASE CommitFails
  <2> DEFINE s       == Newest(valid)
             dropped == {t \in InvalidFences : t < s}
             status  == [t \in Subs |-> IF t \in dropped THEN Verdict(t)
                                        ELSE "fence_failed"]
  <2>1. \A t \in Subs : status[t] \in Statuses
    BY DEF Verdict, InvalidFences, Statuses
  <2>2. SettleAndDrain(Replaced(s) \cup {s} \cup dropped, {}, status)
    BY <1>16 DEF CommitFails
  <2>3. receipt' \in [Subs -> Statuses \cup {"none"}] /\ future' \in [Subs -> Futures]
    BY <2>1, <2>2, SettleAndDrainType
  <2>4. native' \in [Subs \X Calls -> DueTicks]
    BY <1>16, UnqueueType DEF CommitFails
  <2>5. fences' \subseteq Subs /\ pending' \subseteq Subs
    BY <1>16 DEF CommitFails, LiveFences
  <2>6. deferred' \in [Subs -> SUBSET Calls]
    BY <1>16 DEF CommitFails
  <2> QED
    BY <1>16, <2>3, <2>4, <2>5, <2>6 DEF CommitFails
<1>17. CASE StepRaises
  <2>1. receipt' \in [Subs -> Statuses \cup {"none"}] /\ future' \in [Subs -> Futures]
    BY <1>17, SettleAndDrainType DEF StepRaises, Each, Statuses
  <2> QED
    BY <1>17, <2>1 DEF StepRaises
<1>18. CASE StepInvalid
  <2>1. receipt' \in [Subs -> Statuses \cup {"none"}] /\ future' \in [Subs -> Futures]
    BY <1>18, SettleType DEF StepInvalid, Each, Statuses
  <2> QED
    BY <1>18, <2>1 DEF StepInvalid
<1>19. ASSUME NEW d \in Delays, NEW end \in BOOLEAN, StepReturns(d, end)
      PROVE  TypeOK' /\ Control'
  <2> DEFINE answered == IF Defers(d) THEN {} ELSE {active} \cap Subs
             status == [t \in Subs |-> IF t \in answered
                                       THEN IF passed THEN "executed" ELSE "rejected"
                                       ELSE IF t \in Unresolved(d, end) THEN "failed"
                                       ELSE IF Late(t) THEN "expired" ELSE "executed"]
  <2>1. \A t \in Subs : status[t] \in Statuses
    BY DEF Statuses
  <2>2. receipt' \in [Subs -> Statuses \cup {"none"}] /\ future' \in [Subs -> Futures]
    BY <1>19, <2>1, SettleAndDrainType DEF StepReturns
  <2>3. native' \in [Subs \X Calls -> DueTicks] /\ ran' \subseteq Subs \X Calls
    BY <1>19, RegistryRunsType DEF StepReturns
  <2>4. deferred' \in [Subs -> SUBSET Calls]
    BY <1>19 DEF StepReturns, Left, Queued, Remaining
  <2>5. tick' \in Ticks /\ (tick' < Horizon \/ done') /\ version' \in Nat
    <3>1. /\ tick' = tick + 1 /\ version' = version + 1 /\ done' = end
          /\ tick + 1 = Horizon => end
      BY <1>19 DEF StepReturns
    <3>2. tick \in 0 .. Horizon /\ tick < Horizon /\ version \in Nat
      BY <1>19 DEF StepReturns, Control, TypeOK, Ticks
    <3> QED
      BY <3>1, <3>2, ConstantsAssumption DEF ConstantsAssumption, Ticks
  <2> QED
    BY <1>19, <2>2, <2>3, <2>4, <2>5
    DEF StepReturns, NoSub
<1>20. CASE InvestigationRaises
  <2>1. receipt' \in [Subs -> Statuses \cup {"none"}] /\ future' \in [Subs -> Futures]
    BY <1>20, SettleAndDrainType DEF InvestigationRaises, Each, Statuses
  <2> QED
    BY <1>20, <2>1 DEF InvestigationRaises
<1>21. ASSUME NEW d \in Delays, InvestigationReturns(d)
      PROVE  TypeOK' /\ Control'
  <2>1. receipt' \in [Subs -> Statuses \cup {"none"}] /\ future' \in [Subs -> Futures]
    BY <1>21, SettleAndDrainType DEF InvestigationReturns, Each, Statuses
  <2>2. native' \in [Subs \X Calls -> DueTicks] /\ ran' \subseteq Subs \X Calls
    BY <1>21, RegistryRunsType DEF InvestigationReturns
  <2>3. deferred' \in [Subs -> SUBSET Calls]
    BY <1>21 DEF InvestigationReturns, Queued
  <2> QED
    BY <1>21, <2>1, <2>2, <2>3 DEF InvestigationReturns, NoSub
<1>22. ASSUME NEW p \in Parameters(submitted + 1), Submit(p)
      PROVE  TypeOK' /\ Control'
  <2>1. p \in Submission
    BY <1>22, ParametersType DEF Submit
  <2>2. submitted' \in 0 .. MaxSubmissions /\ submitted' \in Subs
    BY <1>22 DEF Submit, Subs
  <2>3. keys' \subseteq Subs
    BY <1>22, <2>1 DEF Submit, Submission
  <2>4. receipt' \in [Subs -> Statuses \cup {"none"}] /\ future' \in [Subs -> Futures]
    <3>1. ASSUME NEW status \in Statuses, Refuse(submitted + 1, status)
          PROVE  receipt' \in [Subs -> Statuses \cup {"none"}] /\ future' \in [Subs -> Futures]
      BY <3>1, SettleAndDrainType DEF Refuse, Each
    <3> QED
      BY <1>22, <3>1 DEF Submit, Futures, Statuses
  <2>5. sub' \in [Subs -> Submission] /\ pending' \subseteq Subs /\ fences' \subseteq Subs
    BY ZenonT(30), <1>22, <2>1, <2>2 DEF Submit, Refuse
  <2> QED
    BY <1>22, <2>2, <2>3, <2>4, <2>5 DEF Submit
<1>23. ASSUME NEW s \in Subs, Cancel(s)
      PROVE  TypeOK' /\ Control'
  BY <1>23 DEF Cancel, Futures
<1>24. CASE Stop
  BY <1>24 DEF Stop
<1>25. CASE UNCHANGED vars
  BY <1>25 DEF vars
<1> QED
  BY <1>1, <1>2, <1>3, <1>4, <1>5, <1>6, <1>7, <1>8, <1>9, <1>10, <1>11, <1>12, <1>13, <1>14, <1>15, <1>16, <1>17, <1>18, <1>19, <1>20, <1>21, <1>22, <1>23, <1>24, <1>25
  DEF Next, Actor, Callers, EnvironmentReturns

(* Where the submissions are, beyond HeldInOnePlace: nothing is known of a  *)
(* submission before it is made, the candidates exist while the lock is     *)
(* held and the active submission while the environment is called, and a    *)
(* fence request waits for a submission that has not been executed.         *)
Places ==
  /\ pending \cup valid \cup fences \cup Deferred \cup accepted \subseteq Made
  /\ active \in Made \cup {NoSub}
  /\ \A s \in Subs \ Made : receipt[s] = "none" /\ future[s] = "none"
  /\ valid # {} => ~LockFree
  /\ active # NoSub => pc \in {"stepping", "investigating"}
  /\ pc = "investigating" => active # NoSub /\ passed
  /\ fences \cap Deferred = {}
  /\ active \in fences => ~passed

(* The candidates of a dispatch stay current until it is decided: the actor *)
(* is the only writer of the version and the tick.                          *)
CandidatesCurrent ==
  \A s \in valid : sub[s].based = version /\ InWindow(s)

(* An accepted submission is being executed, its version is past, or it is  *)
(* the investigation that failed and left the version as it was.            *)
VersionsSpent ==
  \A s \in accepted : \/ sub[s].based < version
                      \/ receipt[s] = "failed"
                      \/ Executing /\ s = active
-----------------------------------------------------------------------------
(* Every submission in one place.                                          *)

\* what settling the submissions of S does to who has a receipt
LEMMA SettleEffect ==
  ASSUME TypeOK, Places, NEW S, NEW R, NEW status,
         \A s \in S \cap Subs : s \in Made /\ status[s] \in Statuses,
         R \subseteq Made,
         Settle(S, status) \/ SettleAndDrain(S, R, status)
  PROVE  /\ Settled' = Settled \cup (S \cap Subs)
         /\ \A s \in Subs \ Made : receipt'[s] = "none" /\ future'[s] = "none"
<1>1. \A s \in Subs : receipt'[s] = IF s \in S /\ receipt[s] = "none"
                                    THEN status[s] ELSE receipt[s]
  BY DEF Settle, SettleAndDrain, Receipts
<1>2. Settled' = Settled \cup (S \cap Subs)
  BY <1>1 DEF Settled, Statuses
<1>3. ASSUME NEW s \in Subs \ Made
      PROVE  receipt'[s] = "none" /\ future'[s] = "none"
  <2>1. s \notin S /\ s \notin R /\ s \notin Settled /\ future[s] = "none"
    BY <1>3 DEF Places, Settled
  <2> QED
    BY <1>1, <2>1 DEF Settle, SettleAndDrain, Settled
<1> QED
  BY <1>2, <1>3

\* Newest(valid) was made
LEMMA CandidateMade ==
  ASSUME TypeOK, Places, valid # {}
  PROVE  /\ Newest(valid) \in valid /\ Newest(valid) \in Made
         /\ Newest(valid) \in Subs /\ Newest(valid) # NoSub
<1>1. valid \in SUBSET Subs /\ valid \subseteq Made
  BY DEF TypeOK, Places
<1>2. Newest(valid) \in valid
  BY <1>1, NewestIsNewest
<1>3. NoSub \notin Subs
  BY DEF Subs, NoSub
<1> QED
  BY <1>1, <1>2, <1>3

\* the open submissions are the ones made and not settled
LEMMA OpenIs ==
  ASSUME TypeOK, TypeOK'
  PROVE  /\ Made \subseteq Subs /\ Made' \subseteq Subs /\ NoSub \notin Subs
         /\ Open = Made \ Settled /\ Open' = Made' \ Settled'
         /\ NoSub \notin pending' \cup valid' \cup Deferred' \cup fences' \cup Settled'
<1>1. NoSub \notin Subs
  BY DEF Subs, NoSub
<1>2. Made \subseteq Subs
  BY ConstantsAssumption DEF ConstantsAssumption, TypeOK, Made, Subs
<1>3. Made' \subseteq Subs
  BY ConstantsAssumption DEF ConstantsAssumption, TypeOK, Made, Subs
<1>4. Open = Made \ Settled /\ Open' = Made' \ Settled'
  BY <1>2, <1>3 DEF Open, Settled
<1>5. pending' \cup valid' \cup Deferred' \cup fences' \cup Settled' \subseteq Subs
  BY DEF TypeOK, Deferred, Settled
<1> QED
  BY <1>1, <1>2, <1>3, <1>4, <1>5

\* what a drain alone does: nothing to the receipts
LEMMA DrainEffect ==
  ASSUME TypeOK, Places, NEW R, R \subseteq Made, SettleAndDrain({}, R, receipt)
  PROVE  /\ Settled' = Settled
         /\ \A s \in Subs \ Made : receipt'[s] = "none" /\ future'[s] = "none"
BY SettleEffect

\* settling one submission
LEMMA SettleOne ==
  ASSUME TypeOK, Places, NEW s \in Made, s \in Subs, NEW S, S \cap Subs = {s},
         NEW status \in Statuses,
         Settle(S, Each(status)) \/ SettleAndDrain(S, {}, Each(status))
  PROVE  /\ Settled' = Settled \cup {s}
         /\ \A t \in Subs \ Made : receipt'[t] = "none" /\ future'[t] = "none"
<1>1. {} \subseteq Made
  OBVIOUS
<1>2. \A t \in S \cap Subs : t \in Made /\ Each(status)[t] \in Statuses
  BY DEF Each
<1>3. CASE Settle(S, Each(status))
  BY <1>1, <1>2, <1>3, SettleEffect
<1>4. CASE SettleAndDrain(S, {}, Each(status))
  BY <1>1, <1>2, <1>4, SettleEffect
<1> QED
  BY <1>3, <1>4

\* an open fence request comes from a pending or a candidate submission
LEMMA FencesOpen ==
  ASSUME TypeOK, Places, HeldInOnePlace, active = NoSub
  PROVE  /\ InvalidFences \subseteq LiveFences /\ LiveFences \subseteq fences
         /\ LiveFences \subseteq Made
         /\ LiveFences \subseteq pending \cup valid
         /\ \A s \in InvalidFences : Verdict(s) \in Statuses
<1>1. InvalidFences \subseteq LiveFences /\ LiveFences \subseteq fences
  BY DEF InvalidFences, LiveFences
<1>2. \A s \in LiveFences : s \in Made /\ s \notin Settled /\ s \notin Deferred
  BY <1>1 DEF LiveFences, Places
<1>3. \A s \in LiveFences : s \in Open /\ s \in Subs /\ s # NoSub
  BY <1>2 DEF Open, Settled, Made, TypeOK, Subs, NoSub, LiveFences
<1>4. LiveFences \subseteq pending \cup valid
  BY <1>2, <1>3 DEF HeldInOnePlace
<1> QED
  BY <1>1, <1>2, <1>4 DEF InvalidFences, Verdict, Statuses

(* A failed boundary settles what it takes out of the lists.               *)
LEMMA PlacesBoundaryFails ==
  ASSUME TypeOK, Control, Places, HeldInOnePlace, active = NoSub, valid = {},
         NEW fenceTick, NEW next \in {"dispatched", "loop"},
         BoundaryFails(fenceTick, next), TypeOK'
  PROVE  Places' /\ HeldInOnePlace'
<1>1. PICK refused :
        LET E == Fenced(Expiring(fenceTick), refused)
            F == Unfenceable(Expiring(fenceTick), refused)
        IN  /\ Settle(E \cup InvalidFences,
                      [s \in Subs |-> IF s \in F THEN "fence_failed"
                                      ELSE IF s \in E THEN "expired" ELSE Verdict(s)])
            /\ deferred' = [s \in Subs |-> IF s \in E THEN {} ELSE deferred[s]]
  BY DEF BoundaryFails
<1> DEFINE E == Fenced(Expiring(fenceTick), refused)
           F == Unfenceable(Expiring(fenceTick), refused)
           status == [s \in Subs |-> IF s \in F THEN "fence_failed"
                                     ELSE IF s \in E THEN "expired" ELSE Verdict(s)]
<1>2. E \subseteq Deferred /\ E \subseteq Subs /\ E \subseteq Made
  BY DEF Fenced, Expiring, Deferred, Places
<1>3. \A s \in (E \cup InvalidFences) \cap Subs : s \in Made /\ status[s] \in Statuses
  BY <1>2, FencesOpen DEF Statuses
<1>4. Settle(E \cup InvalidFences, status)
  BY <1>1
<1> HIDE DEF E, status
<1>5. /\ Settled' = Settled \cup ((E \cup InvalidFences) \cap Subs)
      /\ \A s \in Subs \ Made : receipt'[s] = "none" /\ future'[s] = "none"
  <2>1. {} \subseteq Made
    OBVIOUS
  <2> QED
    BY <1>3, <1>4, <2>1, SettleEffect
<1>6. Deferred' = Deferred \ E
  BY <1>1, <1>2 DEF Deferred, E
<1>7. /\ pending' = pending \ InvalidFences /\ fences' = LiveFences \ InvalidFences
      /\ done' = TRUE /\ pc' = next
      /\ UNCHANGED <<submitted, sub, valid, active, passed, accepted>>
  BY DEF BoundaryFails
<1>8. Open' = Made' \ Settled' /\ Open = Made \ Settled /\ Made' = Made
  BY <1>7, OpenIs DEF Made
<1>9. Places'
  BY <1>5, <1>6, <1>7, FencesOpen DEF Places, Made, LockFree
<1>10. HeldInOnePlace'
  <2>1. Open' \subseteq (pending' \cup valid' \cup Deferred' \cup {active'})
    BY <1>2, <1>5, <1>6, <1>7, <1>8, OpenIs, FencesOpen DEF HeldInOnePlace
  <2> QED
    BY <1>6, <1>7, <2>1 DEF HeldInOnePlace
<1> QED
  BY <1>9, <1>10

(* A discarded candidate is settled.                                       *)
LEMMA PlacesDiscard ==
  ASSUME TypeOK, Control, Places, HeldInOnePlace, TypeOK',
         valid # {}, NEW status \in Statuses, Discard(status)
  PROVE  Places' /\ HeldInOnePlace'
<1> DEFINE s == Newest(valid)
<1>1. /\ s \in valid /\ s \in Made /\ s \in Subs /\ s # NoSub
      /\ active = NoSub /\ pc \in {"selecting", "investigationSelecting"} /\ ~done
  BY CandidateMade DEF Places, Control, LockFree
<1>2. /\ Settled' = Settled \cup {s}
      /\ \A t \in Subs \ Made : receipt'[t] = "none" /\ future'[t] = "none"
  <2>1. Settle({s}, Each(status)) \/ SettleAndDrain({s}, {}, Each(status))
    BY DEF Discard
  <2>2. {s} \cap Subs = {s}
    BY <1>1
  <2> QED
    BY <1>1, <2>1, <2>2, SettleOne
<1>3. /\ valid' = valid \ {s} /\ Deferred' = Deferred
      /\ pc' = (IF pc = "investigationSelecting" /\ valid = {s} THEN "loop" ELSE pc)
      /\ UNCHANGED <<submitted, pending, fences, active, passed, accepted, done>>
  BY DEF Discard, Deferred
<1> HIDE DEF s
<1>4. Open' \subseteq (pending' \cup valid' \cup Deferred' \cup {active'})
  BY <1>1, <1>2, <1>3, OpenIs DEF HeldInOnePlace, Made
<1>5. Places'
  BY <1>1, <1>2, <1>3 DEF Places, LockFree, Made
<1> QED
  BY <1>1, <1>2, <1>3, <1>4, <1>5 DEF HeldInOnePlace

(* One step per action: who is settled, what is deferred and which sets the *)
(* submissions move between.                                                *)
LEMMA PlacesStep ==
  ASSUME TypeOK, Control, Places, HeldInOnePlace, TypeOK', [Next]_vars
  PROVE  Places' /\ HeldInOnePlace'
<1> DEFINE Unmade == \A s \in Subs \ Made : receipt'[s] = "none" /\ future'[s] = "none"
<1>0. {} \subseteq Made /\ (active # NoSub => active \in Made)
  BY DEF Places
<1>1. CASE ClockDue
  <2>1. /\ UNCHANGED <<submitted, sub, receipt, pending, fences, valid, active, passed,
                       deferred, accepted>>
        /\ (done => done') /\ LockFree /\ LockFree' /\ valid = {} /\ active = NoSub
        /\ pc' # "investigating"
    BY <1>1 DEF ClockDue, LockFree, Places
  <2>2. Unmade
    BY <1>1, <2>1 DEF ClockDue, Places
  <2> QED
    BY <2>1, <2>2 DEF Places, HeldInOnePlace, Open, Made, Settled, Deferred
<1>2. CASE InvestigationDue
  <2>1. /\ UNCHANGED <<submitted, sub, receipt, pending, fences, valid, active, passed,
                       deferred, accepted>>
        /\ (done => done') /\ LockFree /\ LockFree' /\ valid = {} /\ active = NoSub
        /\ pc' # "investigating"
    BY <1>2 DEF InvestigationDue, LockFree, Places
  <2>2. Unmade
    BY <1>2, <2>1 DEF InvestigationDue, Places
  <2> QED
    BY <2>1, <2>2 DEF Places, HeldInOnePlace, Open, Made, Settled, Deferred
<1>3. CASE LeaveLoop
  <2>1. /\ UNCHANGED <<submitted, sub, receipt, pending, fences, valid, active, passed,
                       deferred, accepted>>
        /\ (done => done') /\ LockFree /\ LockFree' /\ valid = {} /\ active = NoSub
        /\ pc' # "investigating"
    BY <1>3 DEF LeaveLoop, LockFree, Places
  <2>2. Unmade
    BY <1>3, <2>1 DEF LeaveLoop, Places
  <2> QED
    BY <2>1, <2>2 DEF Places, HeldInOnePlace, Open, Made, Settled, Deferred
<1>4. CASE DispatchEnds
  <2>1. /\ UNCHANGED <<submitted, sub, receipt, pending, fences, valid, active, passed,
                       deferred, accepted>>
        /\ (done => done') /\ LockFree /\ LockFree' /\ valid = {} /\ active = NoSub
        /\ pc' # "investigating"
    BY <1>4 DEF DispatchEnds, LockFree, Places
  <2>2. Unmade
    BY <1>4, <2>1 DEF DispatchEnds, Places
  <2> QED
    BY <2>1, <2>2 DEF Places, HeldInOnePlace, Open, Made, Settled, Deferred
<1>5. CASE Close
  <2>1. Unanswered \subseteq Made /\ Unanswered \subseteq Subs
    BY OpenIs DEF Unanswered, Places
  <2>2. Settled' = Settled \cup Unanswered /\ Unmade
    BY <1>5, <1>0, <2>1, SettleEffect DEF Close, Each, Statuses
  <2>3. /\ Deferred' = {} /\ pending' = {} /\ done' = TRUE /\ pc' = "closed"
        /\ UNCHANGED <<submitted, fences, valid, active, passed, accepted>>
        /\ valid = {} /\ active = NoSub
    BY <1>5 DEF Close, Deferred, Places, LockFree
  <2>8. Open' \subseteq (pending' \cup valid' \cup Deferred' \cup {active'})
    BY <2>1, <2>2, <2>3, OpenIs DEF HeldInOnePlace, Made, Unanswered
  <2>9. Places'
    BY <2>1, <2>2, <2>3 DEF Places, LockFree, Made
  <2> QED
    BY <2>1, <2>2, <2>3, <2>8, <2>9, OpenIs DEF HeldInOnePlace
<1>6. CASE ClockBoundary
  <2> DEFINE invalid == {s \in pending : Verdict(s) # "valid"} \cup InvalidFences
             expired == Expiring(tick + 1)
             status  == [s \in Subs |-> IF s \in expired THEN "expired" ELSE Verdict(s)]
  <2>1. active = NoSub /\ valid = {} /\ ~done
    BY <1>6 DEF ClockBoundary, Places, LockFree, Control
  <2>2. /\ expired \subseteq Deferred /\ expired \subseteq Made
        /\ invalid \subseteq pending /\ invalid \subseteq Made
    BY <2>1, FencesOpen DEF Expiring, Deferred, Places
  <2>3. \A s \in (invalid \cup expired) \cap Subs : s \in Made /\ status[s] \in Statuses
    BY <2>1, <2>2, FencesOpen DEF Statuses, Verdict
  <2>4. Settle(invalid \cup expired, status)
    BY <1>6 DEF ClockBoundary
  <2>5. /\ deferred' = [s \in Subs |-> IF s \in expired THEN {} ELSE deferred[s]]
        /\ fences' = LiveFences \ InvalidFences
        /\ UNCHANGED <<submitted, sub, active, passed, accepted, done>>
    BY <1>6 DEF ClockBoundary, BoundaryClears
  <2>6. /\ pending' \subseteq pending \ invalid /\ valid' = (pending \ invalid) \ pending'
        /\ pc' = "selecting"
    BY <1>6, <2>1 DEF ClockBoundary
  <2> HIDE DEF expired, invalid, status
  <2>7. Settled' = Settled \cup ((invalid \cup expired) \cap Subs) /\ Unmade
    BY <1>0, <2>3, <2>4, SettleEffect
  <2>8. Deferred' = Deferred \ expired /\ Deferred \subseteq Subs
    BY <2>5 DEF Deferred
  <2>9. Open' \subseteq (pending' \cup valid' \cup Deferred' \cup {active'})
    BY <2>1, <2>2, <2>5, <2>6, <2>7, <2>8, OpenIs DEF HeldInOnePlace, Made
  <2>10. Places'
    BY ZenonT(30), <2>1, <2>2, <2>5, <2>6, <2>7, <2>8, FencesOpen DEF Places, LockFree, Made
  <2> QED
    BY <2>1, <2>2, <2>5, <2>6, <2>7, <2>8, <2>9, <2>10 DEF HeldInOnePlace
<1>7. CASE ClockBoundaryFails
  BY <1>7, PlacesBoundaryFails DEF ClockBoundaryFails, Places, LockFree
<1>8. CASE InvestigationBoundary
  <2> DEFINE invalid == InvalidFences
             expired == Expiring(tick)
             status  == [s \in Subs |-> IF s \in expired THEN "expired" ELSE Verdict(s)]
  <2>1. active = NoSub /\ valid = {} /\ ~done
    BY <1>8 DEF InvestigationBoundary, Places, LockFree, Control
  <2>2. /\ expired \subseteq Deferred /\ expired \subseteq Made
        /\ invalid \subseteq pending /\ invalid \subseteq Made
    BY <2>1, FencesOpen DEF Expiring, Deferred, Places
  <2>3. \A s \in (invalid \cup expired) \cap Subs : s \in Made /\ status[s] \in Statuses
    BY <2>1, <2>2, FencesOpen DEF Statuses, Verdict
  <2>4. Settle(invalid \cup expired, status)
    BY <1>8 DEF InvestigationBoundary
  <2>5. /\ deferred' = [s \in Subs |-> IF s \in expired THEN {} ELSE deferred[s]]
        /\ fences' = LiveFences \ InvalidFences
        /\ UNCHANGED <<submitted, sub, active, passed, accepted, done>>
    BY <1>8 DEF InvestigationBoundary, BoundaryClears
  <2>6. /\ pending' \subseteq pending \ invalid /\ valid' = (pending \ invalid) \ pending'
        /\ pc' = IF valid' = {} THEN "loop" ELSE "investigationSelecting"
    BY <1>8, <2>1 DEF InvestigationBoundary, CurrentInvestigation
  <2> HIDE DEF expired, invalid, status
  <2>7. Settled' = Settled \cup ((invalid \cup expired) \cap Subs) /\ Unmade
    BY <1>0, <2>3, <2>4, SettleEffect
  <2>8. Deferred' = Deferred \ expired /\ Deferred \subseteq Subs
    BY <2>5 DEF Deferred
  <2>9. Open' \subseteq (pending' \cup valid' \cup Deferred' \cup {active'})
    BY <2>1, <2>2, <2>5, <2>6, <2>7, <2>8, OpenIs DEF HeldInOnePlace, Made
  <2>10. Places'
    BY ZenonT(30), <2>1, <2>2, <2>5, <2>6, <2>7, <2>8, FencesOpen DEF Places, LockFree, Made
  <2> QED
    BY <2>1, <2>2, <2>5, <2>6, <2>7, <2>8, <2>9, <2>10 DEF HeldInOnePlace
<1>9. CASE InvestigationBoundaryFails
  BY <1>9, PlacesBoundaryFails DEF InvestigationBoundaryFails, Places, LockFree
<1>10. CASE CandidateCanceled
  BY <1>10, PlacesDiscard DEF CandidateCanceled, Statuses
<1>11. CASE CandidateRejected
  BY <1>11, PlacesDiscard DEF CandidateRejected, Statuses
<1>12. CASE ArbitrationFails
  <2> DEFINE s == Newest(valid)
  <2>1. /\ s \in valid /\ s \in Made /\ s \in Subs /\ s # NoSub
        /\ active = NoSub /\ pc = "selecting" /\ ~done
    BY <1>12, CandidateMade DEF ArbitrationFails, Places, Control, LockFree
  <2>2. Settled' = Settled \cup {s} /\ Unmade
    BY <1>12, <1>0, <2>1, SettleEffect DEF ArbitrationFails, Each, Statuses
  <2>3. /\ pending' = pending \cup (valid \ {s}) /\ valid' = {} /\ done' = TRUE
        /\ pc' = "dispatched" /\ Deferred' = Deferred
        /\ UNCHANGED <<submitted, fences, active, passed, accepted>>
    BY <1>12 DEF ArbitrationFails, Deferred
  <2> HIDE DEF s
  <2>8. Open' \subseteq (pending' \cup valid' \cup Deferred' \cup {active'})
    BY <2>1, <2>2, <2>3, OpenIs DEF HeldInOnePlace, Made
  <2>9. Places'
    BY <2>1, <2>2, <2>3 DEF Places, LockFree, Made
  <2> QED
    BY <2>1, <2>2, <2>3, <2>8, <2>9, OpenIs DEF HeldInOnePlace
<1>13. CASE Override
  <2> DEFINE s == Newest(valid)
  <2>1. /\ s \in valid /\ s \in Made /\ s \in Subs /\ s # NoSub
        /\ active = NoSub /\ pc = "selecting" /\ ~done
    BY <1>13, CandidateMade DEF Override, Places, Control, LockFree
  <2>2. Settled' = Settled /\ Unmade
    BY <1>13, DrainEffect DEF Override, Places
  <2>3. /\ valid = {s} /\ valid' = {} /\ active' = s /\ passed' = FALSE
        /\ pc' = "stepping" /\ Deferred' = Deferred
        /\ UNCHANGED <<submitted, pending, fences, accepted, done>>
    BY <1>13, <2>1 DEF Override, Deferred
  <2> HIDE DEF s
  <2>8. Open' \subseteq (pending' \cup valid' \cup Deferred' \cup {active'})
    BY <2>1, <2>2, <2>3, OpenIs DEF HeldInOnePlace, Made
  <2>9. Places'
    BY <2>1, <2>2, <2>3 DEF Places, LockFree, Made
  <2> QED
    BY <2>1, <2>2, <2>3, <2>8, <2>9, OpenIs DEF HeldInOnePlace
<1>14. CASE Supervise
  <2>1. active = NoSub /\ ~done /\ pc = "selecting" /\ valid = {}
    BY <1>14 DEF Supervise, Places, Control
  <2>2. Settled' = Settled /\ Unmade
    BY <1>14, <1>0, DrainEffect DEF Supervise
  <2>3. /\ pc' \in {"stepping", "dispatched"} /\ active' = NoSub /\ Deferred' = Deferred
        /\ UNCHANGED <<submitted, pending, fences, valid, accepted>>
    BY <1>14, <2>1 DEF Supervise, Deferred
  <2>4. NoSub \notin fences
    BY OpenIs DEF TypeOK
  <2>8. Open' \subseteq (pending' \cup valid' \cup Deferred' \cup {active'})
    BY <2>1, <2>2, <2>3, <2>4, OpenIs DEF HeldInOnePlace, Made
  <2>9. Places'
    BY <2>1, <2>2, <2>3, <2>4 DEF Places, LockFree, Made
  <2> QED
    BY <2>1, <2>2, <2>3, <2>4, <2>8, <2>9 DEF HeldInOnePlace
<1>15. CASE Commit
  <2> DEFINE s       == Newest(valid)
             older   == (valid \ {s}) \cup {t \in pending : t = sub[s].supersedes}
             dropped == InvalidFences \cap OtherFences(s)
             status  == [t \in Subs |-> IF t \in dropped THEN Verdict(t)
                                        ELSE "superseded"]
  <2>1. /\ s \in valid /\ s \in Made /\ s \in Subs /\ s # NoSub
        /\ active = NoSub /\ pc \in {"selecting", "investigationSelecting"} /\ ~done
    BY <1>15, CandidateMade DEF Commit, Places, Control, LockFree
  <2>2. Replaced(s) \subseteq Deferred /\ Replaced(s) \subseteq Made
    BY DEF Replaced, LiveFences, Places
  <2>3. /\ older \subseteq (pending \cup valid) \ {s} /\ valid \ {s} \subseteq older
        /\ dropped \subseteq (pending \cup valid) \ {s}
        /\ OtherFences(s) \subseteq fences \ {s}
        /\ older \cup dropped \subseteq Made
    BY <2>1, FencesOpen DEF OtherFences, HeldInOnePlace, Places
  <2>4. \A t \in (Replaced(s) \cup older \cup dropped) \cap Subs :
          t \in Made /\ status[t] \in Statuses
    BY <2>1, <2>2, <2>3, FencesOpen DEF Statuses
  <2>5. SettleAndDrain(Replaced(s) \cup older \cup dropped, {s}, status)
    BY <1>15 DEF Commit
  <2>6. /\ deferred' = [t \in Subs |-> IF t \in Replaced(s) THEN {} ELSE deferred[t]]
        /\ fences' = OtherFences(s) \ InvalidFences
        /\ pending' = pending \ (older \cup dropped) /\ valid' = {}
        /\ accepted' = accepted \cup {s} /\ active' = s /\ passed' = TRUE
        /\ pc' \in {"stepping", "investigating"}
        /\ UNCHANGED <<submitted, done>>
    BY <1>15 DEF Commit
  <2> HIDE DEF s, older, dropped, status
  <2>7. Settled' = Settled \cup ((Replaced(s) \cup older \cup dropped) \cap Subs) /\ Unmade
    BY <2>1, <2>4, <2>5, SettleEffect
  <2>8. Deferred' = Deferred \ Replaced(s) /\ Deferred \subseteq Subs
    BY <2>6 DEF Deferred
  <2>9. Open' \subseteq (pending' \cup valid' \cup Deferred' \cup {active'})
    BY <2>1, <2>2, <2>3, <2>6, <2>7, <2>8, OpenIs DEF HeldInOnePlace, Made
  <2>10. Places'
    BY <2>1, <2>2, <2>3, <2>6, <2>7, <2>8 DEF Places, LockFree, Made
  <2> QED
    BY <2>1, <2>2, <2>3, <2>6, <2>7, <2>8, <2>9, <2>10 DEF HeldInOnePlace
<1>16. CASE CommitFails
  <2> DEFINE s       == Newest(valid)
             dropped == {t \in InvalidFences : t < s}
             status  == [t \in Subs |-> IF t \in dropped THEN Verdict(t)
                                        ELSE "fence_failed"]
  <2>1. /\ s \in valid /\ s \in Made /\ s \in Subs /\ s # NoSub
        /\ active = NoSub /\ pc \in {"selecting", "investigationSelecting"} /\ ~done
    BY <1>16, CandidateMade DEF CommitFails, Places, Control, LockFree
  <2>2. Replaced(s) \subseteq Deferred /\ Replaced(s) \subseteq Made
    BY DEF Replaced, LiveFences, Places
  <2>3. dropped \subseteq pending \cup valid /\ dropped \subseteq Made
    BY <2>1, FencesOpen
  <2>4. \A t \in (Replaced(s) \cup {s} \cup dropped) \cap Subs :
          t \in Made /\ status[t] \in Statuses
    BY <2>1, <2>2, <2>3, FencesOpen DEF Statuses
  <2>5. SettleAndDrain(Replaced(s) \cup {s} \cup dropped, {}, status)
    BY <1>16 DEF CommitFails
  <2>6. /\ deferred' = [t \in Subs |-> IF t \in Replaced(s) THEN {} ELSE deferred[t]]
        /\ fences' \subseteq fences
        /\ pending' = (pending \ dropped) \cup (valid \ {s}) /\ valid' = {}
        /\ done' = TRUE /\ pc' \in {"dispatched", "loop"}
        /\ UNCHANGED <<submitted, active, passed, accepted>>
    BY <1>16, FencesOpen, <2>1 DEF CommitFails
  <2> HIDE DEF s, dropped, status
  <2>7. Settled' = Settled \cup ((Replaced(s) \cup {s} \cup dropped) \cap Subs) /\ Unmade
    BY <1>0, <2>4, <2>5, SettleEffect
  <2>8. Deferred' = Deferred \ Replaced(s) /\ Deferred \subseteq Subs
    BY <2>6 DEF Deferred
  <2>9. Open' \subseteq (pending' \cup valid' \cup Deferred' \cup {active'})
    BY <2>1, <2>2, <2>3, <2>6, <2>7, <2>8, OpenIs DEF HeldInOnePlace, Made
  <2>10. Places'
    BY <2>1, <2>2, <2>3, <2>6, <2>7, <2>8 DEF Places, LockFree, Made
  <2> QED
    BY <2>1, <2>2, <2>3, <2>6, <2>7, <2>8, <2>9, <2>10 DEF HeldInOnePlace
<1>17. CASE StepRaises
  <2>1. Settled' = Settled \cup ({active} \cap Subs) /\ Unmade
    <3>1. \/ Settle({active} \cap Subs, Each("failed"))
          \/ SettleAndDrain({active} \cap Subs, {}, Each("failed"))
      BY <1>17 DEF StepRaises
    <3>2. CASE active = NoSub
      <4>1. {active} \cap Subs = {}
        BY <3>2, OpenIs
      <4>2. CASE Settle({}, Each("failed"))
        BY ZenonT(30), <1>0, <4>1, <4>2, SettleEffect
      <4>3. CASE SettleAndDrain({}, {}, Each("failed"))
        BY <1>0, <4>1, <4>3, SettleEffect
      <4> QED
        BY <3>1, <4>1, <4>2, <4>3
    <3>3. CASE active # NoSub
      <4>1. active \in Subs /\ active \in Made /\ {active} \cap Subs = {active}
        BY <1>0, <3>3, OpenIs
      <4>2. ({active} \cap Subs) \cap Subs = {active}
        BY <4>1
      <4> QED
        BY <3>1, <4>1, <4>2, SettleOne DEF Statuses
    <3> QED
      BY <3>2, <3>3
  <2>2. /\ active' = NoSub /\ done' = TRUE /\ pc' \notin {"investigating", "selecting"}
        /\ Deferred' = Deferred /\ valid = {}
        /\ UNCHANGED <<submitted, pending, fences, valid, passed, accepted>>
    BY <1>17 DEF StepRaises, Deferred, Places, LockFree
  <2>3. NoSub \notin fences
    BY OpenIs DEF TypeOK
  <2>8. Open' \subseteq (pending' \cup valid' \cup Deferred' \cup {active'})
    BY <2>1, <2>2, <2>3, OpenIs DEF HeldInOnePlace, Made
  <2>9. Places'
    BY <2>1, <2>2, <2>3 DEF Places, LockFree, Made
  <2> QED
    BY <2>1, <2>2, <2>3, <2>8, <2>9, OpenIs DEF HeldInOnePlace
<1>18. CASE StepInvalid
  <2>1. Settled' = Settled \cup ({active} \cap Subs) /\ Unmade
    <3>1. \/ Settle({active} \cap Subs, Each("failed"))
          \/ SettleAndDrain({active} \cap Subs, {}, Each("failed"))
      BY <1>18 DEF StepInvalid
    <3>2. CASE active = NoSub
      <4>1. {active} \cap Subs = {}
        BY <3>2, OpenIs
      <4>2. CASE Settle({}, Each("failed"))
        BY <1>0, <4>1, <4>2, SettleEffect
      <4>3. CASE SettleAndDrain({}, {}, Each("failed"))
        BY <1>0, <4>1, <4>3, SettleEffect
      <4> QED
        BY <3>1, <4>1, <4>2, <4>3
    <3>3. CASE active # NoSub
      <4>1. active \in Subs /\ active \in Made /\ {active} \cap Subs = {active}
        BY <1>0, <3>3, OpenIs
      <4>2. ({active} \cap Subs) \cap Subs = {active}
        BY <4>1
      <4> QED
        BY <3>1, <4>1, <4>2, SettleOne DEF Statuses
    <3> QED
      BY <3>2, <3>3
  <2>2. /\ active' = NoSub /\ done' = TRUE /\ pc' \notin {"investigating", "selecting"}
        /\ Deferred' = Deferred /\ valid = {}
        /\ UNCHANGED <<submitted, pending, fences, valid, passed, accepted>>
    BY <1>18 DEF StepInvalid, Deferred, Places, LockFree
  <2>3. NoSub \notin fences
    BY OpenIs DEF TypeOK
  <2>8. Open' \subseteq (pending' \cup valid' \cup Deferred' \cup {active'})
    BY <2>1, <2>2, <2>3, OpenIs DEF HeldInOnePlace, Made
  <2>9. Places'
    BY <2>1, <2>2, <2>3 DEF Places, LockFree, Made
  <2> QED
    BY <2>1, <2>2, <2>3, <2>8, <2>9, OpenIs DEF HeldInOnePlace
<1>19. CASE InvestigationRaises
  <2>1. Settled' = Settled \cup ({active} \cap Subs) /\ Unmade
    <3>1. active \in Subs /\ active \in Made /\ {active} \cap Subs = {active}
      BY <1>19, <1>0, OpenIs DEF InvestigationRaises, Places
    <3> QED
      BY <1>19, <3>1, SettleOne DEF InvestigationRaises, Statuses
  <2>2. /\ active' = NoSub /\ done' = done /\ pc' \notin {"investigating", "selecting"}
        /\ Deferred' = Deferred /\ valid = {}
        /\ UNCHANGED <<submitted, pending, fences, valid, passed, accepted>>
    BY <1>19 DEF InvestigationRaises, Deferred, Places, LockFree
  <2>3. NoSub \notin fences
    BY OpenIs DEF TypeOK
  <2>8. Open' \subseteq (pending' \cup valid' \cup Deferred' \cup {active'})
    BY <2>1, <2>2, <2>3, OpenIs DEF HeldInOnePlace, Made
  <2>9. Places'
    BY <2>1, <2>2, <2>3 DEF Places, LockFree, Made
  <2> QED
    BY <2>1, <2>2, <2>3, <2>8, <2>9, OpenIs DEF HeldInOnePlace
<1>20. ASSUME NEW d \in Delays, NEW end \in BOOLEAN, StepReturns(d, end)
      PROVE  Places' /\ HeldInOnePlace'
  <2> DEFINE answered == IF Defers(d) THEN {} ELSE {active} \cap Subs
             settles  == Resolved \cup Unresolved(d, end) \cup answered
             status   == [t \in Subs |-> IF t \in answered
                                         THEN IF passed THEN "executed" ELSE "rejected"
                                         ELSE IF t \in Unresolved(d, end) THEN "failed"
                                         ELSE IF Late(t) THEN "expired" ELSE "executed"]
             kept     == (Deferred \ Resolved) \cup (IF Defers(d) THEN {active} ELSE {})
  <2>1. ~done /\ valid = {} /\ pc = "stepping" /\ NoSub \notin fences
    BY <1>20, OpenIs DEF StepReturns, Control, Places, LockFree, TypeOK
  <2>2. /\ Resolved \subseteq Deferred /\ kept \subseteq Made /\ kept \subseteq Subs
        /\ Deferred \subseteq kept \cup Resolved /\ kept \subseteq Deferred \cup {active}
        /\ active \in kept => passed
    BY OpenIs DEF Resolved, Places, Defers, HeldInOnePlace
  <2>3. \A t \in Subs : Left(d)[t] # {} <=> t \in kept
    BY OpenIs DEF Left, Resolved, Deferred, Defers, Remaining, HeldInOnePlace
  <2>4. Unresolved(d, end) = IF end THEN kept ELSE {}
    BY <2>2, <2>3 DEF Unresolved
  <2>5. Deferred' = IF end THEN {} ELSE kept
    BY <1>20, <2>2, <2>3 DEF Deferred, StepReturns
  <2>6. Settled' = Settled \cup (settles \cap Subs) /\ Unmade
    <3>1. \A t \in settles \cap Subs : t \in Made /\ status[t] \in Statuses
      BY <1>0, <2>2, <2>4, OpenIs DEF Statuses, Places
    <3>2. SettleAndDrain(settles, {}, status)
      BY <1>20 DEF StepReturns
    <3> QED
      BY <1>0, <3>1, <3>2, SettleEffect
  <2>7. /\ active' = NoSub /\ done' = end /\ pc' = "dispatched"
        /\ UNCHANGED <<submitted, pending, fences, valid, passed, accepted>>
    BY <1>20 DEF StepReturns
  <2>8. answered \cup kept \subseteq Deferred \cup {active} /\ (active \in Subs => active \in answered \cup kept)
    BY <2>2
  <2> HIDE DEF kept, settles
  <2>9. Open' \subseteq (pending' \cup valid' \cup Deferred' \cup {active'})
    <3>1. Open \subseteq pending \cup kept \cup Resolved \cup answered
      BY <2>1, <2>2, <2>8, OpenIs DEF HeldInOnePlace
    <3> QED
      BY <3>1, <2>4, <2>5, <2>6, <2>7, OpenIs DEF Made, settles
  <2>10. Places'
    BY <2>1, <2>2, <2>5, <2>6, <2>7 DEF Places, LockFree, Made
  <2>11. ~end => Settled' \cap (pending' \cup valid' \cup Deferred' \cup {active'}) = {}
    BY <2>1, <2>2, <2>4, <2>5, <2>6, <2>7, OpenIs DEF HeldInOnePlace, settles, kept
  <2> QED
    BY <2>1, <2>2, <2>5, <2>7, <2>9, <2>10, <2>11, OpenIs DEF HeldInOnePlace, TypeOK
<1>21. ASSUME NEW d \in Delays, InvestigationReturns(d)
      PROVE  Places' /\ HeldInOnePlace'
  <2>1. ~done /\ valid = {} /\ pc = "investigating" /\ passed /\ NoSub \notin fences
    BY <1>21, OpenIs DEF InvestigationReturns, Control, Places, LockFree, TypeOK
  <2>2. active \in Subs /\ active \in Made /\ active \notin Deferred /\ active \notin fences
    BY <1>0, <2>1, OpenIs DEF Places, HeldInOnePlace
  <2>3. Settled' = Settled \cup (IF Queued(d) = {} THEN {active} ELSE {}) /\ Unmade
    BY <1>21, <1>0, <2>2, SettleEffect DEF InvestigationReturns, Each, Statuses
  <2>4. Deferred' = Deferred \cup (IF Queued(d) = {} THEN {} ELSE {active})
    BY <1>21, <2>2 DEF InvestigationReturns, Deferred, TypeOK
  <2>5. /\ active' = NoSub /\ pc' = "loop"
        /\ UNCHANGED <<submitted, pending, fences, valid, passed, accepted, done>>
    BY <1>21 DEF InvestigationReturns
  <2>8. Open' \subseteq (pending' \cup valid' \cup Deferred' \cup {active'})
    BY <2>1, <2>2, <2>3, <2>4, <2>5, OpenIs DEF HeldInOnePlace, Made
  <2>9. Places'
    BY <2>1, <2>2, <2>3, <2>4, <2>5 DEF Places, LockFree, Made
  <2> QED
    BY <2>1, <2>2, <2>3, <2>4, <2>5, <2>8, <2>9, OpenIs DEF HeldInOnePlace
<1>22. ASSUME NEW p \in Parameters(submitted + 1), Submit(p)
      PROVE  Places' /\ HeldInOnePlace'
  <2> DEFINE s == submitted + 1
  <2>1. /\ s \in Subs /\ s \notin Made /\ Made' = Made \cup {s} /\ s # NoSub
        /\ receipt[s] = "none" /\ LockFree /\ valid = {}
        /\ UNCHANGED <<valid, active, passed, deferred, accepted, done, pc>>
    BY <1>22, ConstantsAssumption
    DEF ConstantsAssumption, Submit, Subs, NoSub, Made, Places, LockFree, TypeOK
  <2>2. /\ Deferred' = Deferred /\ LockFree'
        /\ s \notin pending /\ s \notin fences /\ s \notin Deferred /\ s # active
    BY <2>1 DEF Deferred, LockFree, Places
  <2>3. /\ \/ Settled' = Settled \cup {s} /\ pending' = pending /\ fences' = fences
           \/ /\ Settled' = Settled /\ pending' = pending \cup {s}
              /\ fences' \in {fences, fences \cup {s}}
        /\ \A t \in Subs \ Made' : receipt'[t] = "none" /\ future'[t] = "none"
    <3>1. ASSUME NEW status \in Statuses, Refuse(s, status)
          PROVE  /\ Settled' = Settled \cup {s} /\ pending' = pending /\ fences' = fences
                 /\ \A t \in Subs \ Made' : receipt'[t] = "none" /\ future'[t] = "none"
      <4>1. \A t \in Subs : receipt'[t] = IF t = s THEN status ELSE receipt[t]
        BY <2>1, <3>1 DEF Refuse, SettleAndDrain, Receipts, Each
      <4>2. \A t \in Subs \ Made' : t # s /\ t \notin Settled /\ future[t] = "none"
        BY <2>1 DEF Places, Settled
      <4>3. \A t \in Subs \ Made' : future'[t] = "none"
        BY <3>1, <4>2 DEF Refuse, SettleAndDrain
      <4>4. Settled' = Settled \cup {s}
        BY <2>1, <4>1 DEF Settled, Statuses
      <4> QED
        BY <2>1, <3>1, <4>1, <4>2, <4>3, <4>4 DEF Refuse, Places
    <3>2. ASSUME receipt' = receipt, pending' = pending \cup {s},
                 fences' = IF p.supersedes \in Deferred THEN fences \cup {s} ELSE fences,
                 future' = [t \in Subs |->
                       IF t = s THEN "pending"
                       ELSE IF t \in Settled /\ future[t] = "running" THEN "done"
                       ELSE future[t]]
          PROVE  /\ Settled' = Settled /\ fences' \in {fences, fences \cup {s}}
                 /\ \A t \in Subs \ Made' : receipt'[t] = "none" /\ future'[t] = "none"
      BY <2>1, <3>2 DEF Settled, Places
    <3> QED
      BY <1>22, <3>1, <3>2 DEF Submit, Statuses
  <2> HIDE DEF s
  <2>4. Open' \subseteq (pending' \cup valid' \cup Deferred' \cup {active'})
    BY <2>1, <2>2, <2>3, OpenIs DEF HeldInOnePlace
  <2>5. Places'
    BY <2>1, <2>2, <2>3 DEF Places
  <2>6. s \notin Settled
    BY <2>1 DEF Settled
  <2> QED
    BY <2>1, <2>2, <2>3, <2>4, <2>5, <2>6 DEF HeldInOnePlace
<1>23. ASSUME NEW s \in Subs, Cancel(s)
      PROVE  Places' /\ HeldInOnePlace'
  <2>1. /\ UNCHANGED <<submitted, sub, receipt, pending, fences, valid, active, passed,
                       deferred, accepted, done, pc>>
        /\ future[s] = "pending" /\ future' = [future EXCEPT ![s] = "cancelled"]
    BY <1>23 DEF Cancel
  <2>2. Unmade
    BY <2>1 DEF Places, TypeOK
  <2> QED
    BY <2>1, <2>2 DEF Places, HeldInOnePlace, Open, Made, Settled, Deferred, LockFree
<1>24. CASE Stop
  <2>1. UNCHANGED <<submitted, sub, receipt, future, pending, fences, valid, active,
                    passed, deferred, accepted, done, pc>>
    BY <1>24 DEF Stop
  <2> QED
    BY <2>1 DEF Places, HeldInOnePlace, Open, Made, Settled, Deferred, LockFree
<1>25. CASE UNCHANGED vars
  <2>1. UNCHANGED <<submitted, sub, receipt, future, pending, fences, valid, active,
                    passed, deferred, accepted, done, pc>>
    BY <1>25 DEF vars
  <2> QED
    BY <2>1 DEF Places, HeldInOnePlace, Open, Made, Settled, Deferred, LockFree
<1> QED
  BY <1>1, <1>2, <1>3, <1>4, <1>5, <1>6, <1>7, <1>8, <1>9, <1>10, <1>11, <1>12, <1>13, <1>14, <1>15, <1>16, <1>17, <1>18, <1>19, <1>20, <1>21, <1>22, <1>23, <1>24, <1>25
  DEF Next, Actor, Callers, EnvironmentReturns
-----------------------------------------------------------------------------
(* The theorems.                                                           *)

(* Every variable keeps its type, and the actor decides or calls the        *)
(* environment only while it is not done.                                   *)
THEOREM TypeCorrect == Spec => [](TypeOK /\ Control)
<1>1. Init => TypeOK /\ Control
  <2> SUFFICES ASSUME Init PROVE TypeOK /\ Control
    OBVIOUS
  <2>1. 0 \in Ticks /\ 0 < Horizon /\ 0 \in 0 .. MaxSubmissions
    BY ConstantsAssumption DEF ConstantsAssumption, Ticks
  <2>2. \A s \in Subs : NoSubmission \in Submission
    <3>1. \A s \in Subs : 1 \in Subs
      BY ConstantsAssumption DEF ConstantsAssumption, Subs
    <3> QED
      BY <3>1 DEF NoSubmission, Submission, Kinds
  <2>3. native \in [Subs \X Calls -> DueTicks]
    BY <2>1, ConstantsAssumption
    DEF ConstantsAssumption, Init, NoQueue, DueTicks
  <2> QED
    BY <2>1, <2>2, <2>3 DEF Init, TypeOK, Control, Futures, PCs
<1>2. TypeOK /\ Control /\ [Next]_vars => TypeOK' /\ Control'
  BY TypeStep
<1> QED
  BY <1>1, <1>2, PTL DEF Spec

(* The actor never loses or doubles a submission: one without a receipt is  *)
(* in exactly one of its lists.                                             *)
THEOREM EverySubmissionHeld == Spec => [](Places /\ HeldInOnePlace)
<1>1. Init => Places /\ HeldInOnePlace
  BY ConstantsAssumption
  DEF ConstantsAssumption, Init, Places, HeldInOnePlace, Made, Open, Deferred, Settled,
      Subs, NoSub, LockFree
<1>2. /\ TypeOK /\ Control /\ Places /\ HeldInOnePlace /\ TypeOK' /\ [Next]_vars
      => Places' /\ HeldInOnePlace'
  BY PlacesStep
<1> QED
  BY <1>1, <1>2, TypeCorrect, PTL DEF Spec

-----------------------------------------------------------------------------
(* Compare-and-swap.                                                       *)

\* a submission's parameters, the version and the clock change only where
\* no dispatch is being decided
LEMMA CandidatesStep ==
  ASSUME TypeOK, Control, Places, HeldInOnePlace, CandidatesCurrent, [Next]_vars
  PROVE  CandidatesCurrent'
<1> USE DEF CandidatesCurrent, InWindow
<1>1. CASE valid' = {}
  BY <1>1
<1>2. CASE UNCHANGED <<version, tick, sub>> /\ valid' \subseteq valid
  BY <1>2
<1>3. CASE ClockBoundary
  BY <1>3 DEF ClockBoundary, Verdict, TypeOK, Submission, Ticks
<1>4. CASE InvestigationBoundary
  BY <1>4 DEF InvestigationBoundary, CurrentInvestigation
<1>5. CASE Next /\ ~ClockBoundary /\ ~InvestigationBoundary
  <2>1. (Actor /\ ~EnvironmentReturns) \/ Callers \/ EnvironmentReturns
    BY <1>5 DEF Next
  <2>2. CASE EnvironmentReturns
    <3>1. valid = {} /\ valid' = valid
      BY <2>2 DEF EnvironmentReturns, StepRaises, StepInvalid, StepReturns,
                  InvestigationRaises, InvestigationReturns, Places, LockFree
    <3> QED
      BY <1>1, <3>1
  <2>3. CASE Callers
    <3>1. ASSUME NEW p \in Parameters(submitted + 1), Submit(p)
          PROVE  valid' = {}
      BY <3>1 DEF Submit, Places
    <3>2. ASSUME (\E s \in Subs : Cancel(s)) \/ Stop
          PROVE  UNCHANGED <<version, tick, sub>> /\ valid' \subseteq valid
      BY <3>2 DEF Cancel, Stop
    <3> QED
      BY <1>1, <1>2, <2>3, <3>1, <3>2 DEF Callers
  <2>4. CASE Actor /\ ~EnvironmentReturns
    <3>1. UNCHANGED <<version, tick, sub>> /\ valid' \subseteq valid
      BY <1>5, <2>4 DEF Actor, ClockDue, InvestigationDue, LeaveLoop, DispatchEnds, Close,
         ClockBoundaryFails, InvestigationBoundaryFails, BoundaryFails,
         CandidateCanceled, CandidateRejected, Discard, ArbitrationFails,
         Override, Supervise, Commit, CommitFails
    <3> QED
      BY <1>2, <3>1
  <2> QED
    BY <2>1, <2>2, <2>3, <2>4
<1>6. CASE UNCHANGED vars
  BY <1>2, <1>6 DEF vars
<1> QED
  BY <1>3, <1>4, <1>5, <1>6

(* What executes was decided on the current version, in its window, and its *)
(* future can no longer be cancelled.                                       *)
LEMMA DispatchStep ==
  ASSUME TypeOK, Control, Places, HeldInOnePlace, CandidatesCurrent, DispatchIsCurrent,
         [Next]_vars
  PROVE  DispatchIsCurrent'
<1> SUFFICES ASSUME Executing'
             PROVE  /\ sub'[active'].based = version'
                    /\ InWindow(active)'
                    /\ future'[active'] = "running"
  BY DEF DispatchIsCurrent
<1>1. CASE Commit
  <2> DEFINE s == Newest(valid)
  <2>1. s \in valid /\ s \in Subs /\ ~done
    BY <1>1, CandidateMade DEF Commit, LockFree, Control
  <2>2. /\ active' = s /\ future[s] # "cancelled"
        /\ UNCHANGED <<version, tick, sub>>
    BY <1>1 DEF Commit
  <2>3. sub[s].based = version /\ InWindow(s)
    BY <2>1 DEF CandidatesCurrent
  <2>4. s \notin Settled /\ s \notin Replaced(s) /\ s \notin OtherFences(s)
        /\ s \notin pending
    BY <2>1 DEF HeldInOnePlace, Replaced, LiveFences, OtherFences
  <2>5. future'[s] = "running"
    BY <1>1, <2>1, <2>2, <2>4 DEF Commit, SettleAndDrain
  <2> QED
    BY <2>2, <2>3, <2>5 DEF InWindow
<1>2. CASE Executing /\ UNCHANGED <<version, tick, active>>
           /\ sub'[active] = sub[active] /\ future'[active] = "running"
  BY <1>2 DEF DispatchIsCurrent, InWindow
<1>3. CASE Callers
  <2>2. Executing /\ active \in Subs /\ active \in Made /\ active \notin Settled
        /\ future[active] = "running"
    <3>1. Executing /\ UNCHANGED <<active, pc, passed>>
      BY <1>3 DEF Callers, Cancel, Stop, Submit, Executing
    <3>2. active # NoSub /\ ~done
      BY <3>1 DEF Executing, Places, Control
    <3> QED
      BY <3>1, <3>2 DEF DispatchIsCurrent, HeldInOnePlace, Places, TypeOK
  <2>3. ASSUME NEW p \in Parameters(submitted + 1), Submit(p)
        PROVE  /\ UNCHANGED <<version, tick, active>> /\ sub'[active] = sub[active]
               /\ future'[active] = "running"
    <3>1. active # submitted + 1
      BY <2>2 DEF Made, TypeOK
    <3> QED
      BY <2>2, <2>3, <3>1 DEF Submit, Refuse, SettleAndDrain, TypeOK
  <2>4. ASSUME (\E s \in Subs : Cancel(s)) \/ Stop
        PROVE  /\ UNCHANGED <<version, tick, active>> /\ sub'[active] = sub[active]
               /\ future'[active] = "running"
    BY <2>2, <2>4 DEF Cancel, Stop, TypeOK
  <2> QED
    BY <1>2, <1>3, <2>2, <2>3, <2>4 DEF Callers
<1>4. CASE Actor /\ ~Commit
  <2>1. pc' \notin {"investigating", "stepping"} \/ active' = NoSub \/ ~passed'
    BY <1>4 DEF Actor, EnvironmentReturns, ClockDue, InvestigationDue, LeaveLoop,
       DispatchEnds, Close, ClockBoundary, ClockBoundaryFails, InvestigationBoundary,
       InvestigationBoundaryFails, BoundaryFails, CandidateCanceled, CandidateRejected,
       Discard, ArbitrationFails, Override, Supervise, CommitFails, StepRaises,
       StepInvalid, StepReturns, InvestigationRaises, InvestigationReturns, LockFree
  <2>2. pc' # "investigating"
    BY <1>4 DEF Actor, EnvironmentReturns, ClockDue, InvestigationDue, LeaveLoop,
       DispatchEnds, Close, ClockBoundary, ClockBoundaryFails, InvestigationBoundary,
       InvestigationBoundaryFails, BoundaryFails, CandidateCanceled, CandidateRejected,
       Discard, ArbitrationFails, Override, Supervise, CommitFails, StepRaises,
       StepInvalid, StepReturns, InvestigationRaises, InvestigationReturns, LockFree
  <2> QED
    BY <2>1, <2>2 DEF Executing
<1>5. CASE UNCHANGED vars
  BY <1>2, <1>5 DEF vars, Executing, DispatchIsCurrent
<1> QED
  BY <1>1, <1>3, <1>4, <1>5 DEF Next

(* Compare-and-swap: a stale, expired or cancelled submission is never in   *)
(* the hands of the environment.                                            *)
THEOREM DispatchCurrent == Spec => [](CandidatesCurrent /\ DispatchIsCurrent)
<1>1. Init => CandidatesCurrent /\ DispatchIsCurrent
  BY DEF Init, CandidatesCurrent, DispatchIsCurrent, Executing
<1>2. /\ TypeOK /\ Control /\ Places /\ HeldInOnePlace
      /\ CandidatesCurrent /\ DispatchIsCurrent /\ [Next]_vars
      => CandidatesCurrent' /\ DispatchIsCurrent'
  BY CandidatesStep, DispatchStep
<1> QED
  BY <1>1, <1>2, TypeCorrect, EverySubmissionHeld, PTL DEF Spec

-----------------------------------------------------------------------------
(* One winner per version.                                                 *)

\* a receipt, once given, stays
LEMMA ReceiptStep ==
  ASSUME TypeOK, [Next]_vars
  PROVE  \A s \in Settled : receipt'[s] = receipt[s]
<1>1. CASE receipt' = receipt
  BY <1>1
<1>2. ASSUME NEW S, NEW status, receipt' = Receipts(S, status)
      PROVE  \A s \in Settled : receipt'[s] = receipt[s]
  BY SMTT(30), <1>2 DEF Receipts, Settled
<1>3. receipt' = receipt \/ \E S, status : receipt' = Receipts(S, status)
  BY DEF Next, Actor, Callers, EnvironmentReturns, ClockDue, InvestigationDue, LeaveLoop,
     DispatchEnds, Close, ClockBoundary, ClockBoundaryFails, InvestigationBoundary,
     InvestigationBoundaryFails, BoundaryFails, CandidateCanceled, CandidateRejected,
     Discard, ArbitrationFails, Override, Supervise, Commit, CommitFails, StepRaises,
     StepInvalid, StepReturns, InvestigationRaises, InvestigationReturns, Submit, Refuse,
     Cancel, Stop, vars, Settle, SettleAndDrain
<1> QED
  BY <1>1, <1>2, <1>3

(* One terminal receipt per submission: no step replaces a receipt.         *)
THEOREM ReceiptsFinal == Spec => ReceiptIsFinal
<1>1. TypeOK /\ [Next]_vars => [\A s \in Settled : receipt'[s] = receipt[s]]_vars
  BY ReceiptStep
<1> QED
  BY <1>1, TypeCorrect, PTL DEF Spec, ReceiptIsFinal

\* who is accepted, and what of the others
LEMMA WinnersStep ==
  ASSUME TypeOK, Control, Places, HeldInOnePlace, CandidatesCurrent, DispatchIsCurrent,
         VersionsSpent, OneWinnerPerVersion, TypeOK', [Next]_vars
  PROVE  VersionsSpent' /\ OneWinnerPerVersion'
<1>0. /\ \A s \in Subs : sub[s].based \in Nat
      /\ accepted \subseteq Subs /\ accepted \subseteq Made /\ version \in Nat
  BY DEF TypeOK, Submission, Places
<1>1. \A s \in accepted : receipt[s] = "failed" => receipt'[s] = "failed"
  BY <1>0, ReceiptStep DEF Settled
<1>2. ASSUME accepted' = accepted, \A s \in accepted : sub'[s] = sub[s]
      PROVE  OneWinnerPerVersion'
  BY <1>1, <1>2 DEF OneWinnerPerVersion
<1>3. CASE Commit
  <2> DEFINE s == Newest(valid)
  <2>1. /\ s \in valid /\ s \in Subs /\ sub[s].based = version /\ ~Executing
    BY <1>3, CandidateMade DEF Commit, LockFree, CandidatesCurrent, Executing
  <2>2. /\ accepted' = accepted \cup {s} /\ active' = s /\ passed' = TRUE
        /\ pc' \in {"stepping", "investigating"} /\ UNCHANGED <<sub, version>>
    BY <1>3 DEF Commit
  <2>3. \A t \in accepted : sub[t].based < version \/ receipt[t] = "failed"
    BY <2>1 DEF VersionsSpent
  <2>4. active' # NoSub
    BY <2>1, <2>2 DEF Subs, NoSub
  <2> HIDE DEF s
  <2>5. VersionsSpent'
    BY <1>1, <2>2, <2>3, <2>4 DEF VersionsSpent, Executing
  <2>6. OneWinnerPerVersion'
    BY <1>0, <1>1, <2>1, <2>2, <2>3 DEF OneWinnerPerVersion
  <2> QED
    BY <2>5, <2>6
<1>4. CASE Executing' = Executing /\ UNCHANGED <<version, active, accepted>>
           /\ \A s \in accepted : sub'[s] = sub[s]
  BY <1>1, <1>2, <1>4 DEF VersionsSpent
<1>5. CASE Callers
  <2>1. UNCHANGED <<version, active, accepted, pc, passed>>
    BY <1>5 DEF Callers, Submit, Cancel, Stop
  <2>2. \A s \in accepted : sub'[s] = sub[s]
    <3>1. ASSUME NEW p \in Parameters(submitted + 1), Submit(p)
          PROVE  \A s \in accepted : sub'[s] = sub[s]
      <4>1. \A s \in accepted : s # submitted + 1
        BY <1>0 DEF Made, TypeOK
      <4> QED
        BY <1>0, <3>1, <4>1 DEF Submit, Refuse, TypeOK
    <3> QED
      BY <1>5, <3>1 DEF Callers, Cancel, Stop
  <2> QED
    BY <1>4, <2>1, <2>2 DEF Executing
<1>6. CASE Actor /\ ~Commit /\ ~EnvironmentReturns
  <2>1. UNCHANGED <<version, accepted, sub>> /\ ~Executing
    BY <1>6 DEF Actor, ClockDue, InvestigationDue, LeaveLoop, DispatchEnds, Close,
       ClockBoundary, ClockBoundaryFails, InvestigationBoundary,
       InvestigationBoundaryFails, BoundaryFails, CandidateCanceled, CandidateRejected,
       Discard, ArbitrationFails, Override, Supervise, CommitFails, LockFree, Executing
  <2>2. \A s \in accepted : sub[s].based < version \/ receipt[s] = "failed"
    BY <2>1 DEF VersionsSpent
  <2> QED
    BY <1>1, <1>2, <2>1, <2>2 DEF VersionsSpent
<1>7. CASE StepRaises \/ StepInvalid \/ InvestigationRaises
  <2>1. UNCHANGED <<version, accepted, sub>>
    BY <1>7 DEF StepRaises, StepInvalid, InvestigationRaises
  <2>2. ASSUME Executing PROVE receipt'[active] = "failed"
    <3>1. active \in Subs /\ receipt[active] = "none"
      BY <2>2 DEF Executing, Places, Control, HeldInOnePlace, TypeOK, Settled
    <3> QED
      BY <1>7, <3>1 DEF StepRaises, StepInvalid, InvestigationRaises, Settle,
         SettleAndDrain, Receipts, Each
  <2> QED
    BY <1>1, <1>2, <2>1, <2>2 DEF VersionsSpent
<1>8. CASE \/ \E d \in Delays, end \in BOOLEAN : StepReturns(d, end)
           \/ \E d \in Delays : InvestigationReturns(d)
  <2>1. UNCHANGED <<accepted, sub>> /\ version' = version + 1
    BY <1>8 DEF StepReturns, InvestigationReturns
  <2>2. \A s \in accepted : sub[s].based <= version \/ receipt[s] = "failed"
    BY <1>0 DEF VersionsSpent, DispatchIsCurrent
  <2> QED
    BY <1>0, <1>1, <1>2, <2>1, <2>2 DEF VersionsSpent
<1>9. CASE UNCHANGED vars
  BY <1>4, <1>9 DEF vars, Executing
<1> QED
  BY <1>3, <1>5, <1>6, <1>7, <1>8, <1>9 DEF Next, Actor, EnvironmentReturns

(* Two actions decided on one state version are never both executed, unless *)
(* one is an investigation that failed without changing the state.          *)
THEOREM VersionWonOnce == Spec => [](VersionsSpent /\ OneWinnerPerVersion)
<1>1. Init => VersionsSpent /\ OneWinnerPerVersion
  BY DEF Init, VersionsSpent, OneWinnerPerVersion
<1>2. /\ TypeOK /\ Control /\ Places /\ HeldInOnePlace /\ CandidatesCurrent
      /\ DispatchIsCurrent /\ VersionsSpent /\ OneWinnerPerVersion /\ TypeOK'
      /\ [Next]_vars
      => VersionsSpent' /\ OneWinnerPerVersion'
  BY WinnersStep
<1> QED
  BY <1>1, <1>2, TypeCorrect, EverySubmissionHeld, DispatchCurrent, PTL DEF Spec

-----------------------------------------------------------------------------
(* What is executed, and what is left undone *)

(* A submission with an idempotency key of its own: the key is taken as     *)
(* soon as the submission is queued and no other queued one has it.         *)
Known == pending \cup valid \cup accepted

KeysTaken ==
  /\ \A s \in Known : sub[s].key \in keys
  /\ \A s, t \in Known : sub[s].key = sub[t].key => s = t

(* An accepted submission is out of reach of Future.cancel.                 *)
BeyondCancel ==
  \A s \in accepted : future[s] \in {"running", "done"} /\ receipt[s] # "canceled"

(* Every call in the registry's queue is one that a deferred action waits   *)
(* for, as long as the actor has not failed closed.                         *)
QueueOwned ==
  ~done => \A c \in Subs \X Calls : native[c] # 0 => c[2] \in deferred[c[1]]

(* From the boundary of a dispatch on, what is still deferred outlives it.  *)
TimeLeft ==
  /\ pc \in {"selecting", "stepping"} =>
       \A s \in Deferred :
         (IF sub[s].kind = "investigation" THEN tick ELSE tick + 1) <= sub[s].expires
  /\ pc \in {"investigationSelecting", "investigating"} =>
       \A s \in Deferred : tick <= sub[s].expires

(* A queued submission replaces an older one.  If that is deferred, a fence *)
(* was asked for; otherwise it was deferred by a later version than the     *)
(* submission was decided on.                                               *)
TargetsAsked ==
  ~done => \A s \in pending \cup valid :
    /\ sub[s].based <= version
    /\ sub[s].supersedes < s
    /\ sub[s].supersedes \in Deferred /\ sub[s].based = version => s \in fences

-----------------------------------------------------------------------------
(* Accepted once.                                                          *)

\* the submissions that are known move between the three sets
LEMMA KeysStep ==
  ASSUME TypeOK, Places, KeysTaken, [Next]_vars
  PROVE  KeysTaken'
<1>1. CASE UNCHANGED <<keys, sub>> /\ Known' \subseteq Known
  BY <1>1 DEF KeysTaken
<1>2. ASSUME NEW p \in Parameters(submitted + 1), Submit(p)
      PROVE  KeysTaken'
  <2> DEFINE n == submitted + 1
  <2>1. n \notin Known /\ n \in Subs
    BY <1>2 DEF Places, Made, TypeOK, Known, Submit
  <2>2. CASE UNCHANGED <<sub, pending>> /\ keys \subseteq keys'
    <3>1. Known' = Known
      BY <1>2, <2>2 DEF Submit, Known
    <3> QED
      BY <2>2, <3>1 DEF KeysTaken
  <2>3. CASE /\ p.key \notin keys /\ keys' = keys \cup {p.key}
             /\ sub' = [sub EXCEPT ![n] = p] /\ pending' = pending \cup {n}
    <3>1. Known' = Known \cup {n}
      BY <1>2, <2>3 DEF Submit, Known
    <3>2. sub'[n] = p /\ \A s \in Known : sub'[s] = sub[s]
      BY <2>1, <2>3 DEF TypeOK
    <3> HIDE DEF n
    <3> QED
      BY <2>3, <3>1, <3>2 DEF KeysTaken
  <2> QED
    BY <1>2, <2>2, <2>3 DEF Submit, Refuse, Rejects
<1>3. CASE (\E s \in Subs : Cancel(s)) \/ Stop
  BY <1>1, <1>3 DEF Cancel, Stop, Known
<1>4. CASE EnvironmentReturns
  BY <1>1, <1>4 DEF EnvironmentReturns, StepRaises, StepInvalid, StepReturns,
     InvestigationRaises, InvestigationReturns, Known
<1>5. CASE Commit
  <2>1. Newest(valid) \in valid
    BY <1>5, CandidateMade DEF Commit
  <2> QED
    BY <1>1, <1>5, <2>1 DEF Commit, Known
<1>6. CASE Actor /\ ~EnvironmentReturns /\ ~Commit
  <2>1. UNCHANGED <<keys, sub>> /\ Known' \subseteq Known
    BY <1>6 DEF Actor, ClockDue, InvestigationDue, LeaveLoop, DispatchEnds, Close,
       ClockBoundary, ClockBoundaryFails, InvestigationBoundary,
       InvestigationBoundaryFails, BoundaryFails, CandidateCanceled, CandidateRejected,
       Discard, ArbitrationFails, Override, Supervise, CommitFails, Known,
       CurrentInvestigation
  <2> QED
    BY <1>1, <2>1
<1>7. CASE UNCHANGED vars
  BY <1>1, <1>7 DEF vars, Known
<1> QED
  BY <1>2, <1>3, <1>4, <1>5, <1>6, <1>7 DEF Next, Callers

\* settling keeps accepted submissions from a cancellation's receipt
LEMMA SettleAccepted ==
  ASSUME TypeOK, BeyondCancel, NEW S, NEW R, NEW status,
         \A s \in S \cap accepted : status[s] # "canceled",
         Settle(S, status) \/ SettleAndDrain(S, R, status)
  PROVE  \A s \in accepted :
           future'[s] \in {"running", "done"} /\ receipt'[s] # "canceled"
<1>1. \A s \in accepted : s \in Subs
  BY DEF TypeOK
<1>2. \A s \in accepted : receipt'[s] # "canceled"
  BY <1>1 DEF Settle, SettleAndDrain, Receipts, BeyondCancel
<1>3. \A s \in accepted : future'[s] \in {"running", "done"}
  BY <1>1 DEF Settle, SettleAndDrain, BeyondCancel
<1> QED
  BY <1>2, <1>3

(* Accepting takes the future out of the cancellable state, and only what   *)
(* a caller cancelled before gets the receipt of a cancellation.            *)
LEMMA BeyondStep ==
  ASSUME TypeOK, Control, Places, HeldInOnePlace, BeyondCancel, [Next]_vars
  PROVE  BeyondCancel'
<1> DEFINE Kept == \A s \in accepted :
                     future'[s] \in {"running", "done"} /\ receipt'[s] # "canceled"
<1>0. \A s \in accepted : Verdict(s) # "canceled" /\ s \in Subs /\ future[s] # "cancelled"
  BY DEF Verdict, BeyondCancel, TypeOK
<1>1. CASE UNCHANGED <<accepted, future, receipt>>
  BY <1>1 DEF BeyondCancel
<1>2. ASSUME Kept, accepted' = accepted
      PROVE  BeyondCancel'
  BY <1>2 DEF BeyondCancel
<1>3. CASE Close
  <2>1. SettleAndDrain(Unanswered, {}, Each("failed")) /\ accepted' = accepted
    BY <1>3 DEF Close
  <2>2. \A t \in Unanswered \cap accepted : Each("failed")[t] # "canceled"
    BY <1>0 DEF Each
  <2> QED
    BY <1>2, <2>1, <2>2, SettleAccepted
<1>4. CASE ClockBoundary
  <2> DEFINE invalid == {s \in pending : Verdict(s) # "valid"} \cup InvalidFences
             expired == Expiring(tick + 1)
             status  == [s \in Subs |-> IF s \in expired THEN "expired" ELSE Verdict(s)]
  <2>1. Settle(invalid \cup expired, status) /\ accepted' = accepted
    BY <1>4 DEF ClockBoundary
  <2>2. \A s \in (invalid \cup expired) \cap accepted : status[s] # "canceled"
    BY <1>0
  <2> HIDE DEF invalid, expired, status
  <2> QED
    BY <1>2, <2>1, <2>2, SettleAccepted
<1>5. CASE InvestigationBoundary
  <2> DEFINE expired == Expiring(tick)
             status  == [s \in Subs |-> IF s \in expired THEN "expired" ELSE Verdict(s)]
  <2>1. Settle(InvalidFences \cup expired, status) /\ accepted' = accepted
    BY <1>5 DEF InvestigationBoundary
  <2>2. \A s \in (InvalidFences \cup expired) \cap accepted : status[s] # "canceled"
    BY <1>0
  <2> HIDE DEF expired, status
  <2> QED
    BY <1>2, <2>1, <2>2, SettleAccepted
<1>6. ASSUME NEW fenceTick, NEW next, BoundaryFails(fenceTick, next)
      PROVE  BeyondCancel'
  <2>1. PICK refused :
          Settle(Fenced(Expiring(fenceTick), refused) \cup InvalidFences,
                 [s \in Subs |->
                    IF s \in Unfenceable(Expiring(fenceTick), refused) THEN "fence_failed"
                    ELSE IF s \in Fenced(Expiring(fenceTick), refused) THEN "expired"
                    ELSE Verdict(s)])
    BY <1>6 DEF BoundaryFails
  <2> DEFINE E == Fenced(Expiring(fenceTick), refused)
             status == [s \in Subs |->
                          IF s \in Unfenceable(Expiring(fenceTick), refused)
                          THEN "fence_failed"
                          ELSE IF s \in E THEN "expired" ELSE Verdict(s)]
  <2>2. Settle(E \cup InvalidFences, status) /\ accepted' = accepted
    BY <1>6, <2>1 DEF BoundaryFails
  <2>3. \A s \in (E \cup InvalidFences) \cap accepted : status[s] # "canceled"
    BY <1>0
  <2> HIDE DEF E, status
  <2> QED
    BY <1>2, <2>2, <2>3, SettleAccepted
<1>7. ASSUME NEW status \in {"canceled", "rejected"}, Discard(status),
             status = "canceled" => Newest(valid) \notin accepted
      PROVE  BeyondCancel'
  <2> DEFINE s == Newest(valid)
  <2>1. /\ Settle({s}, Each(status)) \/ SettleAndDrain({s}, {}, Each(status))
        /\ accepted' = accepted
    BY <1>7 DEF Discard
  <2>2. \A t \in {s} \cap accepted : Each(status)[t] # "canceled"
    BY <1>0, <1>7 DEF Each
  <2> HIDE DEF s
  <2> QED
    BY <1>2, <2>1, <2>2, SettleAccepted
<1>8. CASE CandidateCanceled \/ CandidateRejected
  BY <1>0, <1>7, <1>8 DEF CandidateCanceled, CandidateRejected
<1>9. CASE ArbitrationFails
  <2>1. SettleAndDrain({Newest(valid)}, {}, Each("rejected")) /\ accepted' = accepted
    BY <1>9 DEF ArbitrationFails
  <2>2. \A t \in {Newest(valid)} \cap accepted : Each("rejected")[t] # "canceled"
    BY <1>0 DEF Each
  <2> QED
    BY <1>2, <2>1, <2>2, SettleAccepted
<1>10. CASE Override \/ Supervise
  BY <1>2, <1>10, SettleAccepted DEF Override, Supervise
<1>11. CASE Commit
  <2> DEFINE s       == Newest(valid)
             older   == (valid \ {s}) \cup {t \in pending : t = sub[s].supersedes}
             dropped == InvalidFences \cap OtherFences(s)
             S       == Replaced(s) \cup older \cup dropped
             status  == [t \in Subs |-> IF t \in dropped THEN Verdict(t)
                                        ELSE "superseded"]
  <2>1. /\ s \in valid /\ s \in Subs /\ s \notin Settled /\ s \notin Deferred
        /\ s \notin pending
    BY <1>11, CandidateMade DEF Commit, LockFree, HeldInOnePlace, Control
  <2>2. /\ SettleAndDrain(S, {s}, status) /\ accepted' = accepted \cup {s}
        /\ future[s] # "cancelled"
    BY <1>11 DEF Commit
  <2>3. \A t \in S \cap accepted : status[t] # "canceled"
    BY <1>0
  <2>4. s \notin S
    BY <2>1 DEF Replaced, LiveFences, OtherFences
  <2> HIDE DEF S, status, s
  <2>5. Kept
    BY <2>2, <2>3, SettleAccepted
  <2>6. future'[s] = "running" /\ receipt'[s] = "none"
    BY <2>1, <2>2, <2>4 DEF SettleAndDrain, Settled, Receipts
  <2> QED
    BY <2>2, <2>5, <2>6 DEF BeyondCancel
<1>12. CASE CommitFails
  <2> DEFINE s       == Newest(valid)
             dropped == {t \in InvalidFences : t < s}
             S       == Replaced(s) \cup {s} \cup dropped
             status  == [t \in Subs |-> IF t \in dropped THEN Verdict(t)
                                        ELSE "fence_failed"]
  <2>1. SettleAndDrain(S, {}, status) /\ accepted' = accepted
    BY <1>12 DEF CommitFails
  <2>2. \A t \in S \cap accepted : status[t] # "canceled"
    BY <1>0
  <2> HIDE DEF S, status
  <2> QED
    BY <1>2, <2>1, <2>2, SettleAccepted
<1>13. CASE StepRaises \/ StepInvalid \/ InvestigationRaises
  BY <1>0, <1>2, <1>13, SettleAccepted DEF StepRaises, StepInvalid, InvestigationRaises, Each
<1>14. ASSUME NEW d \in Delays, NEW end \in BOOLEAN, StepReturns(d, end)
       PROVE  BeyondCancel'
  <2> DEFINE answered == IF Defers(d) THEN {} ELSE {active} \cap Subs
             S == Resolved \cup Unresolved(d, end) \cup answered
             status == [t \in Subs |-> IF t \in answered
                                       THEN IF passed THEN "executed" ELSE "rejected"
                                       ELSE IF t \in Unresolved(d, end) THEN "failed"
                                       ELSE IF Late(t) THEN "expired" ELSE "executed"]
  <2>1. SettleAndDrain(S, {}, status) /\ accepted' = accepted
    BY <1>14 DEF StepReturns
  <2>2. \A t \in S \cap accepted : status[t] # "canceled"
    BY <1>0
  <2> HIDE DEF S, status
  <2> QED
    BY <1>2, <2>1, <2>2, SettleAccepted
<1>15. ASSUME NEW d \in Delays, InvestigationReturns(d)
       PROVE  BeyondCancel'
  BY <1>0, <1>2, <1>15, SettleAccepted DEF InvestigationReturns, Each
<1>16. ASSUME NEW p \in Parameters(submitted + 1), Submit(p)
       PROVE  BeyondCancel'
  <2>1. submitted + 1 \notin accepted
    BY DEF Places, Made, TypeOK
  <2>2. ASSUME NEW status, Refuse(submitted + 1, status)
        PROVE  Kept
    BY <2>1, <2>2, SettleAccepted DEF Refuse
  <2>3. accepted' = accepted
    BY <1>16 DEF Submit
  <2>4. CASE UNCHANGED receipt /\ future' = [t \in Subs |->
               IF t = submitted + 1 THEN "pending"
               ELSE IF t \in Settled /\ future[t] = "running" THEN "done" ELSE future[t]]
    BY <1>0, <2>1, <2>3, <2>4 DEF BeyondCancel
  <2> QED
    BY <1>2, <1>16, <2>2, <2>3, <2>4 DEF Submit
<1>17. CASE \E s \in Subs : Cancel(s)
  BY <1>17 DEF Cancel, BeyondCancel, TypeOK
<1>18. CASE \/ ClockDue \/ InvestigationDue \/ LeaveLoop \/ DispatchEnds \/ Stop
            \/ UNCHANGED vars
  BY <1>1, <1>18 DEF ClockDue, InvestigationDue, LeaveLoop, DispatchEnds, Stop, vars
<1> QED
  BY <1>3, <1>4, <1>5, <1>6, <1>8, <1>9, <1>10, <1>11, <1>12, <1>13, <1>14, <1>15,
     <1>16, <1>17, <1>18
  DEF Next, Actor, Callers, EnvironmentReturns, ClockBoundaryFails,
      InvestigationBoundaryFails

(* Nothing that its caller cancelled, and no second submission under an     *)
(* idempotency key, is ever handed to the environment.                      *)
THEOREM OnceAccepted == Spec => []AcceptedOnce
<1>1. Init => KeysTaken /\ BeyondCancel
  BY DEF Init, KeysTaken, BeyondCancel, Known
<1>2. /\ TypeOK /\ Control /\ Places /\ HeldInOnePlace /\ KeysTaken /\ BeyondCancel
      /\ [Next]_vars
      => KeysTaken' /\ BeyondCancel'
  BY KeysStep, BeyondStep
<1>3. KeysTaken /\ BeyondCancel => AcceptedOnce
  BY DEF KeysTaken, BeyondCancel, AcceptedOnce, Known
<1> QED
  BY <1>1, <1>2, <1>3, TypeCorrect, EverySubmissionHeld, PTL DEF Spec

-----------------------------------------------------------------------------
(* Effects of delayed calls.                                               *)

\* at the boundary, what is deferred and does not expire has time left
LEMMA TimeStep ==
  ASSUME TypeOK, Control, Places, HeldInOnePlace, TimeLeft, TypeOK', [Next]_vars
  PROVE  TimeLeft'
<1> USE DEF TimeLeft
<1>0. tick \in Int /\ \A s \in Subs : sub[s].expires \in Int
  BY ConstantsAssumption DEF TypeOK, Submission, Ticks, ConstantsAssumption
<1>1. CASE pc' \notin {"selecting", "stepping", "investigationSelecting", "investigating"}
  BY <1>1
<1>2. CASE pc' = pc /\ UNCHANGED <<tick, deferred>> /\ \A s \in Deferred : sub'[s] = sub[s]
  BY <1>2 DEF Deferred
<1>3. CASE ClockBoundary
  <2>1. \A s \in Deferred' : s \in Deferred /\ s \notin Expiring(tick + 1)
    BY <1>3 DEF ClockBoundary, BoundaryClears, Deferred
  <2>2. UNCHANGED <<tick, sub>> /\ pc' = "selecting"
    BY <1>3 DEF ClockBoundary
  <2>3. \A s \in Deferred' :
          (IF sub[s].kind = "investigation" THEN tick ELSE tick + 1) <= sub[s].expires
    BY <1>0, <2>1 DEF Expiring, Deferred
  <2> QED
    BY <2>2, <2>3
<1>4. CASE InvestigationBoundary
  <2>1. \A s \in Deferred' : s \in Deferred /\ s \notin Expiring(tick)
    BY <1>4 DEF InvestigationBoundary, BoundaryClears, Deferred
  <2>2. UNCHANGED <<tick, sub>> /\ pc' \in {"loop", "investigationSelecting"}
    BY <1>4 DEF InvestigationBoundary
  <2>3. \A s \in Deferred' : tick <= sub[s].expires
    BY <1>0, <2>1 DEF Expiring, Deferred
  <2> QED
    BY <2>2, <2>3
<1>5. CASE CandidateCanceled \/ CandidateRejected
  BY <1>1, <1>2, <1>5 DEF CandidateCanceled, CandidateRejected, Discard
<1>6. CASE Override \/ Supervise \/ Commit
  <2>1. /\ \A s \in Deferred' : s \in Deferred
        /\ UNCHANGED <<tick, sub>>
    BY <1>6 DEF Override, Supervise, Commit, Deferred
  <2>2. \/ pc = "selecting" /\ pc' \in {"stepping", "dispatched"}
        \/ pc = "investigationSelecting" /\ pc' = "investigating"
    BY <1>6 DEF Override, Supervise, Commit, LockFree
  <2> QED
    BY <2>1, <2>2
<1>7. ASSUME NEW p \in Parameters(submitted + 1), Submit(p)
      PROVE  TimeLeft'
  <2>1. \A s \in Deferred : s \in Subs /\ s # submitted + 1
    BY DEF Places, Made, TypeOK, Deferred
  <2>2. \A s \in Deferred : sub'[s] = sub[s]
    BY <1>7, <2>1 DEF Submit, Refuse, TypeOK
  <2> QED
    BY <1>2, <1>7, <2>2 DEF Submit
<1>8. CASE (\E s \in Subs : Cancel(s)) \/ Stop \/ UNCHANGED vars
  BY <1>2, <1>8 DEF Cancel, Stop, vars
<1>9. CASE \/ ClockDue \/ InvestigationDue \/ LeaveLoop \/ DispatchEnds \/ Close
           \/ ArbitrationFails \/ CommitFails \/ EnvironmentReturns
           \/ ClockBoundaryFails \/ InvestigationBoundaryFails
  BY <1>1, <1>9 DEF ClockDue, InvestigationDue, LeaveLoop, DispatchEnds, Close,
     ArbitrationFails, CommitFails, EnvironmentReturns, StepRaises, StepInvalid,
     StepReturns, InvestigationRaises, InvestigationReturns, ClockBoundaryFails,
     InvestigationBoundaryFails, BoundaryFails
<1> QED
  BY <1>3, <1>4, <1>5, <1>6, <1>7, <1>8, <1>9 DEF Next, Actor, Callers

\* taking deferred work back takes all its calls out of the queue
LEMMA UnqueueOwned ==
  ASSUME TypeOK, QueueOwned, ~done, NEW S, S \subseteq Subs,
         Unqueue(S, {}), deferred' = [s \in Subs |-> IF s \in S THEN {} ELSE deferred[s]]
  PROVE  /\ \A c \in Subs \X Calls : native'[c] # 0 => c[2] \in deferred'[c[1]]
         /\ \A c \in Subs \X Calls : native[c] = 0 => native'[c] = 0
         /\ \A c \in Subs \X Calls : c[1] \in S => native'[c] = 0
<1>1. \A c \in Subs \X Calls : native'[c] = IF c \in QueuedCalls(S) THEN 0 ELSE native[c]
  BY DEF Unqueue
<1>2. \A c \in Subs \X Calls : native[c] # 0 /\ c[1] \in S => c \in QueuedCalls(S)
  BY DEF QueueOwned, QueuedCalls
<1>3. \A c \in Subs \X Calls : c[1] \in Subs
  OBVIOUS
<1> QED
  BY <1>1, <1>2, <1>3 DEF QueueOwned

(* What the registry queues, runs and takes back is what the actor has on   *)
(* its list of deferred work.                                               *)
LEMMA QueueStep ==
  ASSUME TypeOK, Control, Places, HeldInOnePlace, TimeLeft, QueueOwned, TypeOK',
         [Next]_vars
  PROVE  QueueOwned'
<1> SUFFICES ASSUME ~done'
             PROVE  \A c \in Subs \X Calls : native'[c] # 0 => c[2] \in deferred'[c[1]]
  BY DEF QueueOwned
<1>1. CASE ~done /\ UNCHANGED <<native, deferred>>
  BY <1>1 DEF QueueOwned
<1>2. ASSUME ~done, NEW fenceTick, BoundaryClears(fenceTick)
      PROVE  \A c \in Subs \X Calls : native'[c] # 0 => c[2] \in deferred'[c[1]]
  <2>1. Expiring(fenceTick) \subseteq Subs
    BY DEF Expiring, Deferred
  <2> QED
    BY <1>2, <2>1, UnqueueOwned DEF BoundaryClears
<1>3. CASE ClockBoundary \/ InvestigationBoundary
  BY <1>2, <1>3 DEF ClockBoundary, InvestigationBoundary
<1>4. CASE Commit
  <2> DEFINE S == Replaced(Newest(valid))
  <2>1. S \subseteq Subs /\ ~done
    BY <1>4 DEF Replaced, LiveFences, Deferred, Commit, LockFree, Control
  <2>2. Unqueue(S, {}) /\ deferred' = [s \in Subs |-> IF s \in S THEN {} ELSE deferred[s]]
    BY <1>4 DEF Commit
  <2> HIDE DEF S
  <2> QED
    BY <2>1, <2>2, UnqueueOwned
<1>5. ASSUME NEW d \in Delays, NEW end \in BOOLEAN, StepReturns(d, end)
      PROVE  \A c \in Subs \X Calls : native'[c] # 0 => c[2] \in deferred'[c[1]]
  <2>1. ~end /\ ~done /\ pc = "stepping" /\ active \notin Deferred
    BY <1>5 DEF StepReturns, Control, HeldInOnePlace
  <2>2. deferred' = Left(d)
    BY <1>5, <2>1 DEF StepReturns, Left
  <2>3. tick \in Int /\ \A s \in Subs : sub[s].expires \in Int
    BY ConstantsAssumption DEF TypeOK, Submission, Ticks, ConstantsAssumption
  <2>4. \A s \in Deferred : s \in Subs /\ ~Late(s)
    BY <2>1, <2>3 DEF TimeLeft, Late, Deferred
  <2> TAKE c \in Subs \X Calls
  <2> HAVE native'[c] # 0
  <2>5. c[1] \in Subs /\ c[2] \in Calls /\ c = <<c[1], c[2]>>
    OBVIOUS
  <2>6. native'[c] = IF c[1] = active /\ d[c[2]] # 0 THEN tick + d[c[2]]
                     ELSE IF c \in DueCalls THEN 0 ELSE native[c]
    BY <1>5 DEF StepReturns, RegistryRuns
  <2>7. CASE c[1] = active /\ d[c[2]] # 0
    <3>1. c[2] \in Queued(d)
      BY <2>5, <2>7 DEF Queued
    <3>2. active # NoSub
      BY <2>5, <2>7 DEF Subs, NoSub
    <3>3. Defers(d)
      BY <1>5, <3>1, <3>2 DEF StepReturns, Defers
    <3> QED
      BY <2>2, <2>5, <2>7, <3>1, <3>3 DEF Left
  <2>8. CASE ~(c[1] = active /\ d[c[2]] # 0)
    <3>1. c \notin DueCalls /\ native[c] # 0
      BY <2>6, <2>8
    <3>2. c[2] \in deferred[c[1]]
      BY <2>1, <3>1 DEF QueueOwned
    <3>3. c[1] \in Deferred /\ c[1] # active
      BY <2>1, <2>5, <3>2 DEF Deferred
    <3>4. c[2] \in Remaining(c[1])
      BY <2>5, <3>1, <3>2 DEF Remaining
    <3>5. c[1] \notin Resolved
      BY <2>4, <3>3, <3>4 DEF Resolved
    <3> QED
      BY <2>2, <2>5, <3>3, <3>4, <3>5 DEF Left
  <2> QED
    BY <2>7, <2>8
<1>6. ASSUME NEW d \in Delays, InvestigationReturns(d)
      PROVE  \A c \in Subs \X Calls : native'[c] # 0 => c[2] \in deferred'[c[1]]
  <2>1. ~done /\ active \notin Deferred /\ active \in Subs
    BY <1>6 DEF InvestigationReturns, Control, HeldInOnePlace, Places, TypeOK
  <2> TAKE c \in Subs \X Calls
  <2> HAVE native'[c] # 0
  <2>2. c[1] \in Subs /\ c[2] \in Calls
    OBVIOUS
  <2>3. native'[c] = IF c[1] = active /\ d[c[2]] # 0 THEN tick + d[c[2]]
                     ELSE IF c \in DueCalls THEN 0 ELSE native[c]
    BY <1>6 DEF InvestigationReturns, RegistryRuns
  <2>4. deferred' = [deferred EXCEPT ![active] = Queued(d)]
    BY <1>6 DEF InvestigationReturns
  <2>5. CASE c[1] = active /\ d[c[2]] # 0
    BY <2>1, <2>2, <2>4, <2>5 DEF Queued, TypeOK
  <2>6. CASE ~(c[1] = active /\ d[c[2]] # 0)
    <3>1. native[c] # 0
      BY <2>3, <2>6
    <3>2. c[2] \in deferred[c[1]]
      BY <2>1, <3>1 DEF QueueOwned
    <3>3. c[1] # active
      BY <2>1, <2>2, <3>2 DEF Deferred
    <3> QED
      BY <2>4, <3>2, <3>3 DEF TypeOK
  <2> QED
    BY <2>5, <2>6
<1>7. CASE Callers \/ UNCHANGED vars
  BY <1>1, <1>7 DEF Callers, Submit, Cancel, Stop, vars
<1>8. CASE \/ ClockDue \/ InvestigationDue \/ LeaveLoop \/ DispatchEnds
           \/ CandidateCanceled \/ CandidateRejected \/ Override \/ Supervise
           \/ InvestigationRaises
  BY <1>1, <1>8 DEF ClockDue, InvestigationDue, LeaveLoop, DispatchEnds,
     CandidateCanceled, CandidateRejected, Discard, Override, Supervise,
     InvestigationRaises
<1>9. CASE \/ Close \/ ArbitrationFails \/ CommitFails \/ StepRaises \/ StepInvalid
           \/ ClockBoundaryFails \/ InvestigationBoundaryFails
  BY <1>9 DEF Close, ArbitrationFails, CommitFails, StepRaises, StepInvalid,
     ClockBoundaryFails, InvestigationBoundaryFails, BoundaryFails
<1> QED
  BY <1>3, <1>4, <1>5, <1>6, <1>7, <1>8, <1>9
  DEF Next, Actor, EnvironmentReturns

(* The registry's queue is what the actor waits for.                        *)
LEMMA QueueKept == Spec => [](TimeLeft /\ QueueOwned)
<1>1. Init => TimeLeft /\ QueueOwned
  BY DEF Init, TimeLeft, QueueOwned, NoQueue, Deferred
<1>2. /\ TypeOK /\ Control /\ Places /\ HeldInOnePlace /\ TimeLeft /\ QueueOwned
      /\ TypeOK' /\ [Next]_vars
      => TimeLeft' /\ QueueOwned'
  BY TimeStep, QueueStep
<1> QED
  BY <1>1, <1>2, TypeCorrect, EverySubmissionHeld, PTL DEF Spec

\* a call that runs belongs to a deferred action, in one of two actions
LEMMA RunsWhenDue ==
  ASSUME TypeOK, Control, QueueOwned, [Next]_vars, NEW c \in ran' \ ran
  PROVE  /\ c \in Subs \X Calls /\ c[1] \in Deferred /\ ~done
         /\ \/ pc = "stepping" /\ tick' = tick + 1 /\ UNCHANGED sub
            \/ pc = "investigating" /\ tick' = tick /\ UNCHANGED sub
<1>1. ran' # ran
  OBVIOUS
<1>2. \/ \E d \in Delays, end \in BOOLEAN : StepReturns(d, end)
      \/ \E d \in Delays : InvestigationReturns(d)
  BY <1>1 DEF Next, Actor, Callers, EnvironmentReturns, ClockDue, InvestigationDue,
     LeaveLoop, DispatchEnds, Close, ClockBoundary, ClockBoundaryFails,
     InvestigationBoundary, InvestigationBoundaryFails, BoundaryFails,
     CandidateCanceled, CandidateRejected, Discard, ArbitrationFails, Override,
     Supervise, Commit, CommitFails, StepRaises, StepInvalid, InvestigationRaises,
     Submit, Cancel, Stop, vars
<1>3. /\ c \in DueCalls
      /\ \/ pc = "stepping" /\ tick' = tick + 1 /\ UNCHANGED sub
         \/ pc = "investigating" /\ tick' = tick /\ UNCHANGED sub
  BY <1>2 DEF StepReturns, InvestigationReturns, RegistryRuns
<1>4. c \in Subs \X Calls /\ native[c] # 0 /\ ~done
  BY <1>3 DEF DueCalls, Control
<1>5. c[2] \in deferred[c[1]] /\ c[1] \in Subs
  BY <1>4 DEF QueueOwned
<1> QED
  BY <1>3, <1>4, <1>5 DEF Deferred

(* A delayed call runs only while its action is open: never after the       *)
(* action was superseded, expired or failed.                                *)
THEOREM EffectsOfOpenActions == Spec => NoEffectAfterReceipt
<1>1. TypeOK /\ Control /\ HeldInOnePlace /\ QueueOwned /\ [Next]_vars
      => [\A c \in ran' \ ran : c[1] \notin Settled]_vars
  BY RunsWhenDue DEF HeldInOnePlace
<1> QED
  BY <1>1, TypeCorrect, EverySubmissionHeld, QueueKept, PTL
  DEF Spec, NoEffectAfterReceipt

(* A delayed control that runs has had its effect by its expiry tick.       *)
THEOREM EffectsInTime == Spec => EffectWithinLifetime
<1>1. ASSUME TypeOK, Control, TimeLeft, QueueOwned, [Next]_vars, NEW c \in ran' \ ran,
             sub[c[1]].kind = "control"
      PROVE  tick' <= sub[c[1]].expires
  BY <1>1, RunsWhenDue DEF TimeLeft
<1>2. TypeOK /\ Control /\ TimeLeft /\ QueueOwned /\ [Next]_vars
      => [\A c \in ran' \ ran :
            sub[c[1]].kind = "control" => tick' <= sub[c[1]].expires]_vars
  BY <1>1
<1> QED
  BY <1>2, TypeCorrect, QueueKept, PTL DEF Spec, EffectWithinLifetime

-----------------------------------------------------------------------------
(* Replaced work.                                                          *)

\* a submission is queued on the current version, for an older one
LEMMA QueuedParameters ==
  ASSUME TypeOK, NEW p \in Parameters(submitted + 1), submitted + 1 \in Subs
  PROVE  p.supersedes < submitted + 1 /\ p.supersedes \in Subs \cup {NoSub}
BY DEF Parameters, TypeOK, Subs, NoSub

\* fence requests that are dropped: the requester is not queued any more, or
\* the work it replaces is not deferred any more
LEMMA TargetsStep ==
  ASSUME TypeOK, Control, Places, HeldInOnePlace, TargetsAsked, TypeOK', [Next]_vars
  PROVE  TargetsAsked'
<1> SUFFICES ASSUME ~done'
             PROVE  \A s \in pending' \cup valid' :
                      /\ sub'[s].based <= version'
                      /\ sub'[s].supersedes < s
                      /\ sub'[s].supersedes \in Deferred' /\ sub'[s].based = version'
                         => s \in fences'
  BY DEF TargetsAsked
<1> DEFINE Asked == \A s \in pending' \cup valid' :
                      /\ sub'[s].based <= version'
                      /\ sub'[s].supersedes < s
                      /\ sub'[s].supersedes \in Deferred' /\ sub'[s].based = version'
                         => s \in fences'
<1>0. /\ version \in Nat /\ \A s \in Subs : sub[s].based \in Nat
      /\ \A s \in pending \cup valid : s \in Subs
  BY DEF TypeOK, Submission
<1>1. ASSUME ~done, UNCHANGED <<version, sub>>,
             \A s \in pending' \cup valid' :
               /\ s \in pending \cup valid
               /\ s \in fences => s \in fences' \/ sub[s].supersedes \notin Deferred',
             Deferred' \subseteq Deferred
      PROVE  Asked
  BY <1>1 DEF TargetsAsked
<1>2. ASSUME ~done, NEW fenceTick, BoundaryClears(fenceTick), UNCHANGED <<version, sub>>,
             pending' \cup valid' \subseteq (pending \cup valid) \ InvalidFences
      PROVE  Asked
  <2>1. Deferred' \subseteq Deferred
    BY <1>2 DEF BoundaryClears, Deferred
  <2>2. ASSUME NEW s \in pending' \cup valid', s \in fences
        PROVE  s \in fences' \/ sub[s].supersedes \notin Deferred'
    <3>1. s \in pending \cup valid /\ s \notin InvalidFences /\ s \notin Settled
      BY <1>2 DEF HeldInOnePlace
    <3> QED
      BY <1>2, <2>1, <2>2, <3>1 DEF BoundaryClears, LiveFences
  <2> QED
    BY <1>1, <1>2, <2>1, <2>2
<1>3. CASE ClockBoundary
  <2>1. pending' \cup valid' \subseteq (pending \cup valid) \ InvalidFences
    BY <1>3 DEF ClockBoundary, Places, LockFree
  <2> QED
    BY <1>2, <1>3, <2>1 DEF ClockBoundary, Control
<1>4. CASE InvestigationBoundary
  <2>1. pending' \cup valid' \subseteq (pending \cup valid) \ InvalidFences
    BY <1>4 DEF InvestigationBoundary, CurrentInvestigation
  <2> QED
    BY <1>2, <1>4, <2>1 DEF InvestigationBoundary, Control
<1>5. CASE CandidateCanceled \/ CandidateRejected
  <2>1. /\ ~done /\ UNCHANGED <<version, sub, pending, fences, deferred>>
        /\ valid' \subseteq valid
    BY <1>5 DEF CandidateCanceled, CandidateRejected, Discard, LockFree, Control
  <2> QED
    BY <1>1, <2>1 DEF Deferred
<1>6. CASE Override \/ Supervise
  <2>1. /\ ~done /\ UNCHANGED <<version, sub, pending, fences, deferred>>
        /\ valid' \subseteq valid
    BY <1>6 DEF Override, Supervise, Control
  <2> QED
    BY <1>1, <2>1 DEF Deferred
<1>7. CASE Commit
  <2> DEFINE s       == Newest(valid)
             older   == (valid \ {s}) \cup {t \in pending : t = sub[s].supersedes}
             dropped == InvalidFences \cap OtherFences(s)
  <2>1. /\ ~done /\ UNCHANGED <<version, sub>> /\ valid' = {}
        /\ pending' = pending \ (older \cup dropped)
        /\ fences' = OtherFences(s) \ InvalidFences
        /\ deferred' = [t \in Subs |-> IF t \in Replaced(s) THEN {} ELSE deferred[t]]
    BY <1>7 DEF Commit, LockFree, Control
  <2>2. Deferred' = Deferred \ Replaced(s)
    BY <2>1 DEF Deferred
  <2>3. s \in valid /\ s \notin pending
    BY <1>7, CandidateMade DEF Commit, HeldInOnePlace
  <2>4. ASSUME NEW t \in pending', t \in fences
        PROVE  t \in fences' \/ sub[t].supersedes \notin Deferred'
    <3>1. t \in pending /\ t # s /\ t \notin Settled /\ t \notin dropped
      BY <2>1, <2>3, <2>4 DEF HeldInOnePlace
    <3>2. CASE sub[t].supersedes \notin Deferred'
      BY <3>2
    <3>3. CASE sub[t].supersedes \in Deferred'
      <4>1. t \in LiveFences /\ sub[t].supersedes \notin Replaced(s)
        BY <2>2, <2>4, <3>1, <3>3 DEF LiveFences
      <4>2. t \in OtherFences(s)
        BY <3>1, <4>1 DEF OtherFences
      <4> QED
        BY <2>1, <3>1, <4>2
    <3> QED
      BY <3>2, <3>3
  <2> HIDE DEF s, older, dropped
  <2> QED
    BY <1>1, <2>1, <2>2, <2>4
<1>8. ASSUME version' = version + 1, UNCHANGED <<sub, pending, valid>>, ~done
      PROVE  Asked
  <2>1. \A s \in pending \cup valid : sub[s].based <= version /\ sub[s].based # version + 1
    BY <1>0, <1>8 DEF TargetsAsked
  <2> QED
    BY <1>0, <1>8, <2>1 DEF TargetsAsked
<1>9. CASE \/ \E d \in Delays, end \in BOOLEAN : StepReturns(d, end)
           \/ \E d \in Delays : InvestigationReturns(d)
  BY <1>8, <1>9 DEF StepReturns, InvestigationReturns, Control
<1>10. ASSUME NEW p \in Parameters(submitted + 1), Submit(p)
       PROVE  Asked
  <2> DEFINE n == submitted + 1
  <2>1. /\ ~done /\ n \in Subs /\ UNCHANGED <<version, valid, deferred>>
        /\ Deferred' = Deferred
    BY <1>10 DEF Submit, Deferred
  <2>2. n \notin pending \cup valid
    BY DEF Places, Made, TypeOK
  <2>3. CASE UNCHANGED <<sub, pending, fences>>
    BY <1>1, <2>1, <2>3
  <2>4. CASE /\ p.based = version /\ sub' = [sub EXCEPT ![n] = p]
             /\ pending' = pending \cup {n}
             /\ fences' = IF p.supersedes \in Deferred THEN fences \cup {n} ELSE fences
    <3>1. p.supersedes < n
      BY <2>1, QueuedParameters
    <3>2. sub'[n] = p /\ \A s \in pending \cup valid : sub'[s] = sub[s]
      BY <1>0, <2>1, <2>2, <2>4 DEF TypeOK
    <3>3. /\ sub'[n].based <= version' /\ sub'[n].supersedes < n
          /\ sub'[n].supersedes \in Deferred' => n \in fences'
      BY <1>0, <2>1, <2>4, <3>1, <3>2
    <3> HIDE DEF n
    <3> QED
      BY <2>1, <2>4, <3>2, <3>3 DEF TargetsAsked
  <2> QED
    BY <1>10, <2>3, <2>4 DEF Submit, Refuse
<1>11. CASE \/ \E s \in Subs : Cancel(s)
            \/ Stop \/ UNCHANGED vars \/ ClockDue \/ InvestigationDue \/ LeaveLoop
            \/ DispatchEnds \/ InvestigationRaises
  <2>1. ~done /\ UNCHANGED <<version, sub, pending, valid, fences, deferred>>
    BY <1>11 DEF Cancel, Stop, vars, ClockDue, InvestigationDue, LeaveLoop,
       DispatchEnds, InvestigationRaises
  <2> QED
    BY <1>1, <2>1 DEF Deferred
<1>12. CASE \/ Close \/ ArbitrationFails \/ CommitFails \/ StepRaises \/ StepInvalid
            \/ ClockBoundaryFails \/ InvestigationBoundaryFails
  BY <1>12 DEF Close, ArbitrationFails, CommitFails, StepRaises, StepInvalid,
     ClockBoundaryFails, InvestigationBoundaryFails, BoundaryFails
<1> QED
  BY <1>3, <1>4, <1>5, <1>6, <1>7, <1>9, <1>10, <1>11, <1>12
  DEF Next, Actor, Callers, EnvironmentReturns

\* what the actor checks of a replacement still holds when it is dispatched
LEMMA TargetsKept == Spec => []TargetsAsked
<1>1. Init => TargetsAsked
  BY DEF Init, TargetsAsked
<1>2. /\ TypeOK /\ Control /\ Places /\ HeldInOnePlace /\ TargetsAsked /\ TypeOK'
      /\ [Next]_vars
      => TargetsAsked'
  BY TargetsStep
<1> QED
  BY <1>1, <1>2, TypeCorrect, EverySubmissionHeld, PTL DEF Spec

\* the commit settles what its submission replaces and empties its queue
LEMMA CommitReplaces ==
  ASSUME TypeOK, Control, Places, HeldInOnePlace, CandidatesCurrent, QueueOwned,
         TargetsAsked, Commit, NEW t, t = sub[Newest(valid)].supersedes, t # NoSub
  PROVE  t \in Settled' /\ \A i \in Calls : native'[<<t, i>>] = 0
<1> DEFINE s       == Newest(valid)
           older   == (valid \ {s}) \cup {u \in pending : u = sub[s].supersedes}
           dropped == InvalidFences \cap OtherFences(s)
           S       == Replaced(s) \cup older \cup dropped
           status  == [u \in Subs |-> IF u \in dropped THEN Verdict(u) ELSE "superseded"]
<1>1. /\ ~done /\ s \in valid /\ s \in Subs /\ s \in Made /\ active = NoSub
      /\ pc \in {"selecting", "investigationSelecting"}
  BY CandidateMade DEF Commit, LockFree, Control, Places
<1>2. t \in Subs /\ t < s /\ (t \in Deferred => s \in fences)
  BY <1>1 DEF TargetsAsked, CandidatesCurrent, TypeOK, Submission
<1>3. t \in Made
  BY <1>1, <1>2, ConstantsAssumption DEF Made, Subs, TypeOK, ConstantsAssumption
<1>4. s \notin Settled
  BY <1>1 DEF HeldInOnePlace
<1>5. /\ SettleAndDrain(S, {s}, status) /\ Unqueue(Replaced(s), {})
      /\ deferred' = [u \in Subs |-> IF u \in Replaced(s) THEN {} ELSE deferred[u]]
  BY DEF Commit
<1>6. \A u \in S \cap Subs : u \in Made /\ status[u] \in Statuses
  <2>1. \A u \in dropped : Verdict(u) \in Statuses /\ u \in Made
    BY <1>1, FencesOpen
  <2>2. Replaced(s) \cup older \subseteq Made
    BY DEF Replaced, LiveFences, Places
  <2> QED
    BY <2>1, <2>2 DEF Statuses
<1>7. Settled' = Settled \cup (S \cap Subs)
  <2>1. {s} \subseteq Made
    BY <1>1
  <2> HIDE DEF S, status, s
  <2> QED
    BY <1>5, <1>6, <2>1, SettleEffect
<1>8. Replaced(s) \subseteq Subs
  BY DEF Replaced, LiveFences, Deferred
<1>9. /\ \A c \in Subs \X Calls : native[c] = 0 => native'[c] = 0
      /\ \A c \in Subs \X Calls : c[1] \in Replaced(s) => native'[c] = 0
  BY <1>1, <1>5, <1>8, UnqueueOwned
<1>10. CASE t \in Deferred
  <2>1. t \in Replaced(s)
    BY <1>2, <1>4, <1>10 DEF Replaced, LiveFences
  <2> QED
    BY <1>2, <1>7, <1>9, <2>1
<1>11. CASE t \notin Deferred
  <2>1. \A i \in Calls : native[<<t, i>>] = 0
    <3> TAKE i \in Calls
    <3>1. <<t, i>> \in Subs \X Calls /\ deferred[t] = {}
      BY <1>2, <1>11 DEF Deferred
    <3> QED
      BY <1>1, <3>1 DEF QueueOwned
  <2>2. \A i \in Calls : native'[<<t, i>>] = 0
    BY <1>2, <1>9, <2>1
  <2>3. t \in Settled \/ t \in pending \/ t \in valid
    BY <1>1, <1>2, <1>3, <1>11 DEF HeldInOnePlace, Open, Settled, NoSub, Subs
  <2>4. t # s
    BY <1>1, <1>2 DEF Subs
  <2>5. t \in Settled'
    BY <1>2, <1>7, <2>3, <2>4
  <2> QED
    BY <2>2, <2>5
<1> QED
  BY <1>10, <1>11

\* while the action executes, nothing is queued and no receipt is taken back
LEMMA ReplacedStep ==
  ASSUME TypeOK, Control, Places, HeldInOnePlace, CandidatesCurrent, QueueOwned,
         TargetsAsked, ReplacedWorkIsGone, TypeOK', [Next]_vars
  PROVE  ReplacedWorkIsGone'
<1> SUFFICES ASSUME Executing', sub'[active'].supersedes # NoSub
             PROVE  /\ sub'[active'].supersedes \in Settled'
                    /\ \A i \in Calls : native'[<<sub'[active'].supersedes, i>>] = 0
  BY DEF ReplacedWorkIsGone
<1>1. CASE Commit
  <2>1. active' = Newest(valid) /\ sub' = sub
    BY <1>1 DEF Commit
  <2> QED
    BY <1>1, <2>1, CommitReplaces
<1>2. CASE /\ Executing /\ UNCHANGED <<native, active>> /\ sub'[active] = sub[active]
           /\ Settled \subseteq Settled'
  BY <1>2 DEF ReplacedWorkIsGone
<1>3. CASE Callers
  <2>1. Executing /\ active \in Made /\ UNCHANGED <<native, active>>
    <3>1. UNCHANGED <<native, active, pc, passed>>
      BY <1>3 DEF Callers, Cancel, Stop, Submit
    <3> QED
      BY <3>1 DEF Executing, Places
  <2>2. Settled \subseteq Settled'
    <3>1. Settled \subseteq Subs /\ \A s \in Settled : receipt'[s] = receipt[s]
      BY <1>3, ReceiptStep DEF Next, Settled
    <3> QED
      BY <3>1 DEF Settled
  <2>3. sub'[active] = sub[active]
    <3>1. active # submitted + 1 /\ active \in Subs
      BY <2>1, OpenIs DEF Made, TypeOK
    <3>2. ASSUME NEW p \in Parameters(submitted + 1), Submit(p)
          PROVE  sub'[active] = sub[active]
      BY <3>1, <3>2 DEF Submit, Refuse, TypeOK
    <3> QED
      BY <1>3, <3>2 DEF Callers, Cancel, Stop
  <2> QED
    BY <1>2, <2>1, <2>2, <2>3
<1>4. CASE Actor /\ ~Commit
  <2>1. pc' \notin {"investigating", "stepping"} \/ active' = NoSub \/ ~passed'
    BY <1>4 DEF Actor, EnvironmentReturns, ClockDue, InvestigationDue, LeaveLoop,
       DispatchEnds, Close, ClockBoundary, ClockBoundaryFails, InvestigationBoundary,
       InvestigationBoundaryFails, BoundaryFails, CandidateCanceled, CandidateRejected,
       Discard, ArbitrationFails, Override, Supervise, CommitFails, StepRaises,
       StepInvalid, StepReturns, InvestigationRaises, InvestigationReturns, LockFree
  <2>2. pc' # "investigating"
    BY <1>4 DEF Actor, EnvironmentReturns, ClockDue, InvestigationDue, LeaveLoop,
       DispatchEnds, Close, ClockBoundary, ClockBoundaryFails, InvestigationBoundary,
       InvestigationBoundaryFails, BoundaryFails, CandidateCanceled, CandidateRejected,
       Discard, ArbitrationFails, Override, Supervise, CommitFails, StepRaises,
       StepInvalid, StepReturns, InvestigationRaises, InvestigationReturns, LockFree
  <2> QED
    BY <2>1, <2>2 DEF Executing
<1>5. CASE UNCHANGED vars
  BY <1>2, <1>5 DEF vars, Executing, Settled
<1> QED
  BY <1>1, <1>3, <1>4, <1>5 DEF Next

(* While a replacement executes, what it replaces has its receipt and none  *)
(* of its delayed calls is left in the registry.                            *)
THEOREM ReplacedGone == Spec => []ReplacedWorkIsGone
<1>1. Init => ReplacedWorkIsGone
  BY DEF Init, ReplacedWorkIsGone, Executing
<1>2. /\ TypeOK /\ Control /\ Places /\ HeldInOnePlace /\ CandidatesCurrent /\ QueueOwned
      /\ TargetsAsked /\ ReplacedWorkIsGone /\ TypeOK' /\ [Next]_vars
      => ReplacedWorkIsGone'
  BY ReplacedStep
<1> QED
  BY <1>1, <1>2, TypeCorrect, EverySubmissionHeld, DispatchCurrent, QueueKept,
     TargetsKept, PTL DEF Spec

-----------------------------------------------------------------------------
(* The lifecycle of an action.                                             *)

\* an accepted action is in the environment's hands
InHand == active # NoSub /\ passed

\* what the actor moves around, and what it may newly defer or accept
Moves ==
  /\ Made' = Made
  /\ Settled \subseteq Settled'
  /\ pending' \cup valid' \subseteq pending \cup valid
  /\ active' \in valid \cup {active, NoSub}
  /\ \A s \in Deferred' : s \in Deferred \/ (InHand /\ s = active)
  /\ InHand /\ active' = active => passed'
  /\ InHand /\ InHand' => active' = active
  /\ ~InHand /\ InHand' => active' \in valid

\* the stages of the submissions, read off the places they are in
LEMMA StageOf ==
  /\ \A s \in Subs : stage[s] = IF s \notin Made THEN "unknown"
                                ELSE IF s \in Settled THEN "closed"
                                ELSE IF s = active /\ passed THEN "accepted"
                                ELSE IF s \in Deferred THEN "pending" ELSE "queued"
  /\ \A s \in Subs : stage'[s] = IF s \notin Made' THEN "unknown"
                                 ELSE IF s \in Settled' THEN "closed"
                                 ELSE IF s = active' /\ passed' THEN "accepted"
                                 ELSE IF s \in Deferred' THEN "pending" ELSE "queued"
  /\ DOMAIN stage = Subs /\ DOMAIN stage' = Subs
  /\ stage = [s \in Subs |-> stage[s]] /\ stage' = [s \in Subs |-> stage'[s]]
<1>1. /\ \A s \in Subs : s \in Settled <=> receipt[s] # "none"
      /\ \A s \in Subs : s \in Settled' <=> receipt'[s] # "none"
  BY DEF Settled
<1> QED
  BY <1>1 DEF stage

\* where a submission that is still open afterwards is found
LEMMA StageMove ==
  ASSUME TypeOK, TypeOK', Control, Places, HeldInOnePlace, Places', HeldInOnePlace', Moves,
         NEW s \in Subs
  PROVE  /\ s # active \/ ~passed => stage[s] # "accepted"
         /\ s # active' \/ ~passed' => stage'[s] # "accepted"
         /\ \/ stage'[s] = stage[s]
            \/ stage'[s] = "closed" /\ stage[s] \in {"queued", "pending"}
            \/ InHand /\ s = active
            \/ InHand' /\ s = active'
<1>1. CASE s \notin Made
  BY <1>1, StageOf DEF Moves
<1>2. CASE s \in Made /\ s \in Settled
  BY <1>2, StageOf DEF Moves
<1>3. CASE s \in Made /\ s \notin Settled /\ s \in Settled'
  BY <1>3, StageOf DEF Moves, InHand, Subs, NoSub
<1>4. CASE s \in Made /\ s \notin Settled'
  <2>1. s \in pending' \cup valid' \cup Deferred' \cup {active'}
    BY <1>4, OpenIs DEF HeldInOnePlace, Moves
  <2>2. s # NoSub
    BY DEF Subs, NoSub
  <2>3. s \in Deferred => s \in Deferred'
    BY <2>1, <2>2 DEF Moves, HeldInOnePlace
  <2>4. s \in Deferred' => s \in Deferred \/ (InHand /\ s = active)
    BY DEF Moves
  <2> QED
    BY <1>4, <2>2, <2>3, <2>4, StageOf DEF Moves, InHand
<1> QED
  BY <1>1, <1>2, <1>3, <1>4

\* closing some queued and pending actions, apart from one
LEMMA Closes ==
  ASSUME NEW a, NEW v,
         \A s \in Subs : \/ s = a /\ stage'[s] = v
                         \/ stage'[s] = stage[s]
                         \/ stage'[s] = "closed" /\ stage[s] \in {"queued", "pending"}
  PROVE  \E S \in SUBSET Subs :
           /\ a \notin S /\ Lifecycle!Closing(S)
           /\ a \in Subs /\ stage'[a] = v =>
                stage' = [b \in Subs |-> IF b = a THEN v
                                         ELSE IF b \in S THEN "closed" ELSE stage[b]]
           /\ a \notin Subs =>
                stage' = [b \in Subs |-> IF b \in S THEN "closed" ELSE stage[b]]
<1> DEFINE S == {s \in Subs \ {a} : stage'[s] = "closed" /\ stage[s] \in {"queued", "pending"}}
<1>1. S \in SUBSET Subs /\ a \notin S
  OBVIOUS
<1>2. Lifecycle!Closing(S)
  BY DEF Lifecycle!Closing, Lifecycle!In
<1>3. stage' = [s \in Subs |-> stage'[s]]
  BY StageOf
<1>4. ASSUME a \in Subs, stage'[a] = v
      PROVE  stage' = [b \in Subs |-> IF b = a THEN v
                                      ELSE IF b \in S THEN "closed" ELSE stage[b]]
  BY <1>3, <1>4
<1>5. ASSUME a \notin Subs
      PROVE  stage' = [b \in Subs |-> IF b \in S THEN "closed" ELSE stage[b]]
  BY <1>3, <1>5
<1> HIDE DEF S
<1> QED
  BY <1>1, <1>2, <1>4, <1>5

\* a step of the actor is a step of the lifecycle
LEMMA MovesImplement ==
  ASSUME TypeOK, TypeOK', Control, Places, HeldInOnePlace, Places', HeldInOnePlace',
         Moves, InHand => ~done, InHand' => ~done'
  PROVE  Lifecycle!Next
<1> USE DEF Lifecycle!Next
<1>1. NoSub \notin Subs /\ active \in Subs \cup {NoSub} /\ active' \in Subs \cup {NoSub}
  BY DEF Subs, NoSub, TypeOK
<1>2. CASE (InHand <=> InHand')
  <2>0. InHand => stage[active] = "accepted" /\ stage'[active] = "accepted"
    <3>1. ASSUME InHand
          PROVE  active \in Made /\ active \notin Settled
      BY <3>1 DEF InHand, Places, HeldInOnePlace
    <3>2. ASSUME InHand'
          PROVE  active' \in Made' /\ active' \notin Settled'
      BY <3>2 DEF InHand, Places, HeldInOnePlace
    <3> QED
      BY <1>1, <1>2, <3>1, <3>2, StageOf DEF InHand, Moves
  <2>1. \A s \in Subs : \/ stage'[s] = stage[s]
                        \/ stage'[s] = "closed" /\ stage[s] \in {"queued", "pending"}
    BY <1>2, <2>0, StageMove DEF Moves
  <2>2. PICK S \in SUBSET Subs :
          /\ Lifecycle!Closing(S)
          /\ stage' = [b \in Subs |-> IF b \in S THEN "closed" ELSE stage[b]]
    BY <1>1, <2>1, Closes
  <2> QED
    BY <2>2 DEF Lifecycle!Withdraw
<1>3. CASE InHand /\ ~InHand'
  <2>1. active \in Subs /\ active \in Made /\ active \notin Settled
    BY <1>1, <1>3 DEF InHand, Places, HeldInOnePlace
  <2>2. stage[active] = "accepted"
    BY <1>3, <2>1, StageOf DEF InHand
  <2>3. stage'[active] \in {"pending", "closed"}
    <3>1. active # active' \/ ~passed'
      BY <1>1, <1>3, <2>1 DEF InHand
    <3>2. CASE active \in Settled'
      BY <2>1, <3>2, StageOf DEF Moves
    <3>3. CASE active \notin Settled'
      <4>1. active \in pending' \cup valid' \cup Deferred' \cup {active'}
        BY <2>1, <3>3, OpenIs DEF HeldInOnePlace, Moves
      <4> QED
        BY <1>3, <2>1, <3>1, <3>3, <4>1, StageOf DEF Moves, HeldInOnePlace
    <3> QED
      BY <3>2, <3>3
  <2> PICK v \in {"pending", "closed"} : stage'[active] = v
    BY <2>3
  <2>4. \A s \in Subs : \/ s = active /\ stage'[s] = v
                        \/ stage'[s] = stage[s]
                        \/ stage'[s] = "closed" /\ stage[s] \in {"queued", "pending"}
    BY <1>3, StageMove
  <2>5. PICK S \in SUBSET Subs :
          /\ Lifecycle!Closing(S)
          /\ stage' = [b \in Subs |-> IF b = active THEN v
                                      ELSE IF b \in S THEN "closed" ELSE stage[b]]
    BY <2>1, <2>4, Closes
  <2>6. Lifecycle!Answer(active, v, S)
    BY <2>2, <2>5 DEF Lifecycle!Answer
  <2> QED
    BY <2>1, <2>6
<1>4. CASE ~InHand /\ InHand'
  <2>1. active' \in Subs /\ active' \in Made /\ active' \in valid
    BY <1>1, <1>4 DEF InHand, Places, Moves
  <2>2. active' \notin Settled' /\ active' \notin Settled /\ active' \in Made'
    BY <1>4, <2>1 DEF InHand, HeldInOnePlace, Places, Moves, Control
  <2>3. stage'[active'] = "accepted" /\ stage[active'] = "queued"
    BY <1>4, <2>1, <2>2, StageOf DEF InHand, HeldInOnePlace
  <2>4. Lifecycle!In("accepted") = {}
    BY <1>1, <1>4, StageMove DEF Lifecycle!In, InHand
  <2>5. \A s \in Subs : \/ s = active' /\ stage'[s] = "accepted"
                        \/ stage'[s] = stage[s]
                        \/ stage'[s] = "closed" /\ stage[s] \in {"queued", "pending"}
    BY <1>4, <2>3, StageMove
  <2>6. PICK S \in SUBSET Subs :
          /\ active' \notin S /\ Lifecycle!Closing(S)
          /\ stage' = [b \in Subs |-> IF b = active' THEN "accepted"
                                      ELSE IF b \in S THEN "closed" ELSE stage[b]]
    BY <2>1, <2>3, <2>5, Closes
  <2>7. Lifecycle!Accept(active', S)
    BY <2>3, <2>4, <2>6 DEF Lifecycle!Accept
  <2> QED
    BY <2>1, <2>7
<1> QED
  BY <1>2, <1>3, <1>4

\* every step of the actor, and of a caller that does not submit, moves them
LEMMA ActorMoves ==
  ASSUME TypeOK, TypeOK', Control, Places, HeldInOnePlace, Places', HeldInOnePlace',
         Actor \/ (\E s \in Subs : Cancel(s)) \/ Stop
  PROVE  Moves
<1>1. Made' = Made
  BY DEF Made, Actor, EnvironmentReturns, ClockDue, InvestigationDue, LeaveLoop,
     DispatchEnds, Close, ClockBoundary, ClockBoundaryFails, InvestigationBoundary,
     InvestigationBoundaryFails, BoundaryFails, CandidateCanceled, CandidateRejected,
     Discard, ArbitrationFails, Override, Supervise, Commit, CommitFails, StepRaises,
     StepInvalid, StepReturns, InvestigationRaises, InvestigationReturns, Cancel, Stop
<1>2. Settled \subseteq Settled'
  <2>1. Settled \subseteq Subs /\ \A s \in Settled : receipt'[s] = receipt[s]
    BY ReceiptStep DEF Next, Callers, Settled
  <2> QED
    BY <2>1 DEF Settled
<1> USE DEF Moves, InHand
<1>3. CASE UNCHANGED <<pending, valid, active, passed, deferred>>
  BY <1>1, <1>2, <1>3 DEF Deferred
<1>4. CASE \/ ClockDue \/ InvestigationDue \/ LeaveLoop \/ DispatchEnds
           \/ (\E s \in Subs : Cancel(s)) \/ Stop
  BY <1>3, <1>4 DEF ClockDue, InvestigationDue, LeaveLoop, DispatchEnds, Cancel, Stop
<1>5. ASSUME UNCHANGED <<active, passed>>, pending' \cup valid' \subseteq pending \cup valid,
             Deferred' \subseteq Deferred
      PROVE  Moves
  BY <1>1, <1>2, <1>5
<1>6. CASE Close \/ ClockBoundary \/ InvestigationBoundary
  <2>1. UNCHANGED <<active, passed>> /\ pending' \cup valid' \subseteq pending \cup valid
    BY <1>6 DEF Close, ClockBoundary, InvestigationBoundary, CurrentInvestigation, Places,
       LockFree
  <2>2. Deferred' \subseteq Deferred
    BY <1>6 DEF Close, ClockBoundary, InvestigationBoundary, BoundaryClears, Deferred
  <2> QED
    BY <1>5, <2>1, <2>2
<1>7. ASSUME NEW fenceTick, NEW next, BoundaryFails(fenceTick, next)
      PROVE  Moves
  <2>1. UNCHANGED <<active, passed>> /\ pending' \cup valid' \subseteq pending \cup valid
    BY <1>7 DEF BoundaryFails
  <2>2. Deferred' \subseteq Deferred
    BY <1>7 DEF BoundaryFails, Deferred
  <2> QED
    BY <1>5, <2>1, <2>2
<1>8. CASE CandidateCanceled \/ CandidateRejected
  <2>1. /\ UNCHANGED <<active, passed, deferred>>
        /\ pending' \cup valid' \subseteq pending \cup valid
    BY <1>8 DEF CandidateCanceled, CandidateRejected, Discard
  <2> QED
    BY <1>5, <2>1 DEF Deferred
<1>9. CASE ArbitrationFails
  <2>1. /\ UNCHANGED <<active, passed, deferred>>
        /\ pending' \cup valid' \subseteq pending \cup valid
    BY <1>9 DEF ArbitrationFails
  <2> QED
    BY <1>5, <2>1 DEF Deferred
<1>10. CASE Override \/ Supervise
  <2>1. /\ UNCHANGED deferred /\ pending' \cup valid' \subseteq pending \cup valid
        /\ active = NoSub /\ active' \in valid \cup {NoSub}
        /\ active' # NoSub => ~passed'
    BY <1>10, CandidateMade DEF Override, Supervise, Places
  <2> QED
    BY <1>1, <1>2, <2>1 DEF Deferred
<1>11. CASE Commit
  <2>1. /\ pending' \cup valid' \subseteq pending \cup valid
        /\ active = NoSub /\ active' \in valid
    BY <1>11, CandidateMade DEF Commit, Places, LockFree
  <2>2. Deferred' \subseteq Deferred
    BY <1>11 DEF Commit, Deferred
  <2> QED
    BY <1>1, <1>2, <2>1, <2>2
<1>12. CASE CommitFails
  <2>1. UNCHANGED <<active, passed>> /\ pending' \cup valid' \subseteq pending \cup valid
    BY <1>12 DEF CommitFails
  <2>2. Deferred' \subseteq Deferred
    BY <1>12 DEF CommitFails, Deferred
  <2> QED
    BY <1>5, <2>1, <2>2
<1>13. ASSUME UNCHANGED <<pending, valid>>, active' = NoSub,
              \A s \in Deferred' : s \in Deferred \/ (InHand /\ s = active)
       PROVE  Moves
  BY <1>1, <1>2, <1>13
<1>14. CASE StepRaises \/ StepInvalid \/ InvestigationRaises
  BY <1>13, <1>14 DEF StepRaises, StepInvalid, InvestigationRaises, Deferred
<1>15. ASSUME NEW d \in Delays, NEW end \in BOOLEAN, StepReturns(d, end)
       PROVE  Moves
  <2>1. UNCHANGED <<pending, valid>> /\ active' = NoSub
    BY <1>15 DEF StepReturns
  <2>2. \A s \in Deferred' : s \in Deferred \/ (InHand /\ s = active)
    BY <1>15 DEF StepReturns, Deferred, Left, Defers, Remaining
  <2> QED
    BY <1>13, <2>1, <2>2
<1>16. ASSUME NEW d \in Delays, InvestigationReturns(d)
       PROVE  Moves
  <2>1. UNCHANGED <<pending, valid>> /\ active' = NoSub /\ InHand
    BY <1>16 DEF InvestigationReturns, Places
  <2>2. \A s \in Deferred' : s \in Deferred \/ (InHand /\ s = active)
    BY <1>16, <2>1 DEF InvestigationReturns, Deferred, TypeOK
  <2> QED
    BY <1>13, <2>1, <2>2
<1> QED
  BY <1>4, <1>6, <1>7, <1>8, <1>9, <1>10, <1>11, <1>12, <1>14, <1>15, <1>16
  DEF Actor, EnvironmentReturns, ClockBoundaryFails, InvestigationBoundaryFails

\* a submission is queued or refused, and nothing else changes
LEMMA SubmitImplements ==
  ASSUME TypeOK, TypeOK', Places, Places', NEW p \in Parameters(submitted + 1), Submit(p)
  PROVE  Lifecycle!Next
<1> DEFINE n == submitted + 1
<1>1. /\ n \in Subs /\ n \notin Made /\ Made' = Made \cup {n}
      /\ UNCHANGED <<active, passed, deferred>> /\ Deferred' = Deferred
  BY DEF Submit, Made, TypeOK, Deferred
<1>2. \A s \in Subs \ {n} : receipt'[s] = receipt[s]
  BY DEF Submit, Refuse, SettleAndDrain, Receipts
<1>3. Settled' \ {n} = Settled \ {n}
  BY <1>2 DEF Settled
<1>4. n # active /\ n \notin Deferred
  BY <1>1 DEF Places, NoSub, Subs
<1>5. stage[n] = "unknown" /\ stage'[n] \in {"queued", "closed"}
  BY <1>1, <1>4, StageOf
<1>6. \A s \in Subs \ {n} : stage'[s] = stage[s]
  BY <1>1, <1>3, StageOf
<1> HIDE DEF n
<1>7. stage' = [stage EXCEPT ![n] = stage'[n]]
  <2>1. stage' = [s \in Subs |-> stage'[s]] /\ stage = [s \in Subs |-> stage[s]]
    BY StageOf
  <2> QED
    BY <1>1, <1>6, <2>1
<1>8. Lifecycle!Submit(n)
  BY <1>5, <1>7 DEF Lifecycle!Submit
<1> QED
  BY <1>1, <1>8 DEF Lifecycle!Next

(* The actor implements the lifecycle of ActionLifecycle: an action is      *)
(* queued once, accepted alone, waits only after it was accepted, and       *)
(* nothing is said of it after it was closed.                               *)
THEOREM LifecycleImplemented == Spec => ImplementsLifecycle
<1>1. Init => Lifecycle!Init
  BY DEF Init, Lifecycle!Init, stage, Made
<1>2. ASSUME TypeOK, TypeOK', Control, Control', Places, HeldInOnePlace, Places',
             HeldInOnePlace', [Next]_vars
      PROVE  [Lifecycle!Next]_stage
  <2>1. (InHand => ~done) /\ (InHand' => ~done')
    BY <1>2 DEF InHand, Places, Control
  <2>2. CASE Actor \/ (\E s \in Subs : Cancel(s)) \/ Stop
    BY <1>2, <2>1, <2>2, ActorMoves, MovesImplement
  <2>3. CASE \E p \in Parameters(submitted + 1) : Submit(p)
    BY <1>2, <2>3, SubmitImplements
  <2>4. CASE UNCHANGED vars
    BY <2>4 DEF vars, stage, Made, Deferred
  <2> QED
    BY <1>2, <2>2, <2>3, <2>4 DEF Next, Callers
<1> QED
  BY <1>1, <1>2, TypeCorrect, EverySubmissionHeld, PTL
  DEF Spec, ImplementsLifecycle, Lifecycle!Spec
-----------------------------------------------------------------------------
(* What a step may never do.                                               *)

\* neither a failed fence nor a replacement is among the ordinary receipts
Ordinary == Statuses \ {"superseded", "fence_failed"}

\* what the partition of a dispatch says of a submission is ordinary
LEMMA VerdictOrdinary ==
  ASSUME NEW s, Verdict(s) # "valid"
  PROVE  Verdict(s) \in Ordinary
BY DEF Verdict, Ordinary, Statuses

\* a receipt that is given is the status it was settled with
LEMMA GivenReceipt ==
  ASSUME NEW S, NEW status, receipt' = Receipts(S, status), NEW s \in Subs,
         receipt[s] = "none", \A t \in S \cap Subs : status[t] \in Ordinary
  PROVE  receipt'[s] \in Ordinary \cup {"none"}
BY DEF Receipts

\* only a commit supersedes, and only a failed fence fails closed
LEMMA OrdinaryReceipts ==
  ASSUME TypeOK, [Next]_vars, NEW s \in Subs, receipt[s] = "none",
         ~Commit, ~CommitFails, ~ClockBoundaryFails, ~InvestigationBoundaryFails
  PROVE  receipt'[s] \in Ordinary \cup {"none"}
<1> USE DEF Ordinary, Statuses, Each
<1>1. CASE receipt' = receipt
  BY <1>1
<1>2. CASE ClockBoundary
  <2> DEFINE S == {t \in pending : Verdict(t) # "valid"} \cup InvalidFences
                    \cup Expiring(tick + 1)
             status == [t \in Subs |-> IF t \in Expiring(tick + 1) THEN "expired"
                                                                   ELSE Verdict(t)]
  <2>1. receipt' = Receipts(S, status)
    BY <1>2 DEF ClockBoundary, Settle
  <2>2. \A t \in S \cap Subs : status[t] \in Ordinary
    BY VerdictOrdinary DEF InvalidFences
  <2> HIDE DEF S, status
  <2> QED
    BY <2>1, <2>2, GivenReceipt
<1>3. CASE InvestigationBoundary
  <2> DEFINE S == InvalidFences \cup Expiring(tick)
             status == [t \in Subs |-> IF t \in Expiring(tick) THEN "expired" ELSE Verdict(t)]
  <2>1. receipt' = Receipts(S, status)
    BY <1>3 DEF InvestigationBoundary, Settle
  <2>2. \A t \in S \cap Subs : status[t] \in Ordinary
    BY VerdictOrdinary DEF InvalidFences
  <2> HIDE DEF S, status
  <2> QED
    BY <2>1, <2>2, GivenReceipt
<1>4. CASE CandidateCanceled \/ CandidateRejected
  <2>1. PICK status \in {"canceled", "rejected"} :
          receipt' = Receipts({Newest(valid)}, Each(status))
    BY <1>4 DEF CandidateCanceled, CandidateRejected, Discard, Settle, SettleAndDrain
  <2> QED
    BY <2>1, GivenReceipt
<1>5. CASE Override \/ Supervise
  <2>1. receipt' = Receipts({}, receipt)
    BY <1>5 DEF Override, Supervise, SettleAndDrain
  <2> QED
    BY <2>1, GivenReceipt
<1>6. CASE Close \/ ArbitrationFails \/ StepRaises \/ StepInvalid \/ InvestigationRaises
  <2>1. ASSUME NEW S, NEW status \in {"failed", "rejected"},
               receipt' = Receipts(S, Each(status))
        PROVE  receipt'[s] \in Ordinary \cup {"none"}
    BY <2>1, GivenReceipt
  <2>2. CASE Close
    BY <2>1, <2>2 DEF Close, SettleAndDrain
  <2>3. CASE ArbitrationFails
    BY <2>1, <2>3 DEF ArbitrationFails, SettleAndDrain
  <2>4. CASE StepRaises \/ InvestigationRaises
    BY <2>1, <2>4 DEF StepRaises, InvestigationRaises, SettleAndDrain
  <2>5. CASE StepInvalid
    BY <2>1, <2>5 DEF StepInvalid, Settle
  <2> QED
    BY <1>6, <2>2, <2>3, <2>4, <2>5
<1>7. ASSUME NEW d \in Delays, NEW end \in BOOLEAN, StepReturns(d, end)
      PROVE  receipt'[s] \in Ordinary \cup {"none"}
  <2> DEFINE answered == IF Defers(d) THEN {} ELSE {active} \cap Subs
             S == Resolved \cup Unresolved(d, end) \cup answered
             status == [t \in Subs |-> IF t \in answered
                                       THEN IF passed THEN "executed" ELSE "rejected"
                                       ELSE IF t \in Unresolved(d, end) THEN "failed"
                                       ELSE IF Late(t) THEN "expired" ELSE "executed"]
  <2>1. receipt' = Receipts(S, status)
    BY <1>7 DEF StepReturns, SettleAndDrain
  <2>2. \A t \in S \cap Subs : status[t] \in Ordinary
    OBVIOUS
  <2> HIDE DEF S, status
  <2> QED
    BY <2>1, <2>2, GivenReceipt
<1>8. ASSUME NEW d \in Delays, InvestigationReturns(d)
      PROVE  receipt'[s] \in Ordinary \cup {"none"}
  <2>1. PICK S : receipt' = Receipts(S, Each("executed"))
    BY <1>8 DEF InvestigationReturns, SettleAndDrain
  <2> QED
    BY <2>1, GivenReceipt
<1>9. ASSUME NEW p \in Parameters(submitted + 1), Submit(p)
      PROVE  receipt'[s] \in Ordinary \cup {"none"}
  <2>1. \/ receipt' = receipt
        \/ \E status \in {"failed", "rejected", "expired", "stale"} :
             receipt' = Receipts({submitted + 1}, Each(status))
    BY <1>9 DEF Submit, Refuse, SettleAndDrain
  <2> QED
    BY <2>1, GivenReceipt
<1> QED
  BY <1>1, <1>2, <1>3, <1>4, <1>5, <1>6, <1>7, <1>8, <1>9 DEF Next, Actor, Callers,
    EnvironmentReturns, ClockDue, InvestigationDue, LeaveLoop, DispatchEnds, Cancel, Stop, vars

(* A failed fence closes the actor, and a closed actor stays closed.        *)
FailedClosed == (\E s \in Subs : receipt[s] = "fence_failed") => done

\* a closed actor stays closed
LEMMA DoneStays ==
  ASSUME Control, done, [Next]_vars
  PROVE  done'
BY DEF Control, Next, Actor, Callers, EnvironmentReturns, ClockDue, InvestigationDue,
   LeaveLoop, DispatchEnds, Close, ClockBoundary, ClockBoundaryFails, InvestigationBoundary,
   InvestigationBoundaryFails, BoundaryFails, CandidateCanceled, CandidateRejected,
   Discard, ArbitrationFails, Override, Supervise, Commit, CommitFails, StepRaises,
   StepInvalid, StepReturns, InvestigationRaises, InvestigationReturns, Submit, Cancel,
   Stop, vars

\* a fence that fails closes the actor
LEMMA FailedClosedStep ==
  ASSUME TypeOK, Control, FailedClosed, [Next]_vars
  PROVE  FailedClosed'
<1>1. SUFFICES ASSUME NEW s \in Subs, receipt'[s] = "fence_failed" PROVE done'
  BY DEF FailedClosed
<1>2. CASE done
  BY <1>2, DoneStays
<1>3. CASE receipt[s] # "none"
  <2>1. s \in Settled
    BY <1>3 DEF Settled
  <2>2. receipt'[s] = receipt[s]
    BY <2>1, ReceiptStep
  <2>3. done
    BY <1>1, <2>2 DEF FailedClosed
  <2> QED
    BY <1>2, <2>3
<1>4. CASE CommitFails \/ ClockBoundaryFails \/ InvestigationBoundaryFails
  BY <1>4 DEF CommitFails, ClockBoundaryFails, InvestigationBoundaryFails, BoundaryFails
<1>5. CASE Commit /\ receipt[s] = "none"
  <2> DEFINE n == Newest(valid)
             older == (valid \ {n}) \cup {t \in pending : t = sub[n].supersedes}
             dropped == InvalidFences \cap OtherFences(n)
             status == [t \in Subs |-> IF t \in dropped THEN Verdict(t) ELSE "superseded"]
  <2>1. PICK S : receipt' = Receipts(S, status)
    BY <1>5 DEF Commit, SettleAndDrain
  <2>2. \A t \in Subs : status[t] # "fence_failed"
    BY DEF Verdict
  <2> HIDE DEF status
  <2>3. receipt'[s] # "fence_failed"
    BY <1>5, <2>1, <2>2 DEF Receipts
  <2> QED
    BY <1>1, <2>3
<1>6. CASE receipt[s] = "none" /\ ~Commit /\ ~CommitFails /\ ~ClockBoundaryFails
           /\ ~InvestigationBoundaryFails
  <2>1. receipt'[s] \in Ordinary \cup {"none"}
    BY <1>6, OrdinaryReceipts
  <2> QED
    BY <1>1, <2>1 DEF Ordinary
<1> QED
  BY <1>3, <1>4, <1>5, <1>6

(* Fail closed: once the actor is done, or an execution fence has failed,   *)
(* no call of the environment begins.                                       *)
THEOREM FailsClosed == Spec => NothingStartsWhenDone
<1>1. Init => FailedClosed
  BY DEF Init, FailedClosed
<1>2. TypeOK /\ Control /\ FailedClosed /\ [Next]_vars => FailedClosed'
  BY FailedClosedStep
<1>3. ASSUME Control, FailedClosed, [Next]_vars
      PROVE  [done \/ (\E s \in Subs : receipt[s] = "fence_failed") =>
                (InEnvironment' => InEnvironment)]_vars
  <2>1. SUFFICES ASSUME done, InEnvironment', ~InEnvironment PROVE FALSE
    BY <1>3 DEF FailedClosed
  <2>2. pc \notin {"selecting", "investigationSelecting"}
    BY <1>3, <2>1 DEF Control
  <2> QED
    BY <1>3, <2>1, <2>2 DEF InEnvironment, Next, Actor, Callers, EnvironmentReturns, ClockDue,
       InvestigationDue, LeaveLoop, DispatchEnds, Close, ClockBoundary, ClockBoundaryFails,
       InvestigationBoundary, InvestigationBoundaryFails, BoundaryFails, CandidateCanceled,
       CandidateRejected, Discard, ArbitrationFails, Override, Supervise, Commit, CommitFails,
       StepRaises, StepInvalid, StepReturns, InvestigationRaises, InvestigationReturns,
       Submit, Cancel, Stop, LockFree, vars
<1> QED
  BY <1>1, <1>2, <1>3, TypeCorrect, PTL DEF Spec, NothingStartsWhenDone

(* Delayed work is superseded only in the step that accepts its             *)
(* replacement: a rejected, stale or unselected replacement leaves it alone.*)
THEOREM FencesOfCommits == Spec => FenceBelongsToCommit
<1>1. ASSUME TypeOK, Control, Places, HeldInOnePlace, CandidatesCurrent, VersionsSpent,
             [Next]_vars
      PROVE  [\A s \in Deferred :
                receipt[s] = "none" /\ receipt'[s] = "superseded" =>
                  /\ active' \in accepted' \ accepted
                  /\ sub[active'].supersedes = s]_vars
  <2>1. SUFFICES ASSUME NEW s \in Deferred, receipt[s] = "none", receipt'[s] = "superseded"
                 PROVE  /\ active' \in accepted' \ accepted
                        /\ sub[active'].supersedes = s
    BY <1>1
  <2>2. s \in Subs
    BY DEF Deferred
  <2>3. Commit
    <3>1. \A t \in Subs : Verdict(t) # "superseded"
      BY DEF Verdict
    <3>2. ASSUME NEW S, NEW status, receipt' = Receipts(S, status)
          PROVE  s \in S /\ status[s] = "superseded"
      BY <2>1, <2>2, <3>2 DEF Receipts
    <3>3. ~CommitFails
      <4> SUFFICES ASSUME CommitFails PROVE FALSE
        OBVIOUS
      <4> DEFINE dropped == {t \in InvalidFences : t < Newest(valid)}
                 status == [t \in Subs |-> IF t \in dropped THEN Verdict(t)
                                                            ELSE "fence_failed"]
      <4>1. PICK S : receipt' = Receipts(S, status)
        BY DEF CommitFails, SettleAndDrain
      <4>2. status[s] # "superseded"
        BY <2>2, <3>1
      <4> HIDE DEF status
      <4> QED
        BY <3>2, <4>1, <4>2
    <3>4. ASSUME NEW fenceTick, NEW next, BoundaryFails(fenceTick, next) PROVE FALSE
      <4>1. PICK refused \in SUBSET QueuedCalls(Expiring(fenceTick)) :
              LET E == Fenced(Expiring(fenceTick), refused)
                  F == Unfenceable(Expiring(fenceTick), refused)
              IN  receipt' = Receipts(E \cup InvalidFences,
                    [t \in Subs |-> IF t \in F THEN "fence_failed"
                                    ELSE IF t \in E THEN "expired" ELSE Verdict(t)])
        BY <3>4 DEF BoundaryFails, Settle
      <4> DEFINE E == Fenced(Expiring(fenceTick), refused)
                 F == Unfenceable(Expiring(fenceTick), refused)
                 status == [t \in Subs |-> IF t \in F THEN "fence_failed"
                                           ELSE IF t \in E THEN "expired" ELSE Verdict(t)]
      <4>2. status[s] # "superseded"
        BY <2>2, <3>1
      <4>3. receipt' = Receipts(E \cup InvalidFences, status)
        BY <4>1
      <4> HIDE DEF E, status
      <4> QED
        BY <3>2, <4>2, <4>3
    <3>5. ~ClockBoundaryFails /\ ~InvestigationBoundaryFails
      BY <3>4 DEF ClockBoundaryFails, InvestigationBoundaryFails
    <3> QED
      BY <1>1, <2>1, <2>2, <3>3, <3>5, OrdinaryReceipts DEF Ordinary
  <2> DEFINE n == Newest(valid)
             older == (valid \ {n}) \cup {t \in pending : t = sub[n].supersedes}
             dropped == InvalidFences \cap OtherFences(n)
             status == [t \in Subs |-> IF t \in dropped THEN Verdict(t) ELSE "superseded"]
  <2>4. /\ active' = n /\ accepted' = accepted \cup {n}
        /\ receipt' = Receipts(Replaced(n) \cup older \cup dropped, status)
    BY <2>3 DEF Commit, SettleAndDrain
  <2>5. /\ n \in valid /\ n \in Subs /\ ~done /\ active = NoSub /\ ~Executing
    BY <1>1, <2>3, CandidateMade DEF Commit, LockFree, Control, Places, Executing
  <2>6. n \notin accepted
    <3>1. sub[n].based = version /\ version \in Nat
      BY <1>1, <2>5 DEF CandidatesCurrent, TypeOK
    <3>2. receipt[n] = "none"
      BY <1>1, <2>5 DEF HeldInOnePlace, Settled
    <3> HIDE DEF n
    <3> QED
      BY <1>1, <2>5, <3>1, <3>2 DEF VersionsSpent
  <2>7. s \in Replaced(n)
    <3>1. s \notin older
      BY <1>1, <2>1 DEF HeldInOnePlace
    <3>2. s \notin dropped
      <4>1. \A t \in Subs : Verdict(t) # "superseded"
        BY DEF Verdict
      <4> SUFFICES ASSUME s \in dropped PROVE FALSE
        OBVIOUS
      <4>2. status[s] = Verdict(s)
        BY <2>2
      <4> HIDE DEF status, dropped, older, n
      <4> QED
        BY <2>1, <2>2, <2>4, <4>1, <4>2 DEF Receipts
    <3> HIDE DEF status, dropped, older, n
    <3> QED
      BY <2>1, <2>2, <2>4, <3>1, <3>2 DEF Receipts
  <2> QED
    BY <2>4, <2>6, <2>7 DEF Replaced
<1> QED
  BY <1>1, TypeCorrect, EverySubmissionHeld, DispatchCurrent, VersionWonOnce, PTL
  DEF Spec, FenceBelongsToCommit
=============================================================================
