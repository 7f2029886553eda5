------------------ MODULE AgentDeliveryCoordinator_proofs ------------------
(***************************************************************************)
(* The types, the safety invariants and the action properties of the       *)
(* coordinator, and that it implements the lifecycle of snapshots, proved  *)
(* for every value of its constants.                                       *)
(*                                                                         *)
(* None of the invariants is inductive alone: that a captured day stays    *)
(* dirty needs that no delivery is active, that a failing Copy leaves no   *)
(* intent needs that there was one at most, and so on.  Their conjunction  *)
(* with the types is inductive.                                            *)
(***************************************************************************)
EXTENDS CoordinatorLifecycle, WellFoundedInduction, FiniteSetTheorems, TLAPS

(***************************************************************************)
(* Types.  TypeOK is inductive once a generation in progress is known to   *)
(* have a positive number, the number its Copy intents are recorded under. *)
(***************************************************************************)
GenerationStarted == gate.phase = "snapshot" => gate.generation \in 1..MaxGeneration
TypeInv == TypeOK /\ GenerationStarted

USE ConstantsAssumption DEF ConstantsAssumption

(* The recovered gate and its captured days have the stored shapes. *)
LEMMA RecoveredType ==
  ASSUME TypeInv
  PROVE  /\ RecoveredGate \in Gate
         /\ RecoveredDays \in SUBSET Day
         /\ RecoveredGate.phase = "snapshot" => RecoveredGate = gate
BY DEF TypeInv, TypeOK, RecoveredGate, RecoveredDays, OpenGate, Gate, DrainLapsed

(* Pruning keeps sets of days sets of days, and never adds a day. *)
LEMMA PruneType ==
  ASSUME TypeInv, NEW D \in SUBSET Day, NEW I \in SUBSET Day, NEW C,
         Prune(D, I, C)
  PROVE  /\ dirty' \in SUBSET Day /\ dirty' \subseteq D
         /\ incomplete' \in SUBSET Day /\ incomplete' \subseteq I
         /\ links' \in SUBSET Link /\ links' \subseteq links
BY DEF TypeInv, TypeOK, Prune, Pruned

LEMMA HousekeepType ==
  ASSUME TypeInv, Housekeep
  PROVE  /\ gate' \in Gate
         /\ snapshotDays' \in SUBSET Day
         /\ dirty' \in SUBSET Day /\ incomplete' \in SUBSET Day
         /\ links' \in SUBSET Link
         /\ gate'.phase = "snapshot" => gate' = gate
<1>1. dirty \in SUBSET Day /\ incomplete \in SUBSET Day
  BY DEF TypeInv, TypeOK
<1> QED BY <1>1, RecoveredType, PruneType DEF Housekeep

LEMMA ScheduleType ==
  ASSUME TypeInv, ScheduleSnapshotEffect
  PROVE  alarm' \in Int /\ wake' \in Int /\ wakeups' \in BOOLEAN
BY DEF TypeInv, TypeOK, ScheduleSnapshotEffect, NoAlarm

LEMMA ContinuationType ==
  ASSUME TypeInv, check' \in Check, ContinuationEffect
  PROVE  alarm' \in Int /\ wake' \in Int /\ wakeups' \in BOOLEAN
<1>1. wake \in Int /\ wakeups \in BOOLEAN
  BY DEF TypeInv, TypeOK
<1>2. check'.wait \in 0..FirstCheck + CheckDelay
  BY DEF Check
<1>3. wake' \in Int
  BY <1>1, <1>2 DEF ContinuationEffect
<1>4. alarm' \in Int
  BY <1>3 DEF ContinuationEffect, NoAlarm, Larger
<1> QED BY <1>1, <1>3, <1>4 DEF ContinuationEffect

LEMMA DeleteReservationType ==
  ASSUME TypeInv, NEW d \in Deliveries, DeleteReservation(d)
  PROVE  /\ lastSequence' \in 1..MaxSequence
         /\ sequence' \in [Deliveries -> 0..MaxSequence]
         /\ days' \in [Deliveries -> SUBSET Day]
         /\ ttl' \in [Deliveries -> 0..DeliveryRetention]
BY DEF TypeInv, TypeOK, DeleteReservation

LEMMA CompleteType ==
  ASSUME TypeInv, NEW d \in Deliveries, CompleteEffect(d)
  PROVE  /\ lastSequence' \in 1..MaxSequence
         /\ sequence' \in [Deliveries -> 0..MaxSequence]
         /\ days' \in [Deliveries -> SUBSET Day]
         /\ ttl' \in [Deliveries -> 0..DeliveryRetention]
         /\ dirty' \in SUBSET Day /\ incomplete' \in SUBSET Day
         /\ links' \in SUBSET Link
<1>1. dirty \cup days[d] \in SUBSET Day /\ incomplete \in SUBSET Day
  BY DEF TypeInv, TypeOK
<1> QED BY <1>1, PruneType, DeleteReservationType DEF CompleteEffect

LEMMA DeliveryStepType ==
  ASSUME TypeInv, NEW d \in Deliveries
  PROVE  /\ \A ds \in SUBSET Day, age \in 1..DeliveryRetention :
              Reserve(d, ds, age) => TypeInv'
         /\ \A ds \in SUBSET Day, ls \in SUBSET Link :
              PlanWrite(d, ds, ls) => TypeInv'
         /\ \A ds \in SUBSET Day, hasReservation \in BOOLEAN :
              FinishDelivery(d, ds, hasReservation) => TypeInv'
         /\ Complete(d) => TypeInv'
         /\ Expire(d) => TypeInv'
<1> USE DEF vars, deliveryVars, dayVars, captureVars, copyVars, scheduleVars
<1>1. ASSUME NEW ds \in SUBSET Day, NEW age \in 1..DeliveryRetention,
             Reserve(d, ds, age)
      PROVE  TypeInv'
  BY <1>1, HousekeepType DEF Reserve, TypeInv, TypeOK, GenerationStarted
<1>2. ASSUME NEW ds \in SUBSET Day, NEW ls \in SUBSET Link, PlanWrite(d, ds, ls)
      PROVE  TypeInv'
  BY <1>2 DEF PlanWrite, TypeInv, TypeOK, GenerationStarted
<1>3. ASSUME NEW ds \in SUBSET Day, NEW hasReservation \in BOOLEAN,
             FinishDelivery(d, ds, hasReservation)
      PROVE  TypeInv'
  BY <1>3, CompleteType, ScheduleType
     DEF FinishDelivery, TypeInv, TypeOK, GenerationStarted
<1>4. ASSUME Complete(d)  PROVE  TypeInv'
  BY <1>4, CompleteType DEF Complete, TypeInv, TypeOK, GenerationStarted
<1>5. ASSUME Expire(d)  PROVE  TypeInv'
  <2>1. dirty \cup days[d] \in SUBSET Day /\ incomplete \cup days[d] \in SUBSET Day
    BY DEF TypeInv, TypeOK
  <2> QED BY <1>5, <2>1, PruneType, DeleteReservationType
          DEF Expire, TypeInv, TypeOK, GenerationStarted
<1> QED BY <1>1, <1>2, <1>3, <1>4, <1>5

(* Snapshot steps *)

LEMMA CopyKeyType ==
  ASSUME TypeInv, NEW copy \in Nat
  PROVE  /\ CopyKey(copy).target \in 0..TargetCount - 1
         /\ CopyKey(copy).attempt \in Nat
<1>1. gate.generation \in Nat
  BY DEF TypeInv, TypeOK, Gate
<1>2. copy % TargetCount \in 0..TargetCount - 1 /\ copy \div TargetCount \in Nat
  OBVIOUS
<1>3. gate.generation * AttemptMultiplier \in Nat
  BY <1>1
<1>4. gate.generation * AttemptMultiplier + copy \div TargetCount \in Nat
  BY <1>2, <1>3
<1> QED BY <1>1, <1>2, <1>4 DEF CopyKey

LEMMA AbandonType ==
  ASSUME TypeInv, AbandonGeneration
  PROVE  /\ snapshotDays' \in SUBSET Day
         /\ progress' \in Progress
         /\ gate' \in Gate /\ gate'.phase = "open"
         /\ dirty' \in SUBSET Day /\ incomplete' \in SUBSET Day
         /\ links' \in SUBSET Link
         /\ check' \in Check
<1>1. dirty \in SUBSET Day /\ incomplete \in SUBSET Day
  BY DEF TypeInv, TypeOK
<1>2. NoProgress \in Progress /\ OpenGate \in Gate /\ NoCheck \in Check
  BY DEF NoProgress, Progress, OpenGate, Gate, NoCheck, NewCheck, Check
<1>3. OpenGate.phase = "open"
  BY DEF OpenGate
<1> QED BY <1>1, <1>2, <1>3, PruneType DEF AbandonGeneration

LEMMA ObservedType ==
  ASSUME NEW c \in Check, NEW recovery \in BOOLEAN
  PROVE  Observed(c, recovery) \in Check
<1>1. CASE c.blocked # "no" \/ c.wait > 0
  BY <1>1 DEF Observed
<1>2. CASE ~(c.blocked # "no" \/ c.wait > 0) /\ recovery
  <2>1. c.recovery \in 0..MaxRecoveryChecks /\ c.status \in 0..MaxStatusChecks
    BY DEF Check
  <2>2. ~BudgetSpent(c.recovery, MaxRecoveryChecks)
          => c.recovery + 1 \in 0..MaxRecoveryChecks
    BY <2>1 DEF BudgetSpent
  <2>3. c.status + 0 \in 0..MaxStatusChecks
    BY <2>1
  <2>4. CheckDelay \in 0..FirstCheck + CheckDelay
    OBVIOUS
  <2> QED BY <1>2, <2>1, <2>2, <2>3, <2>4 DEF Observed, Check
<1>3. CASE ~(c.blocked # "no" \/ c.wait > 0) /\ ~recovery
  <2>1. c.recovery \in 0..MaxRecoveryChecks /\ c.status \in 0..MaxStatusChecks
    BY DEF Check
  <2>2. ~BudgetSpent(c.status, MaxStatusChecks)
          => c.status + 1 \in 0..MaxStatusChecks
    BY <2>1 DEF BudgetSpent
  <2>3. c.recovery + 0 \in 0..MaxRecoveryChecks
    BY <2>1
  <2>4. CheckDelay \in 0..FirstCheck + CheckDelay
    OBVIOUS
  <2> QED BY <1>3, <2>1, <2>2, <2>3, <2>4 DEF Observed, Check
<1> QED BY <1>1, <1>2, <1>3

(* A check starts with budgets unspent. *)
LEMMA NewCheckType ==
  ASSUME NEW g \in 0..MaxGeneration, NEW copy \in Nat,
         NEW wait \in 0..FirstCheck + CheckDelay
  PROVE  NewCheck(g, copy, wait) \in Check
BY DEF NewCheck, Check

LEMMA LeaseType ==
  ASSUME TypeInv, NEW lease \in 0..SnapshotLease, SetLease(lease)
  PROVE  gate' \in Gate /\ gate'.phase = gate.phase
                        /\ gate'.generation = gate.generation
BY DEF TypeInv, TypeOK, SetLease, Gate

LEMMA AttachedType ==
  ASSUME TypeInv, NEW i \in intents, NEW job \in Jobs
  PROVE  Attached(i, job) \in SUBSET Intent
BY DEF TypeInv, TypeOK, Attached, Intent

LEMMA BeginSnapshotType ==
  ASSUME TypeInv, NEW c \in Claims, BeginSnapshot(c)
  PROVE  TypeInv'
<1> USE DEF deliveryVars, dayVars, captureVars, copyVars, scheduleVars
<1>1. dirty \in SUBSET Day /\ incomplete \in SUBSET Day
  BY DEF TypeInv, TypeOK
<1>2. dirty' \in SUBSET Day /\ incomplete' \in SUBSET Day /\ links' \in SUBSET Link
  BY <1>1, PruneType DEF BeginSnapshot
<1>3. snapshotDays' \in SUBSET Day
  <2>1. PICK selected \in SUBSET CompleteComponents(dirty', incomplete', links') :
          snapshotDays' = UNION selected
    BY DEF BeginSnapshot
  <2>2. \A s \in selected : s \subseteq dirty'
    BY <2>1 DEF CompleteComponents, Component
  <2> QED BY <1>2, <2>1, <2>2
<1>4. lastGeneration' \in 1..MaxGeneration
  BY DEF BeginSnapshot, TypeInv, TypeOK
<1>5. gate' \in Gate /\ gate'.generation = lastGeneration'
  BY <1>4 DEF BeginSnapshot, Gate
<1>6. progress' \in Progress
  BY DEF BeginSnapshot, NoProgress, Progress
<1> QED BY <1>2, <1>3, <1>4, <1>5, <1>6
        DEF BeginSnapshot, TypeInv, TypeOK, GenerationStarted

LEMMA ClaimStepType ==
  ASSUME TypeInv, NEW c \in Claims
  PROVE  /\ ClaimSnapshot(c) => TypeInv'
         /\ RenewSnapshotClaim(c) => TypeInv'
         /\ ReleaseSnapshotClaim(c) => TypeInv'
         /\ PrepareManifest(c) => TypeInv'
         /\ FinishSnapshot(c) => TypeInv'
         /\ \A recorded \in BOOLEAN : FailSnapshot(c, recorded) => TypeInv'
         /\ \A recovery \in BOOLEAN : PrepareCheck(c, recovery) => TypeInv'
         /\ RequireRecovery(c) => TypeInv'
<1> USE DEF deliveryVars, dayVars, captureVars, copyVars, scheduleVars
<1>1. 0 \in 0..SnapshotLease /\ SnapshotLease \in 0..SnapshotLease
  OBVIOUS
<1>2. [progress EXCEPT !.claim = c] \in Progress
        /\ [progress EXCEPT !.manifest = TRUE] \in Progress
  BY DEF TypeInv, TypeOK, Progress
<1>3. ASSUME ClaimSnapshot(c)  PROVE  TypeInv'
  BY <1>1, <1>2, <1>3, LeaseType
     DEF ClaimSnapshot, TypeInv, TypeOK, GenerationStarted
<1>4. ASSUME RenewSnapshotClaim(c)  PROVE  TypeInv'
  BY <1>1, <1>4, LeaseType DEF RenewSnapshotClaim, TypeInv, TypeOK, GenerationStarted
<1>5. ASSUME ReleaseSnapshotClaim(c)  PROVE  TypeInv'
  BY <1>1, <1>5, LeaseType
     DEF ReleaseSnapshotClaim, TypeInv, TypeOK, GenerationStarted
<1>6. ASSUME PrepareManifest(c)  PROVE  TypeInv'
  BY <1>2, <1>6 DEF PrepareManifest, TypeInv, TypeOK, GenerationStarted
<1>7. ASSUME FinishSnapshot(c)  PROVE  TypeInv'
  <2>1. dirty' \in SUBSET Day /\ incomplete' \in SUBSET Day /\ links' \in SUBSET Link
    BY <1>7 DEF FinishSnapshot, Pruned, TypeInv, TypeOK
  <2>2. progress' \in Progress /\ gate' \in Gate /\ gate'.phase = "open"
          /\ check' \in Check
    BY <1>7 DEF FinishSnapshot, NoProgress, Progress, OpenGate, Gate, NoCheck,
                NewCheck, Check
  <2> QED BY <1>7, <2>1, <2>2 DEF FinishSnapshot, TypeInv, TypeOK, GenerationStarted
<1>8. ASSUME NEW recorded \in BOOLEAN, FailSnapshot(c, recorded)  PROVE  TypeInv'
  <2>1. gate.generation \in 0..MaxGeneration
    BY DEF TypeInv, TypeOK, Gate
  <2> QED BY <1>8, <2>1, AbandonType DEF FailSnapshot, TypeInv, TypeOK, GenerationStarted
<1>9. ASSUME NEW recovery \in BOOLEAN, PrepareCheck(c, recovery)  PROVE  TypeInv'
  <2>1. gate.generation \in 0..MaxGeneration /\ progress.nextCopy \in Nat
    BY DEF TypeInv, TypeOK, Gate, Progress
  <2>2. CurrentCheck \in Check
    BY <2>1, NewCheckType DEF CurrentCheck, TypeInv, TypeOK
  <2>3. check' \in Check
    BY <1>9, <2>2, ObservedType DEF PrepareCheck
  <2> QED BY <1>9, <2>3, ContinuationType
          DEF PrepareCheck, TypeInv, TypeOK, GenerationStarted
<1>10. ASSUME RequireRecovery(c)  PROVE  TypeInv'
  <2>1. check' \in Check
    BY <1>10 DEF RequireRecovery, TypeInv, TypeOK, Check
  <2> QED BY <1>10, <2>1 DEF RequireRecovery, TypeInv, TypeOK, GenerationStarted
<1> QED BY <1>3, <1>4, <1>5, <1>6, <1>7, <1>8, <1>9, <1>10

LEMMA CopyStepType ==
  ASSUME TypeInv, NEW c \in Claims
  PROVE  /\ RecordCopyIntent(c) => TypeInv'
         /\ RejectCopyIntent(c) => TypeInv'
         /\ \A job \in Jobs : /\ AttachCopyJob(c, job) => TypeInv'
                              /\ SettleCopyDone(c, job) => TypeInv'
                              /\ SettleCopyError(c, job) => TypeInv'
<1> USE DEF deliveryVars, dayVars, captureVars, copyVars, scheduleVars
<1>1. gate.generation \in 0..MaxGeneration /\ progress.nextCopy \in Nat
  BY DEF TypeInv, TypeOK, Gate, Progress
<1>2. intents \in SUBSET Intent
  BY DEF TypeInv, TypeOK
<1>3. ASSUME RecordCopyIntent(c)  PROVE  TypeInv'
  <2>1. gate.generation \in 1..MaxGeneration
    BY <1>3 DEF RecordCopyIntent, HoldsCursor, HoldsClaim, TypeInv, GenerationStarted
  <2>2. intents' \in SUBSET Intent
    BY <1>1, <1>2, <1>3, <2>1, CopyKeyType DEF RecordCopyIntent, Intent
  <2>3. FirstCheck \in 0..FirstCheck + CheckDelay
    OBVIOUS
  <2>4. check' \in Check
    BY <1>1, <1>3, <2>3, NewCheckType DEF RecordCopyIntent
  <2> QED BY <1>3, <2>2, <2>4 DEF RecordCopyIntent, TypeInv, TypeOK, GenerationStarted
<1>4. ASSUME RejectCopyIntent(c)  PROVE  TypeInv'
  BY <1>1, <1>2, <1>4, AbandonType
     DEF RejectCopyIntent, FailGeneration, TypeInv, TypeOK, GenerationStarted
<1>5. ASSUME NEW job \in Jobs, AttachCopyJob(c, job)  PROVE  TypeInv'
  <2>1. intents' \in SUBSET Intent
    BY <1>5, AttachedType DEF AttachCopyJob
  <2>2. check' \in Check
    BY <1>5 DEF AttachCopyJob, TypeInv, TypeOK, Check
  <2> QED BY <1>5, <2>1, <2>2 DEF AttachCopyJob, TypeInv, TypeOK, GenerationStarted
<1>6. ASSUME NEW job \in Jobs, SettleCopyDone(c, job)  PROVE  TypeInv'
  <2>1. intents' \in SUBSET Intent
    BY <1>2, <1>6 DEF SettleCopyDone
  <2>2. progress' \in Progress
    BY <1>6 DEF SettleCopyDone, TypeInv, TypeOK, Progress
  <2>3. check' \in Check
    BY <1>6 DEF SettleCopyDone, NoCheck, NewCheck, Check
  <2> QED BY <1>6, <2>1, <2>2, <2>3 DEF SettleCopyDone, TypeInv, TypeOK, GenerationStarted
<1>7. ASSUME NEW job \in Jobs, SettleCopyError(c, job)  PROVE  TypeInv'
  BY <1>1, <1>2, <1>7, AbandonType
     DEF SettleCopyError, FailGeneration, TypeInv, TypeOK, GenerationStarted
<1> QED BY <1>3, <1>4, <1>5, <1>6, <1>7

LEMMA OperatorStepType ==
  ASSUME TypeInv
  PROVE  /\ \A ds \in SUBSET Day : ResolveIncompleteDays(ds) => TypeInv'
         /\ AbandonUnstartedCopy => TypeInv'
         /\ ResumeFailed => TypeInv'
         /\ ResumeBlocked \/ ResumeInterrupted => TypeInv'
<1> USE DEF deliveryVars, dayVars, captureVars, copyVars, scheduleVars
<1>1. ASSUME NEW ds \in SUBSET Day, ResolveIncompleteDays(ds)  PROVE  TypeInv'
  BY <1>1 DEF ResolveIncompleteDays, TypeInv, TypeOK, GenerationStarted
<1>2. ASSUME AbandonUnstartedCopy  PROVE  TypeInv'
  <2>1. gate.generation \in 0..MaxGeneration
    BY DEF TypeInv, TypeOK, Gate
  <2>2. AbandonGeneration /\ failure' = gate.generation /\ intents' = {}
    BY <1>2 DEF AbandonUnstartedCopy, FailGeneration
  <2>3. alarm' \in Int
    <3>1. alarm' = NoAlarm
      BY <1>2 DEF AbandonUnstartedCopy
    <3> QED BY <3>1 DEF NoAlarm
  <2> QED BY <1>2, <2>1, <2>2, <2>3, AbandonType
          DEF AbandonUnstartedCopy, FailGeneration, TypeInv, TypeOK,
              GenerationStarted
<1>3. ASSUME ResumeFailed  PROVE  TypeInv'
  <2>1. check' \in Check
    BY <1>3 DEF ResumeFailed, TypeInv, TypeOK
  <2> QED BY <1>3, <2>1, ContinuationType
          DEF ResumeFailed, TypeInv, TypeOK, GenerationStarted
<1>4. ASSUME ResumeBlocked \/ ResumeInterrupted  PROVE  TypeInv'
  <2>1. ResumeChecks /\ (ContinuationEffect \/ UNCHANGED scheduleVars)
    BY <1>4 DEF ResumeBlocked, ResumeInterrupted
  <2>2. check' \in Check
    <3>1. /\ 0 \in 0..FirstCheck + CheckDelay
          /\ 0 \in 0..MaxStatusChecks /\ 0 \in 0..MaxRecoveryChecks
      OBVIOUS
    <3> QED BY <2>1, <3>1 DEF ResumeChecks, TypeInv, TypeOK, Check
  <2>3. alarm' \in Int /\ wake' \in Int /\ wakeups' \in BOOLEAN
    BY <2>1, <2>2, ContinuationType DEF TypeInv, TypeOK
  <2> QED BY <2>1, <2>2, <2>3
          DEF ResumeChecks, TypeInv, TypeOK, GenerationStarted
<1> QED BY <1>1, <1>2, <1>3, <1>4

LEMMA SettleErasureType ==
  ASSUME TypeInv, SettleErasure
  PROVE  /\ dirty' \in SUBSET Day /\ incomplete' \in SUBSET Day
         /\ links' \in SUBSET Link
         /\ days' \in [Deliveries -> SUBSET Day]
         /\ snapshotDays' \in SUBSET Day
         /\ progress' \in Progress
         /\ gate' \in Gate
         /\ gate'.phase = "snapshot" => gate' = gate
<1>1. CASE Drained(RecoveredGate)
  <2>1. NoProgress \in Progress /\ OpenGate \in Gate /\ OpenGate.phase = "open"
    BY DEF NoProgress, Progress, OpenGate, Gate
  <2>2. [d \in Deliveries |-> {}] \in [Deliveries -> SUBSET Day]
    OBVIOUS
  <2> QED BY <1>1, <2>1, <2>2 DEF SettleErasure
<1>2. CASE ~Drained(RecoveredGate)
  BY <1>2, HousekeepType DEF SettleErasure, TypeInv, TypeOK
<1> QED BY <1>1, <1>2

LEMMA ErasureStepType ==
  ASSUME TypeInv
  PROVE  /\ BeginErasure => TypeInv'
         /\ GetErasureState => TypeInv'
         /\ \A job \in Jobs : /\ AttachErasureCopyJob(job) => TypeInv'
                              /\ SettleErasureCopyIntent(job) => TypeInv'
         /\ AbandonErasureSnapshot => TypeInv'
<1> USE DEF deliveryVars, dayVars, captureVars, copyVars, scheduleVars
<1>1. ASSUME BeginErasure  PROVE  TypeInv'
  BY <1>1, SettleErasureType DEF BeginErasure, NoAlarm, TypeInv, TypeOK, GenerationStarted
<1>2. ASSUME GetErasureState  PROVE  TypeInv'
  BY <1>2, SettleErasureType DEF GetErasureState, TypeInv, TypeOK, GenerationStarted
<1>3. ASSUME NEW job \in Jobs, AttachErasureCopyJob(job)  PROVE  TypeInv'
  BY <1>3, AttachedType DEF AttachErasureCopyJob, TypeInv, TypeOK, GenerationStarted
<1>4. ASSUME NEW job \in Jobs, SettleErasureCopyIntent(job)  PROVE  TypeInv'
  BY <1>4 DEF SettleErasureCopyIntent, TypeInv, TypeOK, GenerationStarted
<1>5. ASSUME AbandonErasureSnapshot  PROVE  TypeInv'
  BY <1>5, AbandonType DEF AbandonErasureSnapshot, TypeInv, TypeOK, GenerationStarted
<1> QED BY <1>1, <1>2, <1>3, <1>4, <1>5

LEMMA ScheduleStepType ==
  ASSUME TypeInv, ScheduleStep
  PROVE  TypeInv'
<1> USE DEF deliveryVars, dayVars, captureVars, copyVars, scheduleVars
<1>1. dirty \in SUBSET Day /\ incomplete \in SUBSET Day
  BY DEF TypeInv, TypeOK
<1>2. ASSUME GetStats  PROVE  TypeInv'
  BY <1>2, HousekeepType DEF GetStats, TypeInv, TypeOK, GenerationStarted
<1>3. ASSUME RequestSnapshot  PROVE  TypeInv'
  <2>1. gate' \in Gate /\ gate'.phase # "snapshot"
    BY <1>3, RecoveredType DEF RequestSnapshot, Gate
  <2>2. /\ dirty' \in SUBSET Day /\ incomplete' \in SUBSET Day
        /\ links' \in SUBSET Link
    BY <1>1, <1>3, PruneType DEF RequestSnapshot
  <2> QED BY <1>3, <2>1, <2>2, RecoveredType
          DEF RequestSnapshot, TypeInv, TypeOK, GenerationStarted
<1>4. ASSUME BeginEmptySnapshot  PROVE  TypeInv'
  <2>1. gate' \in Gate /\ gate'.phase # "snapshot"
    BY <1>4 DEF BeginEmptySnapshot, OpenGate, Gate
  <2>2. /\ dirty' \in SUBSET Day /\ incomplete' \in SUBSET Day
        /\ links' \in SUBSET Link
    BY <1>1, <1>4, PruneType DEF BeginEmptySnapshot
  <2> QED BY <1>4, <2>1, <2>2, RecoveredType
          DEF BeginEmptySnapshot, TypeInv, TypeOK, GenerationStarted
<1>5. ASSUME ScheduleSnapshot  PROVE  TypeInv'
  BY <1>5, ScheduleType DEF ScheduleSnapshot, TypeInv, TypeOK, GenerationStarted
<1>6. ASSUME ScheduleSnapshotContinuation  PROVE  TypeInv'
  <2>1. check' \in Check
    BY <1>6 DEF ScheduleSnapshotContinuation, TypeInv, TypeOK
  <2> QED BY <1>6, <2>1, ContinuationType
          DEF ScheduleSnapshotContinuation, TypeInv, TypeOK, GenerationStarted
<1>7. ASSUME Alarm  PROVE  TypeInv'
  <2>1. Housekeep
    BY <1>7 DEF Alarm
  <2>2. DueWake \in Int
    <3>1. check.wait \in 0..FirstCheck + CheckDelay
      BY DEF TypeInv, TypeOK, Check
    <3> QED BY <3>1 DEF DueWake, TypeInv, TypeOK
  <2>3. gate'.lease \in 0..SnapshotLease
    BY <2>1, HousekeepType DEF Gate
  <2>4. alarm' \in {NoAlarm, DueWake, gate'.lease, Dispatch}
          /\ wake' \in {wake, NoAlarm} /\ wakeups' \in {wakeups, TRUE}
    BY <1>7 DEF Alarm
  <2>5. alarm' \in Int /\ wake' \in Int /\ wakeups' \in BOOLEAN
    <3>1. gate'.lease \in Int /\ NoAlarm \in Int /\ wake \in Int /\ Dispatch \in Int
      BY <2>3 DEF NoAlarm, TypeInv, TypeOK
    <3>2. alarm' \in Int /\ wake' \in Int
      BY <2>2, <2>4, <3>1
    <3>3. wakeups' \in BOOLEAN
      BY <2>4 DEF TypeInv, TypeOK
    <3> QED BY <3>2, <3>3
  <2> QED BY <1>7, <2>1, <2>5, HousekeepType
          DEF Alarm, TypeInv, TypeOK, GenerationStarted
<1>8. ASSUME WakeupConsumed  PROVE  TypeInv'
  BY <1>8 DEF WakeupConsumed, TypeInv, TypeOK, GenerationStarted
<1> QED BY <1>2, <1>3, <1>4, <1>5, <1>6, <1>7, <1>8 DEF ScheduleStep

LEMMA TimeStepType ==
  ASSUME TypeInv, Tick \/ Midnight
  PROVE  TypeInv'
<1> USE DEF deliveryVars, dayVars, captureVars, copyVars, scheduleVars
<1>1. CASE Tick
  <2>1. ttl' \in [Deliveries -> 0..DeliveryRetention]
    BY <1>1 DEF Tick, Down, TypeInv, TypeOK
  <2>2. gate' \in Gate /\ gate'.phase = gate.phase
                       /\ gate'.generation = gate.generation
    <3>1. Down(gate.lease) \in 0..SnapshotLease
      BY DEF Down, TypeInv, TypeOK, Gate
    <3> QED BY <1>1, <3>1 DEF Tick, TypeInv, TypeOK, Gate
  <2>3. check' \in Check
    <3>1. Down(check.wait) \in 0..FirstCheck + CheckDelay
      <4>1. check.wait \in 0..FirstCheck + CheckDelay
        BY DEF TypeInv, TypeOK, Check
      <4> QED BY <4>1 DEF Down
    <3> QED BY <1>1, <3>1 DEF Tick, TypeInv, TypeOK, Check
  <2>4. alarm' \in Int /\ wake' \in Int
    BY <1>1 DEF Tick, Down, TypeInv, TypeOK
  <2> QED BY <1>1, <2>1, <2>2, <2>3, <2>4 DEF Tick, TypeInv, TypeOK, GenerationStarted
<1>2. CASE Midnight
  BY <1>2 DEF Midnight, Day, TypeInv, TypeOK, GenerationStarted
<1> QED BY <1>1, <1>2

LEMMA InitType == Init => TypeInv
<1> SUFFICES ASSUME Init  PROVE  TypeInv
  OBVIOUS
<1>1. gate \in Gate /\ progress \in Progress /\ check \in Check
  BY DEF Init, OpenGate, Gate, NoProgress, Progress, NoCheck, NewCheck, Check
<1>2. gate.phase # "snapshot"
  BY DEF Init, OpenGate
<1>3. today \in Day /\ lastSequence \in 1..MaxSequence
  BY DEF Init, Day
<1>4. /\ sequence \in [Deliveries -> 0..MaxSequence]
      /\ days \in [Deliveries -> SUBSET Day]
      /\ ttl \in [Deliveries -> 0..DeliveryRetention]
  BY DEF Init
<1>5. alarm \in Int /\ wake \in Int
  BY DEF Init, NoAlarm
<1>6. lastGeneration \in 0..MaxGeneration /\ failure \in 0..MaxGeneration
  BY DEF Init
<1>7. /\ dirty \in SUBSET Day /\ incomplete \in SUBSET Day /\ links \in SUBSET Link
      /\ snapshotDays \in SUBSET Day /\ intents \in SUBSET Intent
      /\ erasing \in BOOLEAN /\ wakeups \in BOOLEAN
  BY DEF Init
<1> QED BY <1>1, <1>2, <1>3, <1>4, <1>5, <1>6, <1>7
        DEF TypeInv, TypeOK, GenerationStarted

LEMMA NextType ==
  ASSUME TypeInv, [Next]_vars
  PROVE  TypeInv'
<1>1. CASE DeliveryStep
  BY <1>1, DeliveryStepType DEF DeliveryStep
<1>2. CASE ClaimStep
  BY <1>2, BeginSnapshotType, ClaimStepType, CopyStepType DEF ClaimStep
<1>3. CASE OperatorStep
  BY <1>3, OperatorStepType DEF OperatorStep
<1>4. CASE ErasureStep
  BY <1>4, ErasureStepType DEF ErasureStep
<1>5. CASE ScheduleStep \/ Tick \/ Midnight
  BY <1>5, ScheduleStepType, TimeStepType
<1>6. CASE UNCHANGED vars
  BY <1>6 DEF vars, deliveryVars, dayVars, captureVars, copyVars, scheduleVars,
              TypeInv, TypeOK, GenerationStarted
<1> QED BY <1>1, <1>2, <1>3, <1>4, <1>5, <1>6 DEF Next

(* Every stored row has its declared shape and every counter stays within  *)
(* its limit, whatever the callers do (the status and recovery budgets and *)
(* the sequence and generation limits included).                           *)
THEOREM TypeCorrect == Spec => []TypeOK
<1>1. TypeInv /\ [Next]_vars => TypeInv'
  BY NextType
<1>2. TypeInv => TypeOK
  BY DEF TypeInv
<1> QED BY InitType, <1>1, <1>2, PTL DEF Spec

-----------------------------------------------------------------------------
(* The inductive invariant *)

IInv ==
  /\ TypeInv
  /\ StableInput
  /\ CaptureSound
  /\ CaptureLinkClosed
  /\ OneIntentAtCursor
  /\ CheckAtCursor
  /\ FailureIsIdle
  /\ IncompleteAreDirty

-----------------------------------------------------------------------------
(* The dirty-day graph *)

(* A nonempty set of days has a latest day. *)
LEMMA LatestExists ==
  ASSUME NEW S \in SUBSET Day, S # {}
  PROVE  \E d \in S : \A e \in S : e <= d
<1> DEFINE Left == {LastDay - d : d \in S}
           Less == {ss \in Nat \X Nat : ss[1] < ss[2]}
<1>1. Left \subseteq Nat /\ Left # {}
  BY DEF Day
<1>2. IsWellFoundedOn(Less, Nat)
  BY NatLessThanWellFounded DEF OpToRel
<1>3. PICK x \in Left : \A y \in Left : <<y, x>> \notin Less
  <2> HIDE DEF Left, Less
  <2> QED BY <1>1, <1>2, WFMin
<1>4. PICK d \in S : x = LastDay - d
  BY <1>3
<1>5. \A e \in S : e <= d
  <2>1. SUFFICES ASSUME NEW e \in S  PROVE  e <= d
    OBVIOUS
  <2>2. LastDay - e \in Left /\ <<LastDay - e, x>> \notin Less
    BY <1>3
  <2>3. LastDay - e \in Nat /\ x \in Nat
    BY <1>1, <1>3, <2>2
  <2>4. ~(LastDay - e < x)
    BY <2>2, <2>3
  <2>5. d \in Int /\ e \in Int
    BY DEF Day
  <2> QED BY <1>4, <2>4, <2>5
<1> QED BY <1>5

LEMMA LatestType ==
  ASSUME NEW c \in SUBSET Day, c # {}
  PROVE  Latest(c) \in c /\ \A e \in c : e <= Latest(c)
BY LatestExists DEF Latest

(* Components hold the day they are searched from, consist of dirty days,  *)
(* and are left by no link between dirty days.                             *)
LEMMA ComponentClosed ==
  ASSUME NEW D, NEW L, NEW d \in D
  PROVE  /\ d \in Component(d, D, L)
         /\ Component(d, D, L) \subseteq D
         /\ LinkClosed(Component(d, D, L), D, L)
BY DEF Component, LinkClosed

(* Among components there are, some component is newest. *)
LEMMA NewestExists ==
  ASSUME NEW CC \in SUBSET SUBSET Day, CC # {}, \A c \in CC : c # {}
  PROVE  \E c \in CC : IsNewest(c, CC)
<1> DEFINE Lasts == {Latest(c) : c \in CC}
<1>1. Lasts \in SUBSET Day /\ Lasts # {}
  BY LatestType
<1>2. PICK d \in Lasts : \A e \in Lasts : e <= d
  <2> HIDE DEF Lasts
  <2> QED BY <1>1, LatestExists
<1>3. PICK c \in CC : d = Latest(c)
  BY <1>2
<1> QED BY <1>2, <1>3 DEF IsNewest

(* A selection among components there are takes at least one day. *)
LEMMA SelectionNonEmpty ==
  ASSUME NEW CC \in SUBSET SUBSET Day, CC # {}, \A c \in CC : c # {},
         NEW selected \in SUBSET CC, IsSelection(selected, CC)
  PROVE  UNION selected # {}
<1>1. PICK c \in CC : IsNewest(c, CC)
  BY NewestExists
<1>2. CASE \E big \in CC : selected = {big}
  BY <1>2
<1>3. CASE ~\E big \in CC : selected = {big}
  <2>1. /\ Cardinality(c) <= MaxSnapshotDays
        /\ c \in selected
             <=> Cardinality(SelectedBefore(c, selected)) + Cardinality(c)
                   <= MaxSnapshotDays
    BY <1>1, <1>3 DEF IsSelection
  <2>2. SelectedBefore(c, selected) = {}
    <3>1. \A s \in selected : ~(Latest(s) > Latest(c))
      <4>1. \A s \in CC : Latest(s) \in Int
        <5>1. \A s \in CC : Latest(s) \in Day
          BY LatestType
        <5> QED BY <5>1 DEF Day
      <4> QED BY <1>1, <4>1 DEF IsNewest
    <3> QED BY <3>1 DEF SelectedBefore
  <2>3. Cardinality({}) = 0
    BY FS_EmptySet
  <2>4. IsFiniteSet(c)
    <3>1. IsFiniteSet(Day)
      BY FS_Interval DEF Day
    <3> QED BY <3>1, FS_Subset
  <2>5. Cardinality(c) \in Nat
    BY <2>4, FS_CardinalityType
  <2>6. c \in selected
    BY <2>1, <2>2, <2>3, <2>5
  <2> QED BY <2>6
<1> QED BY <1>2, <1>3

(* What BeginSnapshot captures: complete, dirty and link-closed. *)
LEMMA CapturedComponents ==
  ASSUME NEW D \in SUBSET Day, NEW I, NEW L \in SUBSET Link,
         NEW selected \in SUBSET CompleteComponents(D, I, L)
  PROVE  /\ UNION selected \subseteq D \ I
         /\ \A l \in L : l[1] \in D /\ l[2] \in D
              => (l[1] \in UNION selected <=> l[2] \in UNION selected)
<1>1. \A c \in selected : c \subseteq D \ I /\ LinkClosed(c, D, L)
  BY ComponentClosed DEF CompleteComponents
<1>2. \A l \in L : Adjacent(l[1], l[2], L) /\ Adjacent(l[2], l[1], L)
  BY DEF Adjacent, Link
<1> QED BY <1>1, <1>2 DEF LinkClosed

-----------------------------------------------------------------------------
(* Three ways the invariant is kept *)

SafetyInv ==
  /\ StableInput
  /\ CaptureSound
  /\ CaptureLinkClosed
  /\ OneIntentAtCursor
  /\ CheckAtCursor
  /\ FailureIsIdle
  /\ IncompleteAreDirty

LEMMA IInvParts == IInv <=> TypeInv /\ SafetyInv
BY DEF IInv, SafetyInv

(* A step that leaves no snapshot behind. *)
LEMMA IdleStep ==
  ASSUME gate'.phase # "snapshot", gate'.generation = 0,
         snapshotDays' = {}, progress' = NoProgress, intents' = {},
         check' = NoCheck, failure' # 0 => gate'.phase = "open",
         incomplete' \subseteq dirty'
  PROVE  SafetyInv'
BY DEF SafetyInv, StableInput, CaptureSound, CaptureLinkClosed,
       OneIntentAtCursor, CheckAtCursor, FailureIsIdle, IncompleteAreDirty

(* A step that keeps the captured days of a snapshot in progress. *)
LEMMA CaptureStep ==
  ASSUME IInv,
         UNCHANGED <<lastGeneration, snapshotDays>>,
         gate'.phase = gate.phase, gate'.generation = gate.generation,
         progress' # progress
           => gate.phase = "snapshot" /\ progress'.claim # NoClaim,
         incomplete' \subseteq dirty',
         gate.phase = "snapshot" =>
           /\ Active' = {}
           /\ dirty' \subseteq dirty /\ links' \subseteq links
           /\ snapshotDays \subseteq dirty' \ incomplete'
  PROVE  StableInput' /\ CaptureSound' /\ CaptureLinkClosed' /\ IncompleteAreDirty'
<1>1. StableInput'
  BY DEF StableInput
<1>2. CaptureSound'
  BY DEF IInv, CaptureSound
<1>3. CaptureLinkClosed'
  <2>1. CASE gate.phase = "snapshot"
    BY <2>1 DEF IInv, CaptureLinkClosed
  <2>2. CASE gate.phase # "snapshot"
    BY <2>2 DEF IInv, CaptureSound, CaptureLinkClosed
  <2> QED BY <2>1, <2>2
<1> QED BY <1>1, <1>2, <1>3 DEF IncompleteAreDirty

(* A step that keeps the cursor and the intents. *)
LEMMA CursorStep ==
  ASSUME OneIntentAtCursor,
         gate'.phase = gate.phase, gate'.generation = gate.generation,
         UNCHANGED <<snapshotDays, intents>>,
         progress'.nextCopy = progress.nextCopy
  PROVE  OneIntentAtCursor'
BY DEF OneIntentAtCursor, AtCursor, CopyKey, CopyCount, CopyChunks

(* Pruning that spares the captured days disturbs nothing. *)
LEMMA PruneStep ==
  ASSUME IInv, NEW D, NEW I, I \subseteq D, Prune(D, I, snapshotDays)
  PROVE  /\ incomplete' \subseteq dirty'
         /\ dirty' \subseteq D /\ links' \subseteq links
         /\ snapshotDays \subseteq D \ I => snapshotDays \subseteq dirty' \ incomplete'
BY DEF Prune, Pruned

(* The housekeeping at the start of most RPCs. *)
LEMMA HousekeepStep ==
  ASSUME IInv, Housekeep,
         UNCHANGED <<lastGeneration, progress, intents, check, failure>>,
         gate'.phase = "snapshot" => Active' = {}
  PROVE  SafetyInv'
<1>1. CASE DrainLapsed
  <2>1. gate' = OpenGate /\ snapshotDays' = {}
    BY <1>1 DEF Housekeep, RecoveredGate, RecoveredDays
  <2>2. gate.phase # "snapshot"
    BY <1>1 DEF DrainLapsed
  <2>3. progress = NoProgress /\ intents = {} /\ check = NoCheck
    BY <2>2 DEF IInv, CaptureSound, OneIntentAtCursor, CheckAtCursor
  <2>4. incomplete' \subseteq dirty'
    BY DEF Housekeep, Prune, Pruned, IInv, IncompleteAreDirty
  <2> QED BY <2>1, <2>3, <2>4, IdleStep DEF OpenGate
<1>2. CASE ~DrainLapsed
  <2>1. gate' = gate /\ snapshotDays' = snapshotDays
          /\ Prune(dirty, incomplete, snapshotDays)
    BY <1>2 DEF Housekeep, RecoveredGate, RecoveredDays
  <2>2. StableInput' /\ CaptureSound' /\ CaptureLinkClosed' /\ IncompleteAreDirty'
    <3>1. /\ incomplete' \subseteq dirty'
          /\ dirty' \subseteq dirty /\ links' \subseteq links
          /\ snapshotDays \subseteq dirty \ incomplete
               => snapshotDays \subseteq dirty' \ incomplete'
      BY <2>1, PruneStep DEF IInv, IncompleteAreDirty
    <3>2. gate.phase = "snapshot" => snapshotDays \subseteq dirty \ incomplete
      BY DEF IInv, CaptureSound
    <3>3. gate.phase = "snapshot" =>
            /\ Active' = {}
            /\ dirty' \subseteq dirty /\ links' \subseteq links
            /\ snapshotDays \subseteq dirty' \ incomplete'
      BY <2>1, <3>1, <3>2
    <3>4. /\ UNCHANGED <<lastGeneration, snapshotDays>>
          /\ gate'.phase = gate.phase /\ gate'.generation = gate.generation
          /\ progress' = progress
      BY <2>1
    <3> QED BY <3>1, <3>3, <3>4, CaptureStep
  <2>3. OneIntentAtCursor'
    BY <2>1, CursorStep DEF IInv
  <2>4. CheckAtCursor' /\ FailureIsIdle'
    BY <2>1 DEF IInv, CheckAtCursor, FailureIsIdle
  <2> QED BY <2>2, <2>3, <2>4 DEF SafetyInv
<1> QED BY <1>1, <1>2

(* Abandoning a generation that owes no Copy any more. *)
LEMMA AbandonStep ==
  ASSUME IInv, AbandonGeneration, intents' = {}
  PROVE  SafetyInv'
<1>1. incomplete' \subseteq dirty'
  BY DEF AbandonGeneration, Prune, Pruned, IInv, IncompleteAreDirty
<1> QED BY <1>1, IdleStep DEF AbandonGeneration, OpenGate

(* A step of the snapshot or of the clock that leaves the days alone. *)
LEMMA SameDaysStep ==
  ASSUME IInv,
         UNCHANGED <<sequence, dirty, incomplete, links, lastGeneration,
                     snapshotDays>>,
         gate'.phase = gate.phase, gate'.generation = gate.generation,
         progress' # progress
           => gate.phase = "snapshot" /\ progress'.claim # NoClaim
  PROVE  StableInput' /\ CaptureSound' /\ CaptureLinkClosed' /\ IncompleteAreDirty'
<1>1. Active' = Active
  BY DEF Active
<1>2. incomplete' \subseteq dirty'
  BY DEF IInv, IncompleteAreDirty
<1>3. gate.phase = "snapshot" =>
        /\ Active' = {}
        /\ dirty' \subseteq dirty /\ links' \subseteq links
        /\ snapshotDays \subseteq dirty' \ incomplete'
  BY <1>1 DEF IInv, StableInput, CaptureSound
<1> QED BY <1>2, <1>3, CaptureStep

-----------------------------------------------------------------------------
(* Deliveries *)

(* While a delivery is active no snapshot is in progress, so its days can  *)
(* be marked and linked freely.                                            *)
LEMMA DeliverySafe ==
  ASSUME IInv, NEW d \in Deliveries, d \in Active,
         UNCHANGED <<captureVars, copyVars>>,
         incomplete' \subseteq dirty'
  PROVE  SafetyInv'
<1>1. gate.phase # "snapshot"
  BY DEF IInv, StableInput
<1>2. gate' = gate /\ gate.generation = 0 /\ snapshotDays' = {}
        /\ progress' = NoProgress /\ intents' = {} /\ check' = NoCheck
  BY <1>1 DEF captureVars, copyVars, IInv, CaptureSound, OneIntentAtCursor,
              CheckAtCursor
<1>3. failure' # 0 => gate'.phase = "open"
  BY <1>2 DEF copyVars, IInv, FailureIsIdle
<1> QED BY <1>1, <1>2, <1>3, IdleStep

LEMMA CompleteSafe ==
  ASSUME IInv, NEW d \in Deliveries, CompleteEffect(d),
         UNCHANGED <<captureVars, copyVars>>
  PROVE  SafetyInv'
<1>1. d \in Active
  BY DEF CompleteEffect
<1>2. incomplete' \subseteq dirty'
  BY DEF CompleteEffect, Prune, Pruned, IInv, IncompleteAreDirty
<1> QED BY <1>1, <1>2, DeliverySafe

LEMMA DeliveryStepSafe ==
  ASSUME IInv, DeliveryStep
  PROVE  SafetyInv'
<1> USE DEF captureVars, copyVars
<1>1. PICK d \in Deliveries :
        \/ \E ds \in SUBSET Day, age \in 1..DeliveryRetention : Reserve(d, ds, age)
        \/ \E ds \in SUBSET Day : \E ls \in SUBSET Link : PlanWrite(d, ds, ls)
        \/ \E ds \in SUBSET Day, hasReservation \in BOOLEAN :
             FinishDelivery(d, ds, hasReservation)
        \/ Complete(d)
        \/ Expire(d)
  BY DEF DeliveryStep
<1>2. ASSUME NEW ds \in SUBSET Day, NEW age \in 1..DeliveryRetention,
             Reserve(d, ds, age)
      PROVE  SafetyInv'
  <2>1. gate'.phase = "open"
    BY <1>2 DEF Reserve, Housekeep
  <2> QED BY <1>2, <2>1, HousekeepStep DEF Reserve
<1>3. ASSUME NEW ds \in SUBSET Day, NEW ls \in SUBSET Link, PlanWrite(d, ds, ls)
      PROVE  SafetyInv'
  <2>1. d \in Active
    BY <1>3 DEF PlanWrite, HoldsPermit, Earliest
  <2> QED BY <1>3, <2>1, DeliverySafe DEF PlanWrite, IInv, IncompleteAreDirty
<1>4. ASSUME NEW ds \in SUBSET Day, NEW hasReservation \in BOOLEAN,
             FinishDelivery(d, ds, hasReservation)
      PROVE  SafetyInv'
  <2>1. CASE hasReservation
    BY <1>4, <2>1, CompleteSafe DEF FinishDelivery
  <2>2. CASE ~hasReservation
    <3>1. UNCHANGED <<sequence, dirty, incomplete, links, captureVars, copyVars>>
      BY <1>4, <2>2 DEF FinishDelivery, deliveryVars, dayVars
    <3>2. StableInput' /\ CaptureSound' /\ CaptureLinkClosed' /\ IncompleteAreDirty'
      <4>1. /\ UNCHANGED <<sequence, dirty, incomplete, links, lastGeneration,
                            snapshotDays>>
            /\ gate'.phase = gate.phase /\ gate'.generation = gate.generation
            /\ progress' = progress
        BY <3>1
      <4> QED BY <4>1, SameDaysStep
    <3>3. OneIntentAtCursor' /\ CheckAtCursor' /\ FailureIsIdle'
      BY <3>1, CursorStep DEF IInv, CheckAtCursor, FailureIsIdle
    <3> QED BY <3>2, <3>3 DEF SafetyInv
  <2> QED BY <2>1, <2>2
<1>5. ASSUME Complete(d)  PROVE  SafetyInv'
  BY <1>5, CompleteSafe DEF Complete
<1>6. ASSUME Expire(d)  PROVE  SafetyInv'
  <2>1. incomplete' \subseteq dirty'
    BY <1>6 DEF Expire, Prune, Pruned, IInv, IncompleteAreDirty
  <2> QED BY <1>6, <2>1, DeliverySafe DEF Expire
<1> QED BY <1>1, <1>2, <1>3, <1>4, <1>5, <1>6

-----------------------------------------------------------------------------
(* Snapshot runners *)

LEMMA BeginSnapshotSafe ==
  ASSUME IInv, NEW c \in Claims, BeginSnapshot(c)
  PROVE  SafetyInv'
<1> USE DEF deliveryVars, copyVars
<1>1. gate.phase # "snapshot"
  BY DEF BeginSnapshot, RecoveredGate, DrainLapsed
<1>2. intents' = {} /\ check' = NoCheck /\ failure' = 0
  BY <1>1 DEF BeginSnapshot, NoFailure, IInv, OneIntentAtCursor, CheckAtCursor
<1>3. gate'.phase = "snapshot" /\ gate'.generation = lastGeneration'
        /\ progress'.claim = c
  BY DEF BeginSnapshot, NoProgress
<1>4. Active' = {}
  BY DEF BeginSnapshot, DeliveriesDrained, Active
<1>5. incomplete' \subseteq dirty' /\ dirty' \in SUBSET Day /\ links' \in SUBSET Link
  BY PruneType DEF BeginSnapshot, IInv, TypeInv, TypeOK, IncompleteAreDirty, Prune,
                   Pruned
<1> DEFINE CC == CompleteComponents(dirty', incomplete', links')
<1>6. PICK selected \in SUBSET CC :
        IsSelection(selected, CC) /\ snapshotDays' = UNION selected
  BY DEF BeginSnapshot
<1>7. CC \in SUBSET SUBSET Day /\ CC # {} /\ \A x \in CC : x # {}
  BY <1>5, ComponentClosed DEF BeginSnapshot, CompleteComponents
<1>8. snapshotDays' # {}
  BY <1>6, <1>7, SelectionNonEmpty
<1>9. /\ snapshotDays' \subseteq dirty' \ incomplete'
      /\ \A l \in links' : l[1] \in dirty' /\ l[2] \in dirty'
           => (l[1] \in snapshotDays' <=> l[2] \in snapshotDays')
  BY <1>5, <1>6, CapturedComponents
<1> QED BY <1>2, <1>3, <1>4, <1>5, <1>8, <1>9
        DEF SafetyInv, StableInput, CaptureSound, CaptureLinkClosed,
            OneIntentAtCursor, CheckAtCursor, FailureIsIdle, IncompleteAreDirty

LEMMA ClaimStepSafe ==
  ASSUME IInv, NEW c \in Claims
  PROVE  /\ ClaimSnapshot(c) => SafetyInv'
         /\ RenewSnapshotClaim(c) => SafetyInv'
         /\ ReleaseSnapshotClaim(c) => SafetyInv'
         /\ PrepareManifest(c) => SafetyInv'
         /\ FinishSnapshot(c) => SafetyInv'
         /\ \A recorded \in BOOLEAN : FailSnapshot(c, recorded) => SafetyInv'
         /\ \A recovery \in BOOLEAN : PrepareCheck(c, recovery) => SafetyInv'
         /\ RequireRecovery(c) => SafetyInv'
<1> USE DEF deliveryVars, dayVars, captureVars, copyVars
<1>1. progress \in Progress /\ gate \in Gate
  BY DEF IInv, TypeInv, TypeOK
<1>2. ASSUME gate'.phase = "snapshot", gate.phase = "snapshot",
             gate'.generation = gate.generation,
             UNCHANGED <<deliveryVars, dayVars, lastGeneration, snapshotDays,
                         copyVars>>,
             progress'.claim # NoClaim, progress'.nextCopy = progress.nextCopy
      PROVE  SafetyInv'
  <2>1. StableInput' /\ CaptureSound' /\ CaptureLinkClosed' /\ IncompleteAreDirty'
    BY <1>2, SameDaysStep
  <2>2. OneIntentAtCursor' /\ CheckAtCursor' /\ FailureIsIdle'
    BY <1>2, CursorStep DEF IInv, CheckAtCursor, FailureIsIdle
  <2> QED BY <2>1, <2>2 DEF SafetyInv
<1>3. ASSUME NEW lease, SetLease(lease)
      PROVE  gate'.phase = gate.phase /\ gate'.generation = gate.generation
  BY <1>1, <1>3 DEF SetLease, Gate
<1>4. gate.phase = "snapshot" => progress.claim # NoClaim
  BY DEF IInv, CaptureSound
<1>5. ASSUME ClaimSnapshot(c)  PROVE  SafetyInv'
  <2>1. progress'.claim = c /\ progress'.nextCopy = progress.nextCopy
    BY <1>1, <1>5 DEF ClaimSnapshot, Progress
  <2> QED BY <1>2, <1>3, <1>5, <2>1 DEF ClaimSnapshot
<1>6. ASSUME RenewSnapshotClaim(c)  PROVE  SafetyInv'
  BY <1>2, <1>3, <1>4, <1>6 DEF RenewSnapshotClaim, HoldsClaim
<1>7. ASSUME ReleaseSnapshotClaim(c)  PROVE  SafetyInv'
  BY <1>2, <1>3, <1>4, <1>7 DEF ReleaseSnapshotClaim, HoldsClaim
<1>8. ASSUME PrepareManifest(c)  PROVE  SafetyInv'
  <2>1. progress'.claim = progress.claim /\ progress'.nextCopy = progress.nextCopy
    BY <1>1, <1>8 DEF PrepareManifest, Progress
  <2> QED BY <1>2, <1>4, <1>8, <2>1 DEF PrepareManifest, HoldsClaim
<1>9. ASSUME FinishSnapshot(c)  PROVE  SafetyInv'
  <2>1. incomplete' \subseteq dirty'
    BY <1>9 DEF FinishSnapshot, HoldsClaim, Pruned, IInv, CaptureSound,
                IncompleteAreDirty
  <2>2. intents' = {}
    BY <1>9 DEF FinishSnapshot, NoCopyOwed
  <2> QED BY <1>9, <2>1, <2>2, IdleStep DEF FinishSnapshot, OpenGate
<1>10. ASSUME NEW recorded \in BOOLEAN, FailSnapshot(c, recorded)  PROVE  SafetyInv'
  BY <1>10, AbandonStep DEF FailSnapshot, NoCopyOwed
<1>11. ASSUME UNCHANGED <<deliveryVars, dayVars, captureVars, intents, failure>>,
              CheckAtCursor'
       PROVE  SafetyInv'
  <2>1. StableInput' /\ CaptureSound' /\ CaptureLinkClosed' /\ IncompleteAreDirty'
    <3>1. /\ UNCHANGED <<sequence, dirty, incomplete, links, lastGeneration,
                          snapshotDays>>
          /\ gate'.phase = gate.phase /\ gate'.generation = gate.generation
          /\ progress' = progress
      BY <1>11
    <3> QED BY <3>1, SameDaysStep
  <2>2. OneIntentAtCursor' /\ FailureIsIdle'
    BY <1>11, CursorStep DEF IInv, FailureIsIdle
  <2> QED BY <1>11, <2>1, <2>2 DEF SafetyInv
<1>12. ASSUME NEW recovery \in BOOLEAN, PrepareCheck(c, recovery)  PROVE  SafetyInv'
  <2>1. check'.generation = gate.generation /\ check'.copy = progress.nextCopy
    <3>1. CurrentCheck \in Check
      BY <1>1, NewCheckType DEF CurrentCheck, Gate, Progress, IInv, TypeInv, TypeOK
    <3>2. \A x \in Check : Observed(x, recovery).generation = x.generation
                             /\ Observed(x, recovery).copy = x.copy
      BY DEF Observed, Check
    <3> QED BY <1>12, <3>1, <3>2 DEF PrepareCheck
  <2>2. CheckAtCursor'
    BY <1>12, <2>1 DEF PrepareCheck, HoldsClaim, CheckAtCursor
  <2> QED BY <1>11, <1>12, <2>2 DEF PrepareCheck
<1>13. ASSUME RequireRecovery(c)  PROVE  SafetyInv'
  <2>1. check'.generation = check.generation /\ check'.copy = check.copy
    BY <1>13 DEF RequireRecovery, IInv, TypeInv, TypeOK, Check
  <2>2. CheckAtCursor'
    BY <1>13, <2>1 DEF RequireRecovery, IInv, CheckAtCursor
  <2> QED BY <1>11, <1>13, <2>2 DEF RequireRecovery
<1> QED BY <1>5, <1>6, <1>7, <1>8, <1>9, <1>10, <1>12, <1>13

-----------------------------------------------------------------------------
(* Copy intents *)

LEMMA SettledIsLast ==
  ASSUME OneIntentAtCursor, NEW i \in intents, intents' = intents \ {i}
  PROVE  intents' = {}
BY DEF OneIntentAtCursor

LEMMA CopyStepSafe ==
  ASSUME IInv, NEW c \in Claims
  PROVE  /\ RecordCopyIntent(c) => SafetyInv'
         /\ RejectCopyIntent(c) => SafetyInv'
         /\ \A job \in Jobs : /\ AttachCopyJob(c, job) => SafetyInv'
                              /\ SettleCopyDone(c, job) => SafetyInv'
                              /\ SettleCopyError(c, job) => SafetyInv'
<1> USE DEF deliveryVars, dayVars, captureVars, copyVars
<1>1. progress \in Progress /\ gate \in Gate /\ intents \in SUBSET Intent
        /\ check \in Check
  BY DEF IInv, TypeInv, TypeOK
<1>2. gate.phase = "snapshot" => failure = 0
  BY DEF IInv, FailureIsIdle
<1>3. ASSUME HoldsCursor(c),
             UNCHANGED <<deliveryVars, dayVars, lastGeneration, gate, snapshotDays,
                         failure>>,
             progress'.claim = progress.claim
      PROVE  StableInput' /\ CaptureSound' /\ CaptureLinkClosed'
               /\ IncompleteAreDirty' /\ FailureIsIdle'
  <2>1. gate.phase = "snapshot" /\ progress'.claim # NoClaim
    BY <1>3 DEF HoldsCursor, HoldsClaim
  <2>2. /\ UNCHANGED <<sequence, dirty, incomplete, links, lastGeneration,
                       snapshotDays>>
        /\ gate'.phase = gate.phase /\ gate'.generation = gate.generation
    BY <1>3
  <2>3. FailureIsIdle'
    BY <1>2, <1>3, <2>1 DEF FailureIsIdle
  <2> QED BY <2>1, <2>2, <2>3, SameDaysStep
<1>4. ASSUME RecordCopyIntent(c)  PROVE  SafetyInv'
  <2>1. intents = {}
    BY <1>4 DEF RecordCopyIntent, IInv, OneIntentAtCursor
  <2>2. gate'.phase = "snapshot" /\ (progress.nextCopy < CopyCount)'
    BY <1>4 DEF RecordCopyIntent, HoldsCursor, HoldsClaim, CopyCount, CopyChunks
  <2>3. \A i \in intents' : AtCursor(i)'
    BY <1>4, <2>1 DEF RecordCopyIntent, AtCursor, CopyKey, CopyChunks
  <2>4. OneIntentAtCursor'
    BY <1>4, <2>1, <2>2, <2>3 DEF RecordCopyIntent, OneIntentAtCursor
  <2>5. CheckAtCursor'
    BY <1>4, <2>2 DEF RecordCopyIntent, CheckAtCursor, NewCheck
  <2> QED BY <1>3, <1>4, <2>4, <2>5 DEF RecordCopyIntent, SafetyInv
<1>5. ASSUME RejectCopyIntent(c)  PROVE  SafetyInv'
  <2>1. intents' = {}
    BY <1>5, SettledIsLast DEF RejectCopyIntent, IInv
  <2> QED BY <1>5, <2>1, AbandonStep DEF RejectCopyIntent, FailGeneration
<1>6. ASSUME NEW job \in Jobs, AttachCopyJob(c, job)  PROVE  SafetyInv'
  <2>1. PICK i \in intents : intents' = Attached(i, job)
    BY <1>6 DEF AttachCopyJob
  <2>2. intents' = {[i EXCEPT !.job = job]}
    BY <2>1 DEF Attached, IInv, OneIntentAtCursor
  <2>3. AtCursor(i) /\ gate.phase = "snapshot" /\ progress.nextCopy < CopyCount
    BY DEF IInv, OneIntentAtCursor
  <2>4. \A x \in intents' : AtCursor(x)'
    BY <1>1, <1>6, <2>2, <2>3
       DEF AttachCopyJob, AtCursor, CopyKey, CopyChunks, Intent
  <2>5. OneIntentAtCursor'
    BY <1>6, <2>2, <2>3, <2>4
       DEF AttachCopyJob, OneIntentAtCursor, CopyCount, CopyChunks
  <2>6. check' # NoCheck => check # NoCheck /\ check'.generation = check.generation
                                            /\ check'.copy = check.copy
    BY <1>1, <1>6 DEF AttachCopyJob, Check
  <2>7. CheckAtCursor'
    BY <1>6, <2>6 DEF AttachCopyJob, IInv, CheckAtCursor
  <2> QED BY <1>3, <1>6, <2>5, <2>7 DEF AttachCopyJob, SafetyInv
<1>7. ASSUME NEW job \in Jobs, SettleCopyDone(c, job)  PROVE  SafetyInv'
  <2>1. intents' = {} /\ check' = NoCheck
    BY <1>7, SettledIsLast DEF SettleCopyDone, IInv
  <2>2. progress'.claim = progress.claim
    BY <1>1, <1>7 DEF SettleCopyDone, Progress
  <2>3. OneIntentAtCursor' /\ CheckAtCursor'
    BY <2>1 DEF OneIntentAtCursor, CheckAtCursor
  <2> QED BY <1>3, <1>7, <2>2, <2>3 DEF SettleCopyDone, SafetyInv
<1>8. ASSUME NEW job \in Jobs, SettleCopyError(c, job)  PROVE  SafetyInv'
  <2>1. intents' = {}
    BY <1>8, SettledIsLast DEF SettleCopyError, IInv
  <2> QED BY <1>8, <2>1, AbandonStep DEF SettleCopyError, FailGeneration
<1> QED BY <1>4, <1>5, <1>6, <1>7, <1>8

-----------------------------------------------------------------------------
(* The operator, the schedule and time *)

(* A step that may change the check, the failure record and the schedule only. *)
LEMMA CheckStep ==
  ASSUME IInv,
         UNCHANGED <<sequence, dirty, incomplete, links, captureVars, intents>>,
         CheckAtCursor', FailureIsIdle'
  PROVE  SafetyInv'
<1>1. /\ UNCHANGED <<sequence, dirty, incomplete, links, lastGeneration,
                     snapshotDays>>
      /\ gate' = gate /\ progress' = progress /\ intents' = intents
  BY DEF captureVars
<1>2. StableInput' /\ CaptureSound' /\ CaptureLinkClosed' /\ IncompleteAreDirty'
  BY <1>1, SameDaysStep
<1>3. OneIntentAtCursor'
  BY <1>1, CursorStep DEF IInv
<1> QED BY <1>2, <1>3 DEF SafetyInv

LEMMA ScheduleOnlyStep ==
  ASSUME IInv, UNCHANGED <<deliveryVars, dayVars, captureVars, copyVars>>
  PROVE  SafetyInv'
<1>1. CheckAtCursor' /\ FailureIsIdle'
  BY DEF captureVars, copyVars, IInv, CheckAtCursor, FailureIsIdle
<1> QED BY <1>1, CheckStep DEF deliveryVars, dayVars, captureVars, copyVars

LEMMA OperatorStepSafe ==
  ASSUME IInv, OperatorStep
  PROVE  SafetyInv'
<1> USE DEF deliveryVars, dayVars, captureVars, copyVars
<1>1. ASSUME NEW ds \in SUBSET Day, ResolveIncompleteDays(ds)  PROVE  SafetyInv'
  <2>1. /\ UNCHANGED <<sequence, dirty, links, lastGeneration, snapshotDays,
                       progress, gate, intents, check, failure>>
        /\ incomplete' \subseteq incomplete
    BY <1>1 DEF ResolveIncompleteDays
  <2>2. gate.phase = "snapshot" =>
          /\ Active' = {}
          /\ snapshotDays \subseteq dirty' \ incomplete'
    BY <2>1 DEF Active, IInv, StableInput, CaptureSound
  <2>3. incomplete' \subseteq dirty'
    BY <2>1 DEF IInv, IncompleteAreDirty
  <2>4. StableInput' /\ CaptureSound' /\ CaptureLinkClosed' /\ IncompleteAreDirty'
    BY <2>1, <2>2, <2>3, CaptureStep
  <2>5. OneIntentAtCursor' /\ CheckAtCursor' /\ FailureIsIdle'
    BY <2>1, CursorStep DEF IInv, CheckAtCursor, FailureIsIdle
  <2> QED BY <2>4, <2>5 DEF SafetyInv
<1>2. ASSUME AbandonUnstartedCopy  PROVE  SafetyInv'
  BY <1>2, AbandonStep DEF AbandonUnstartedCopy, FailGeneration
<1>3. ASSUME ResumeFailed  PROVE  SafetyInv'
  <2>1. CheckAtCursor' /\ FailureIsIdle'
    BY <1>3 DEF ResumeFailed, IInv, CheckAtCursor, FailureIsIdle
  <2> QED BY <1>3, <2>1, CheckStep DEF ResumeFailed
<1>4. ASSUME ResumeChecks  PROVE  SafetyInv'
  <2>1. check # NoCheck
    BY <1>4 DEF ResumeChecks, Blocked, NoCheck, NewCheck
  <2>2. check'.generation = check.generation /\ check'.copy = check.copy
    BY <1>4 DEF ResumeChecks, IInv, TypeInv, TypeOK, Check
  <2>3. CheckAtCursor' /\ FailureIsIdle'
    BY <1>4, <2>1, <2>2 DEF ResumeChecks, IInv, CheckAtCursor, FailureIsIdle
  <2> QED BY <1>4, <2>3, CheckStep DEF ResumeChecks
<1> QED BY <1>1, <1>2, <1>3, <1>4 DEF OperatorStep, ResumeBlocked, ResumeInterrupted

LEMMA SettleErasureSafe ==
  ASSUME IInv, SettleErasure, UNCHANGED <<sequence, lastGeneration, copyVars>>
  PROVE  SafetyInv'
<1> USE DEF copyVars
<1>1. CASE Drained(RecoveredGate)
  <2>1. gate.phase # "snapshot"
    BY <1>1 DEF Drained, RecoveredGate, DrainLapsed, IInv, TypeInv,
                GenerationStarted
  <2>2. check' = NoCheck /\ intents' = {}
    BY <2>1 DEF IInv, CheckAtCursor, OneIntentAtCursor
  <2> QED BY <1>1, <2>2, IdleStep DEF SettleErasure, OpenGate
<1>2. CASE ~Drained(RecoveredGate)
  <2>1. Housekeep /\ UNCHANGED <<lastGeneration, progress, intents, check, failure>>
    BY <1>2 DEF SettleErasure
  <2>2. gate'.phase = "snapshot" => Active' = {}
    BY <2>1 DEF Housekeep, RecoveredGate, OpenGate, Active, IInv, StableInput
  <2> QED BY <2>1, <2>2, HousekeepStep
<1> QED BY <1>1, <1>2

LEMMA ErasureStepSafe ==
  ASSUME IInv, ErasureStep
  PROVE  SafetyInv'
<1> USE DEF deliveryVars, dayVars, captureVars, copyVars
<1>1. ASSUME BeginErasure \/ GetErasureState  PROVE  SafetyInv'
  BY <1>1, SettleErasureSafe DEF BeginErasure, GetErasureState
<1>2. ASSUME \A x \in intents' : \E i \in intents :
               /\ x.generation = i.generation /\ x.target = i.target
               /\ x.attempt = i.attempt,
             \A x, y \in intents' : x = y,
             UNCHANGED <<deliveryVars, dayVars, captureVars, check, failure>>
      PROVE  SafetyInv'
  <2>1. /\ UNCHANGED <<sequence, dirty, incomplete, links, lastGeneration,
                       snapshotDays>>
        /\ gate' = gate /\ progress' = progress
    BY <1>2
  <2>2. StableInput' /\ CaptureSound' /\ CaptureLinkClosed' /\ IncompleteAreDirty'
    BY <2>1, SameDaysStep
  <2>3. OneIntentAtCursor'
    BY <1>2, <2>1 DEF IInv, OneIntentAtCursor, AtCursor, CopyKey, CopyCount,
                      CopyChunks
  <2>4. CheckAtCursor' /\ FailureIsIdle'
    BY <1>2 DEF IInv, CheckAtCursor, FailureIsIdle
  <2> QED BY <2>2, <2>3, <2>4 DEF SafetyInv
<1>3. intents \in SUBSET Intent
  BY DEF IInv, TypeInv, TypeOK
<1>4. ASSUME NEW job \in Jobs, AttachErasureCopyJob(job)  PROVE  SafetyInv'
  <2>1. PICK i \in intents : intents' = Attached(i, job)
    BY <1>4 DEF AttachErasureCopyJob
  <2>2. intents' = {[i EXCEPT !.job = job]}
    BY <2>1 DEF Attached, IInv, OneIntentAtCursor
  <2>3. /\ [i EXCEPT !.job = job].generation = i.generation
        /\ [i EXCEPT !.job = job].target = i.target
        /\ [i EXCEPT !.job = job].attempt = i.attempt
    BY <1>3 DEF Intent
  <2>4. \A x, y \in intents' : x = y
    BY <2>2
  <2>5. \A x \in intents' : \E j \in intents :
          /\ x.generation = j.generation /\ x.target = j.target
          /\ x.attempt = j.attempt
    BY <2>2, <2>3
  <2> QED BY <1>2, <1>4, <2>4, <2>5 DEF AttachErasureCopyJob
<1>5. ASSUME NEW job \in Jobs, SettleErasureCopyIntent(job)  PROVE  SafetyInv'
  <2>1. intents' = {}
    BY <1>5, SettledIsLast DEF SettleErasureCopyIntent, IInv
  <2> QED BY <1>2, <1>5, <2>1 DEF SettleErasureCopyIntent
<1>6. ASSUME AbandonErasureSnapshot  PROVE  SafetyInv'
  BY <1>6, AbandonStep DEF AbandonErasureSnapshot, NoCopyOwed
<1> QED BY <1>1, <1>4, <1>5, <1>6 DEF ErasureStep

LEMMA ScheduleStepSafe ==
  ASSUME IInv, ScheduleStep
  PROVE  SafetyInv'
<1> USE DEF deliveryVars, dayVars, captureVars, copyVars
<1>1. Housekeep /\ UNCHANGED sequence => (gate'.phase = "snapshot" => Active' = {})
  BY DEF Housekeep, RecoveredGate, OpenGate, Active, IInv, StableInput
<1>2. ASSUME GetStats \/ Alarm  PROVE  SafetyInv'
  BY <1>1, <1>2, HousekeepStep DEF GetStats, Alarm
<1>3. ASSUME RecoveredGate.phase # "snapshot"
      PROVE  /\ gate.phase # "snapshot" /\ RecoveredGate.generation = 0
             /\ RecoveredDays = {}
             /\ progress = NoProgress /\ intents = {} /\ check = NoCheck
  <2>1. gate.phase # "snapshot"
    BY <1>3 DEF RecoveredGate, DrainLapsed
  <2> QED BY <2>1 DEF RecoveredGate, RecoveredDays, OpenGate, IInv, CaptureSound,
                      OneIntentAtCursor, CheckAtCursor
<1>4. ASSUME Prune(dirty, incomplete, RecoveredDays)
      PROVE  incomplete' \subseteq dirty'
  BY <1>4 DEF Prune, Pruned, IInv, IncompleteAreDirty
<1>5. ASSUME RequestSnapshot  PROVE  SafetyInv'
  <2>1. gate'.phase # "snapshot" /\ gate'.generation = 0
    BY <1>3, <1>5 DEF RequestSnapshot
  <2>2. /\ snapshotDays' = {} /\ progress' = NoProgress
        /\ intents' = {} /\ check' = NoCheck /\ failure' = 0
    BY <1>3, <1>5 DEF RequestSnapshot, NoFailure
  <2>3. incomplete' \subseteq dirty'
    BY <1>4, <1>5 DEF RequestSnapshot
  <2> QED BY <2>1, <2>2, <2>3, IdleStep
<1>6. ASSUME BeginEmptySnapshot  PROVE  SafetyInv'
  BY <1>3, <1>4, <1>6, IdleStep DEF BeginEmptySnapshot, OpenGate
<1>7. ASSUME ScheduleSnapshot \/ ScheduleSnapshotContinuation \/ WakeupConsumed
      PROVE  SafetyInv'
  BY <1>7, ScheduleOnlyStep
     DEF ScheduleSnapshot, ScheduleSnapshotContinuation, WakeupConsumed
<1> QED BY <1>2, <1>5, <1>6, <1>7 DEF ScheduleStep

LEMMA TimeStepSafe ==
  ASSUME IInv, Tick \/ Midnight
  PROVE  SafetyInv'
<1> USE DEF deliveryVars, dayVars, captureVars, copyVars
<1>1. CASE Tick
  <2>1. gate'.phase = gate.phase /\ gate'.generation = gate.generation
    BY <1>1 DEF Tick, IInv, TypeInv, TypeOK, Gate
  <2>2. UNCHANGED <<sequence, dirty, incomplete, links, lastGeneration,
                    snapshotDays, progress, intents, failure>>
    BY <1>1 DEF Tick
  <2>3. StableInput' /\ CaptureSound' /\ CaptureLinkClosed' /\ IncompleteAreDirty'
    BY <2>1, <2>2, SameDaysStep
  <2>4. OneIntentAtCursor' /\ FailureIsIdle'
    BY <2>1, <2>2, CursorStep DEF IInv, FailureIsIdle
  <2>5. /\ check'.generation = check.generation /\ check'.copy = check.copy
        /\ check = NoCheck => check' = NoCheck
    <3>1. check \in Check /\ check' = [check EXCEPT !.wait = Down(check.wait)]
      BY <1>1 DEF Tick, IInv, TypeInv, TypeOK
    <3>2. check'.generation = check.generation /\ check'.copy = check.copy
      BY <3>1 DEF Check
    <3>3. check = NoCheck => Down(check.wait) = check.wait
      BY DEF Down, NoCheck, NewCheck
    <3>4. Down(check.wait) = check.wait => check' = check
      BY <3>1 DEF Check
    <3> QED BY <3>2, <3>3, <3>4
  <2>6. CheckAtCursor'
    BY <2>1, <2>2, <2>5 DEF IInv, CheckAtCursor
  <2> QED BY <2>3, <2>4, <2>6 DEF SafetyInv
<1>2. CASE Midnight
  BY <1>2, ScheduleOnlyStep DEF Midnight
<1> QED BY <1>1, <1>2

-----------------------------------------------------------------------------
(* The theorems *)

LEMMA InitSafe == Init => IInv
<1> SUFFICES ASSUME Init  PROVE  IInv
  OBVIOUS
<1>1. TypeInv
  BY InitType
<1>2. gate.phase = "open" /\ gate.generation = 0 /\ check = NoCheck
        /\ intents = {} /\ snapshotDays = {} /\ progress = NoProgress
        /\ incomplete = {} /\ failure = 0
  BY DEF Init, OpenGate
<1> QED BY <1>1, <1>2
        DEF IInv, StableInput, CaptureSound, CaptureLinkClosed, OneIntentAtCursor,
            CheckAtCursor, FailureIsIdle, IncompleteAreDirty

LEMMA NextSafe ==
  ASSUME IInv, [Next]_vars
  PROVE  IInv'
<1>1. TypeInv'
  BY NextType DEF IInv
<1>2. SafetyInv'
  <2>1. CASE DeliveryStep
    BY <2>1, DeliveryStepSafe
  <2>2. CASE ClaimStep
    BY <2>2, BeginSnapshotSafe, ClaimStepSafe, CopyStepSafe DEF ClaimStep
  <2>3. CASE OperatorStep \/ ErasureStep \/ ScheduleStep
    BY <2>3, OperatorStepSafe, ErasureStepSafe, ScheduleStepSafe
  <2>4. CASE Tick \/ Midnight
    BY <2>4, TimeStepSafe
  <2>5. CASE UNCHANGED vars
    BY <2>5, ScheduleOnlyStep DEF vars
  <2> QED BY <2>1, <2>2, <2>3, <2>4, <2>5 DEF Next
<1> QED BY <1>1, <1>2 DEF IInv, SafetyInv

(* The inductive invariant holds of every reachable state of a coordinator. *)
THEOREM Invariance == Spec => []IInv
BY InitSafe, NextSafe, PTL DEF Spec

(* No delivery holds a reservation while a snapshot is copied. *)
THEOREM SnapshotInputIsStable == Spec => []StableInput
<1>1. IInv => StableInput
  BY DEF IInv
<1> QED BY Invariance, <1>1, PTL

(* Captured days stay dirty and complete, and linked days are captured     *)
(* together or not at all.                                                 *)
THEOREM CaptureIsSafe == Spec => []CaptureSafe
<1>1. IInv => CaptureSafe
  BY DEF IInv, CaptureSafe
<1> QED BY Invariance, <1>1, PTL

(* One Copy is owed, the one at the cursor; the check record is that       *)
(* Copy's; a failure is recorded once; counting incomplete days counts     *)
(* dirty ones.                                                             *)
THEOREM TablesAlwaysAgree == Spec => []TablesAgree
<1>1. IInv => TablesAgree
  BY DEF IInv, TablesAgree
<1> QED BY Invariance, <1>1, PTL

-----------------------------------------------------------------------------
(* What a step may never do *)

LEMMA PruneKeepsRetained ==
  ASSUME NEW D, NEW I, NEW C, dirty \subseteq D, Prune(D, I, C)
  PROVE  \A d \in dirty \ dirty' : ~InWindow(d)
BY DEF Prune, Pruned

LEMMA StepKeepsDirtyDays ==
  ASSUME Next
  PROVE  ForgetsNoUnpublishedDay
<1> USE DEF deliveryVars, dayVars, captureVars, copyVars
<1>1. ASSUME \A d \in dirty \ dirty' : ~InWindow(d)  PROVE  ForgetsNoUnpublishedDay
  BY <1>1 DEF ForgetsNoUnpublishedDay
<1>2. ASSUME Housekeep  PROVE  ForgetsNoUnpublishedDay
  BY <1>1, <1>2, PruneKeepsRetained DEF Housekeep
<1>3. ASSUME AbandonGeneration  PROVE  ForgetsNoUnpublishedDay
  BY <1>1, <1>3, PruneKeepsRetained DEF AbandonGeneration
<1>4. ASSUME UNCHANGED dirty  PROVE  ForgetsNoUnpublishedDay
  BY <1>4 DEF ForgetsNoUnpublishedDay
<1>5. ASSUME NEW d \in Deliveries, CompleteEffect(d)  PROVE  ForgetsNoUnpublishedDay
  BY <1>1, <1>5, PruneKeepsRetained DEF CompleteEffect
<1>6. CASE DeliveryStep
  <2>1. ASSUME NEW d \in Deliveries, Expire(d)  PROVE  ForgetsNoUnpublishedDay
    BY <1>1, <2>1, PruneKeepsRetained DEF Expire
  <2> QED BY <1>2, <1>4, <1>5, <1>6, <2>1
          DEF DeliveryStep, Reserve, PlanWrite, FinishDelivery, Complete
<1>7. CASE ClaimStep
  <2>1. ASSUME NEW c \in Claims, BeginSnapshot(c)  PROVE  ForgetsNoUnpublishedDay
    BY <1>1, <2>1, PruneKeepsRetained DEF BeginSnapshot
  <2>2. ASSUME NEW c \in Claims, FinishSnapshot(c)  PROVE  ForgetsNoUnpublishedDay
    BY <2>2 DEF FinishSnapshot, HoldsClaim, NoCopyOwed, OpenGate, Pruned,
                ForgetsNoUnpublishedDay
  <2> QED BY <1>3, <1>4, <1>7, <2>1, <2>2
          DEF ClaimStep, ClaimSnapshot, RenewSnapshotClaim, ReleaseSnapshotClaim,
              PrepareManifest, FailSnapshot, RecordCopyIntent, AttachCopyJob,
              SettleCopyDone, SettleCopyError, RejectCopyIntent, FailGeneration,
              PrepareCheck, RequireRecovery
<1>8. CASE OperatorStep
  BY <1>3, <1>4, <1>8
     DEF OperatorStep, ResolveIncompleteDays, AbandonUnstartedCopy, FailGeneration,
         ResumeFailed, ResumeBlocked, ResumeInterrupted, ResumeChecks
<1>9. CASE ErasureStep
  <2>1. ASSUME SettleErasure, erasing'  PROVE  ForgetsNoUnpublishedDay
    BY <1>2, <2>1 DEF SettleErasure, ForgetsNoUnpublishedDay
  <2> QED BY <1>3, <1>4, <1>9, <2>1
          DEF ErasureStep, BeginErasure, GetErasureState, AttachErasureCopyJob,
              SettleErasureCopyIntent, AbandonErasureSnapshot
<1>10. CASE ScheduleStep
  <2>1. ASSUME Prune(dirty, incomplete, RecoveredDays)
        PROVE  ForgetsNoUnpublishedDay
    BY <1>1, <2>1, PruneKeepsRetained
  <2> QED BY <1>2, <1>4, <1>10, <2>1
          DEF ScheduleStep, GetStats, RequestSnapshot, BeginEmptySnapshot,
              ScheduleSnapshot, ScheduleSnapshotContinuation, Alarm, WakeupConsumed
<1>11. CASE Tick \/ Midnight
  BY <1>4, <1>11 DEF Tick, Midnight
<1> QED BY <1>6, <1>7, <1>8, <1>9, <1>10, <1>11 DEF Next

(* No dirty day is lost: it is published, out of retention, or erased. *)
THEOREM DirtyDaysSurvive == Spec => DirtyDaySurvives
<1>1. [Next]_vars => [ForgetsNoUnpublishedDay]_vars
  BY StepKeepsDirtyDays
<1> QED BY <1>1, PTL DEF Spec, DirtyDaySurvives

(* Once erasure is ready nothing is active and every gate-opening RPC      *)
(* refuses, so there is nothing left that a step could start from.         *)
LEMMA ReadyStaysReady ==
  ASSUME IInv, Next, ErasureReady
  PROVE  ErasureReady'
<1> USE DEF deliveryVars, dayVars, captureVars, copyVars, Active
<1>1. erasing /\ Active = {} /\ intents = {}
  BY DEF ErasureReady, Drained
<1>2. gate.generation = 0 /\ gate.phase # "snapshot"
  <2>1. gate.phase # "snapshot"
    BY DEF ErasureReady, Drained, RecoveredGate, DrainLapsed, IInv, TypeInv,
           GenerationStarted
  <2> QED BY <2>1 DEF IInv, CaptureSound
<1>3. ASSUME gate'.generation = 0, Active' = {}, intents' = {}, erasing'
      PROVE  ErasureReady'
  BY <1>3 DEF ErasureReady, Drained, RecoveredGate, OpenGate
<1>4. OpenGate.generation = 0
  BY DEF OpenGate
<1>5. ASSUME Housekeep  PROVE  gate'.generation = 0
  BY <1>2, <1>4, <1>5 DEF Housekeep, RecoveredGate
<1>6. \A c \in Claims : ~HoldsClaim(c)
  BY <1>2 DEF HoldsClaim
<1>7. CASE DeliveryStep
  <2>1. \A d \in Deliveries : ~CompleteEffect(d) /\ ~HoldsPermit(d)
    BY <1>1 DEF CompleteEffect, HoldsPermit, Earliest
  <2>2. UNCHANGED <<sequence, gate, intents, erasing>>
    BY <1>1, <1>7, <2>1
       DEF DeliveryStep, Reserve, NotErasing, PlanWrite, FinishDelivery, Complete,
           Expire
  <2> QED BY <1>1, <1>2, <1>3, <2>2
<1>8. CASE ClaimStep
  BY <1>1, <1>2, <1>6, <1>8
     DEF ClaimStep, BeginSnapshot, NotErasing, ClaimSnapshot, RenewSnapshotClaim,
         ReleaseSnapshotClaim, PrepareManifest, FinishSnapshot, FailSnapshot,
         HoldsCursor, RecordCopyIntent, AttachCopyJob, SettleCopyDone,
         SettleCopyError, RejectCopyIntent, PrepareCheck, RequireRecovery
<1>9. CASE OperatorStep
  <2>1. UNCHANGED <<sequence, gate, intents, erasing>>
    BY <1>1, <1>9 DEF OperatorStep, ResolveIncompleteDays, AbandonUnstartedCopy,
                      ResumeFailed, ResumeBlocked, ResumeInterrupted,
                      ResumeChecks
  <2> QED BY <1>1, <1>2, <1>3, <2>1
<1>10. CASE ErasureStep
  <2>1. ASSUME SettleErasure  PROVE  gate'.generation = 0
    BY <1>4, <1>5, <2>1 DEF SettleErasure
  <2>2. CASE BeginErasure \/ GetErasureState
    <3>1. UNCHANGED <<sequence, intents>> /\ erasing' /\ gate'.generation = 0
      BY <2>1, <2>2 DEF BeginErasure, GetErasureState
    <3> QED BY <1>1, <1>3, <3>1
  <2>3. CASE (\E job \in Jobs : AttachErasureCopyJob(job)
                                  \/ SettleErasureCopyIntent(job))
             \/ AbandonErasureSnapshot
    BY <1>1, <1>2, <2>3
       DEF AttachErasureCopyJob, SettleErasureCopyIntent, AbandonErasureSnapshot
  <2> QED BY <1>10, <2>2, <2>3 DEF ErasureStep
<1>11. CASE ScheduleStep
  <2>1. CASE GetStats \/ Alarm
    <3>1. UNCHANGED <<sequence, intents, erasing>> /\ gate'.generation = 0
      BY <1>5, <2>1 DEF GetStats, Alarm
    <3> QED BY <1>1, <1>3, <3>1
  <2>2. ~RequestSnapshot /\ ~BeginEmptySnapshot
    BY <1>1 DEF RequestSnapshot, BeginEmptySnapshot, NotErasing
  <2>3. CASE ScheduleSnapshot \/ ScheduleSnapshotContinuation \/ WakeupConsumed
    <3>1. UNCHANGED <<sequence, gate, intents, erasing>>
      BY <2>3 DEF ScheduleSnapshot, ScheduleSnapshotContinuation, WakeupConsumed
    <3> QED BY <1>1, <1>2, <1>3, <3>1
  <2> QED BY <1>11, <2>1, <2>2, <2>3 DEF ScheduleStep
<1>12. CASE Tick \/ Midnight
  <2>1. UNCHANGED <<sequence, intents, erasing>>
    BY <1>12 DEF Tick, Midnight
  <2>2. gate'.generation = gate.generation
    BY <1>12 DEF Tick, Midnight, IInv, TypeInv, TypeOK, Gate
  <2> QED BY <1>1, <1>2, <1>3, <2>1, <2>2
<1> QED BY <1>7, <1>8, <1>9, <1>10, <1>11, <1>12 DEF Next

(* The answer "ready" of the erasure is final, whatever is still under way. *)
THEOREM ErasureIsFinal == Spec => ErasureReadyIsFinal
<1>1. IInv /\ [Next]_vars => [ErasureReady => ErasureReady']_vars
  BY ReadyStaysReady
<1> QED BY Invariance, <1>1, PTL DEF Spec, ErasureReadyIsFinal

-----------------------------------------------------------------------------
(* The refinement                                                          *)
(*                                                                         *)
(* The coordinator implements the lifecycle of snapshots.  The lifecycle   *)
(* knows neither days nor phases, so the proof rests on the inductive      *)
(* invariant: a generation is active exactly in the snapshot phase, and    *)
(* there is one Copy at most, so that settling it leaves none owed.        *)

(* What the invariant says about the fields of the lifecycle. *)
LEMMA LifecycleFacts ==
  ASSUME IInv
  PROVE  /\ gate \in Gate /\ progress \in Progress
         /\ gate.phase = "snapshot" <=> gate.generation # 0
         /\ gate.phase # "snapshot" => progress = NoProgress /\ intents = {}
         /\ \A i \in intents : intents = {i}
<1>1. gate \in Gate /\ progress \in Progress
  BY DEF IInv, TypeInv, TypeOK
<1>2. gate.phase = "snapshot" <=> gate.generation # 0
  BY DEF IInv, TypeInv, GenerationStarted, CaptureSound
<1>3. gate.phase # "snapshot" => progress = NoProgress /\ intents = {}
  BY DEF IInv, CaptureSound, OneIntentAtCursor
<1>4. \A i \in intents : intents = {i}
  BY DEF IInv, OneIntentAtCursor
<1> QED BY <1>1, <1>2, <1>3, <1>4

-----------------------------------------------------------------------------
(* The steps of the lifecycle, as changes of the coordinator's tables *)

LifeStep == [Abstract!Next]_LifecycleSeen

(* Lifecycles are told apart by their fields. *)
LEMMA SameLife ==
  ASSUME NEW l \in Abstract!Lifecycle, NEW m \in Abstract!Lifecycle,
         l.active = m.active, l.last = m.last, l.owed = m.owed,
         l.settled = m.settled, l.erasing = m.erasing
  PROVE  l = m
BY DEF Abstract!Lifecycle

(* The updates a lifecycle step makes, field by field. *)
LEMMA BegunIsLife ==
  ASSUME NEW l \in Abstract!Lifecycle, NEW g \in Nat
  PROVE  [l EXCEPT !.active = g, !.last = g, !.settled = 0] \in Abstract!Lifecycle
BY DEF Abstract!Lifecycle

LEMMA EndedFields ==
  ASSUME NEW l \in Abstract!Lifecycle,
         NEW m, m = [l EXCEPT !.active = 0, !.settled = 0]
  PROVE  /\ m \in Abstract!Lifecycle
         /\ m.active = 0 /\ m.last = l.last /\ m.owed = l.owed
         /\ m.settled = 0 /\ m.erasing = l.erasing
BY DEF Abstract!Lifecycle

LEMMA OwedFields ==
  ASSUME NEW l \in Abstract!Lifecycle, NEW b \in BOOLEAN,
         NEW m, m = [l EXCEPT !.owed = b]
  PROVE  /\ m \in Abstract!Lifecycle
         /\ m.active = l.active /\ m.last = l.last /\ m.owed = b
         /\ m.settled = l.settled /\ m.erasing = l.erasing
BY DEF Abstract!Lifecycle

LEMMA SettledIsLife ==
  ASSUME NEW l \in Abstract!Lifecycle, NEW n \in Nat
  PROVE  [l EXCEPT !.owed = FALSE, !.settled = n] \in Abstract!Lifecycle
BY DEF Abstract!Lifecycle

LEMMA FailedFields ==
  ASSUME NEW l \in Abstract!Lifecycle,
         NEW m, m = [l EXCEPT !.owed = FALSE, !.active = 0, !.settled = 0]
  PROVE  /\ m \in Abstract!Lifecycle
         /\ m.active = 0 /\ m.last = l.last /\ m.owed = FALSE
         /\ m.settled = 0 /\ m.erasing = l.erasing
BY DEF Abstract!Lifecycle

LEMMA ErasedFields ==
  ASSUME NEW l \in Abstract!Lifecycle,
         NEW m, m = [l EXCEPT !.erasing = TRUE]
  PROVE  /\ m \in Abstract!Lifecycle
         /\ m.active = l.active /\ m.last = l.last /\ m.owed = l.owed
         /\ m.settled = l.settled /\ m.erasing = TRUE
BY DEF Abstract!Lifecycle

(* What is shown before and after a step of a typed coordinator. *)
SeenTyped == LifecycleSeen \in Abstract!Lifecycle /\ LifecycleSeen' \in Abstract!Lifecycle

LEMMA SeenIsLife ==
  ASSUME TypeInv, TypeInv'
  PROVE  SeenTyped
<1>1. LifecycleSeen \in Abstract!Lifecycle
  BY DEF TypeInv, TypeOK, Gate, Progress, LifecycleSeen, Abstract!Lifecycle
<1>2. LifecycleSeen' \in Abstract!Lifecycle
  BY DEF TypeInv, TypeOK, Gate, Progress, LifecycleSeen, Abstract!Lifecycle
<1> QED BY <1>1, <1>2 DEF SeenTyped

-----------------------------------------------------------------------------
(* The steps of the lifecycle, as changes of the coordinator's tables *)

(* A step that shows nothing of itself. *)
LEMMA Unseen ==
  ASSUME gate'.generation = gate.generation, lastGeneration' = lastGeneration,
         (intents' = {}) <=> (intents = {}),
         progress'.nextCopy = progress.nextCopy, erasing' = erasing
  PROVE  LifeStep
BY DEF LifeStep, LifecycleSeen

(* A generation begins. *)
LEMMA Begins ==
  ASSUME SeenTyped,
         gate.generation = 0, ~erasing, lastGeneration < MaxGeneration,
         gate'.generation = lastGeneration + 1,
         lastGeneration' = lastGeneration + 1,
         intents' = intents, progress'.nextCopy = 0, erasing' = erasing
  PROVE  LifeStep
<1> DEFINE m == [LifecycleSeen EXCEPT !.active = lastGeneration + 1,
                                      !.last = lastGeneration + 1,
                                      !.settled = 0]
<1>1. LifecycleSeen.active = 0 /\ ~LifecycleSeen.erasing
        /\ LifecycleSeen.last = lastGeneration /\ lastGeneration + 1 \in Nat
  BY DEF SeenTyped, LifecycleSeen, Abstract!Lifecycle
<1>2. LifecycleSeen' = m
  <2>1. /\ LifecycleSeen'.active = lastGeneration + 1
        /\ LifecycleSeen'.last = lastGeneration + 1
        /\ LifecycleSeen'.owed = LifecycleSeen.owed
        /\ LifecycleSeen'.settled = 0
        /\ LifecycleSeen'.erasing = LifecycleSeen.erasing
    BY DEF LifecycleSeen
  <2>2. /\ m \in Abstract!Lifecycle
        /\ m.active = lastGeneration + 1 /\ m.last = lastGeneration + 1
        /\ m.owed = LifecycleSeen.owed /\ m.settled = 0
        /\ m.erasing = LifecycleSeen.erasing
    <3>1. LifecycleSeen \in Abstract!Lifecycle /\ lastGeneration + 1 \in Nat
      BY <1>1 DEF SeenTyped
    <3>2. m \in Abstract!Lifecycle
      BY <3>1, BegunIsLife, Zenon
    <3> QED BY <3>1, <3>2 DEF Abstract!Lifecycle
  <2> HIDE DEF m
  <2> QED BY <2>1, <2>2, SameLife, Zenon DEF SeenTyped
<1>3. LifecycleSeen' \in Abstract!Begun(LifecycleSeen)
  BY <1>1, <1>2 DEF Abstract!Begun
<1> QED BY <1>3, Zenon DEF LifeStep, Abstract!Next, Abstract!Steps

(* The active generation ends, owing nothing. *)
LEMMA Ends ==
  ASSUME SeenTyped, gate.generation # 0, intents = {},
         gate'.generation = 0, lastGeneration' = lastGeneration,
         intents' = {}, progress'.nextCopy = 0, erasing' = erasing
  PROVE  LifeStep
<1> DEFINE m == [LifecycleSeen EXCEPT !.active = 0, !.settled = 0]
<1>1. LifecycleSeen' = m
  <2>1. /\ LifecycleSeen'.active = 0
        /\ LifecycleSeen'.last = LifecycleSeen.last
        /\ LifecycleSeen'.owed = LifecycleSeen.owed
        /\ LifecycleSeen'.settled = 0
        /\ LifecycleSeen'.erasing = LifecycleSeen.erasing
    BY DEF LifecycleSeen
  <2>2. /\ m \in Abstract!Lifecycle
        /\ m.active = 0 /\ m.last = LifecycleSeen.last
        /\ m.owed = LifecycleSeen.owed /\ m.settled = 0
        /\ m.erasing = LifecycleSeen.erasing
    BY EndedFields, Zenon DEF SeenTyped
  <2> HIDE DEF m
  <2> QED BY <2>1, <2>2, SameLife, Zenon DEF SeenTyped
<1>2. LifecycleSeen.active # 0 /\ ~LifecycleSeen.owed
  BY DEF LifecycleSeen
<1>3. LifecycleSeen' \in Abstract!Ended(LifecycleSeen)
  BY <1>1, <1>2 DEF Abstract!Ended
<1> QED BY <1>3, Zenon DEF LifeStep, Abstract!Next, Abstract!Steps

(* A Copy is announced. *)
LEMMA Announces ==
  ASSUME SeenTyped, gate.generation # 0, ~erasing, intents = {}, intents' # {},
         UNCHANGED <<gate, lastGeneration, progress, erasing>>
  PROVE  LifeStep
<1> DEFINE m == [LifecycleSeen EXCEPT !.owed = TRUE]
<1>1. LifecycleSeen' = m
  <2>1. /\ LifecycleSeen'.active = LifecycleSeen.active
        /\ LifecycleSeen'.last = LifecycleSeen.last
        /\ LifecycleSeen'.owed = TRUE
        /\ LifecycleSeen'.settled = LifecycleSeen.settled
        /\ LifecycleSeen'.erasing = LifecycleSeen.erasing
    BY DEF LifecycleSeen
  <2>2. /\ m \in Abstract!Lifecycle
        /\ m.active = LifecycleSeen.active /\ m.last = LifecycleSeen.last
        /\ m.owed = TRUE /\ m.settled = LifecycleSeen.settled
        /\ m.erasing = LifecycleSeen.erasing
    BY OwedFields, Zenon DEF SeenTyped
  <2> HIDE DEF m
  <2> QED BY <2>1, <2>2, SameLife, Zenon DEF SeenTyped
<1>2. LifecycleSeen.active # 0 /\ ~LifecycleSeen.owed /\ ~LifecycleSeen.erasing
  BY DEF LifecycleSeen
<1>3. LifecycleSeen' \in Abstract!Announced(LifecycleSeen)
  BY <1>1, <1>2 DEF Abstract!Announced
<1> QED BY <1>3, Zenon DEF LifeStep, Abstract!Next, Abstract!Steps

(* The Copy that is owed is settled, and the cursor moves on. *)
LEMMA Settles ==
  ASSUME SeenTyped, intents # {}, intents' = {},
         gate'.generation = gate.generation,
         UNCHANGED <<lastGeneration, erasing>>,
         progress'.nextCopy = progress.nextCopy + 1
  PROVE  LifeStep
<1> DEFINE m == [LifecycleSeen EXCEPT !.owed = FALSE,
                                      !.settled = LifecycleSeen.settled + 1]
<1>1. LifecycleSeen' = m
  <2>1. /\ LifecycleSeen'.active = LifecycleSeen.active
        /\ LifecycleSeen'.last = LifecycleSeen.last
        /\ LifecycleSeen'.owed = FALSE
        /\ LifecycleSeen'.settled = LifecycleSeen.settled + 1
        /\ LifecycleSeen'.erasing = LifecycleSeen.erasing
    BY DEF LifecycleSeen
  <2>2. /\ m \in Abstract!Lifecycle
        /\ m.active = LifecycleSeen.active /\ m.last = LifecycleSeen.last
        /\ m.owed = FALSE /\ m.settled = LifecycleSeen.settled + 1
        /\ m.erasing = LifecycleSeen.erasing
    <3>1. LifecycleSeen \in Abstract!Lifecycle /\ LifecycleSeen.settled + 1 \in Nat
      BY DEF SeenTyped, Abstract!Lifecycle
    <3>2. m \in Abstract!Lifecycle
      BY <3>1, SettledIsLife, Zenon
    <3> QED BY <3>1, <3>2 DEF Abstract!Lifecycle
  <2> HIDE DEF m
  <2> QED BY <2>1, <2>2, SameLife, Zenon DEF SeenTyped
<1>2. LifecycleSeen.owed
  BY DEF LifecycleSeen
<1>3. LifecycleSeen' \in Abstract!Settled(LifecycleSeen)
  BY <1>1, <1>2 DEF Abstract!Settled
<1> QED BY <1>3, Zenon DEF LifeStep, Abstract!Next, Abstract!Steps

(* The Copy that is owed is settled, and the cursor stays where it is. *)
LEMMA SettlesInPlace ==
  ASSUME SeenTyped, intents # {}, intents' = {},
         UNCHANGED <<gate, lastGeneration, progress, erasing>>
  PROVE  LifeStep
<1> DEFINE m == [LifecycleSeen EXCEPT !.owed = FALSE]
<1>1. LifecycleSeen' = m
  <2>1. /\ LifecycleSeen'.active = LifecycleSeen.active
        /\ LifecycleSeen'.last = LifecycleSeen.last
        /\ LifecycleSeen'.owed = FALSE
        /\ LifecycleSeen'.settled = LifecycleSeen.settled
        /\ LifecycleSeen'.erasing = LifecycleSeen.erasing
    BY DEF LifecycleSeen
  <2>2. /\ m \in Abstract!Lifecycle
        /\ m.active = LifecycleSeen.active /\ m.last = LifecycleSeen.last
        /\ m.owed = FALSE /\ m.settled = LifecycleSeen.settled
        /\ m.erasing = LifecycleSeen.erasing
    BY OwedFields, Zenon DEF SeenTyped
  <2> HIDE DEF m
  <2> QED BY <2>1, <2>2, SameLife, Zenon DEF SeenTyped
<1>2. LifecycleSeen.owed
  BY DEF LifecycleSeen
<1>3. LifecycleSeen' \in Abstract!Settled(LifecycleSeen)
  BY <1>1, <1>2 DEF Abstract!Settled
<1> QED BY <1>3, Zenon DEF LifeStep, Abstract!Next, Abstract!Steps

(* The Copy that is owed ends its generation. *)
LEMMA Fails ==
  ASSUME SeenTyped, intents # {}, intents' = {},
         gate'.generation = 0, lastGeneration' = lastGeneration,
         progress'.nextCopy = 0, erasing' = erasing
  PROVE  LifeStep
<1> DEFINE m == [LifecycleSeen EXCEPT !.owed = FALSE, !.active = 0, !.settled = 0]
<1>1. LifecycleSeen' = m
  <2>1. /\ LifecycleSeen'.active = 0
        /\ LifecycleSeen'.last = LifecycleSeen.last
        /\ LifecycleSeen'.owed = FALSE
        /\ LifecycleSeen'.settled = 0
        /\ LifecycleSeen'.erasing = LifecycleSeen.erasing
    BY DEF LifecycleSeen
  <2>2. /\ m \in Abstract!Lifecycle
        /\ m.active = 0 /\ m.last = LifecycleSeen.last
        /\ m.owed = FALSE /\ m.settled = 0
        /\ m.erasing = LifecycleSeen.erasing
    BY FailedFields, Zenon DEF SeenTyped
  <2> HIDE DEF m
  <2> QED BY <2>1, <2>2, SameLife, Zenon DEF SeenTyped
<1>2. LifecycleSeen.owed
  BY DEF LifecycleSeen
<1>3. LifecycleSeen' \in Abstract!Failed(LifecycleSeen)
  BY <1>1, <1>2 DEF Abstract!Failed
<1> QED BY <1>3, Zenon DEF LifeStep, Abstract!Next, Abstract!Steps

(* Ingestion is closed for good. *)
LEMMA Erases ==
  ASSUME SeenTyped, gate'.generation = gate.generation,
         lastGeneration' = lastGeneration, intents' = intents,
         progress'.nextCopy = progress.nextCopy, erasing' = TRUE
  PROVE  LifeStep
<1> DEFINE m == [LifecycleSeen EXCEPT !.erasing = TRUE]
<1>1. LifecycleSeen' = m
  <2>1. /\ LifecycleSeen'.active = LifecycleSeen.active
        /\ LifecycleSeen'.last = LifecycleSeen.last
        /\ LifecycleSeen'.owed = LifecycleSeen.owed
        /\ LifecycleSeen'.settled = LifecycleSeen.settled
        /\ LifecycleSeen'.erasing = TRUE
    BY DEF LifecycleSeen
  <2>2. /\ m \in Abstract!Lifecycle
        /\ m.active = LifecycleSeen.active /\ m.last = LifecycleSeen.last
        /\ m.owed = LifecycleSeen.owed /\ m.settled = LifecycleSeen.settled
        /\ m.erasing = TRUE
    BY ErasedFields, Zenon DEF SeenTyped
  <2> HIDE DEF m
  <2> QED BY <2>1, <2>2, SameLife, Zenon DEF SeenTyped
<1>2. LifecycleSeen' \in Abstract!Erased(LifecycleSeen)
  BY <1>1 DEF Abstract!Erased
<1> QED BY <1>2, Zenon DEF LifeStep, Abstract!Next, Abstract!Steps

-----------------------------------------------------------------------------
(* What each action of the coordinator shows *)

(* A lapsed drain that is reopened had no generation. *)
LEMMA RecoveredSame ==
  ASSUME IInv
  PROVE  RecoveredGate.generation = gate.generation
<1>1. CASE DrainLapsed
  BY <1>1, LifecycleFacts DEF RecoveredGate, DrainLapsed, OpenGate
<1>2. CASE ~DrainLapsed
  BY <1>2 DEF RecoveredGate
<1> QED BY <1>1, <1>2

LEMMA RecoveredLife ==
  ASSUME IInv, RecoveredGate.phase # "snapshot"
  PROVE  gate.generation = 0
<1>1. CASE DrainLapsed
  BY <1>1, LifecycleFacts DEF DrainLapsed
<1>2. CASE ~DrainLapsed
  BY <1>2, LifecycleFacts DEF RecoveredGate
<1> QED BY <1>1, <1>2

LEMMA HousekeepSame ==
  ASSUME IInv, Housekeep
  PROVE  gate'.generation = gate.generation
BY RecoveredSame DEF Housekeep

(* A lease that changes leaves the generation alone. *)
LEMMA LeaseSame ==
  ASSUME IInv, NEW x, gate' = [gate EXCEPT !.lease = x]
  PROVE  gate'.generation = gate.generation
BY LifecycleFacts DEF Gate

(* Attaching a job replaces the intent. *)
LEMMA AttachedSame ==
  ASSUME NEW i \in intents, NEW job, intents' = Attached(i, job)
  PROVE  (intents' = {}) <=> (intents = {})
BY DEF Attached

LEMMA DeliveryLife ==
  ASSUME IInv, DeliveryStep
  PROVE  LifeStep
<1> USE DEF deliveryVars, dayVars, captureVars, copyVars
<1>1. PICK d \in Deliveries :
        \/ \E ds \in SUBSET Day, age \in 1..DeliveryRetention : Reserve(d, ds, age)
        \/ \E ds \in SUBSET Day : \E ls \in SUBSET Link : PlanWrite(d, ds, ls)
        \/ \E ds \in SUBSET Day, hasReservation \in BOOLEAN :
             FinishDelivery(d, ds, hasReservation)
        \/ Complete(d)
        \/ Expire(d)
  BY DEF DeliveryStep
<1>2. ASSUME NEW ds \in SUBSET Day, NEW age \in 1..DeliveryRetention,
             Reserve(d, ds, age)
      PROVE  LifeStep
  BY <1>2, HousekeepSame, Unseen DEF Reserve
<1>3. ASSUME NEW ds \in SUBSET Day, NEW ls \in SUBSET Link, PlanWrite(d, ds, ls)
      PROVE  LifeStep
  BY <1>3, Unseen DEF PlanWrite
<1>4. ASSUME NEW ds \in SUBSET Day, NEW hasReservation \in BOOLEAN,
             FinishDelivery(d, ds, hasReservation)
      PROVE  LifeStep
  BY <1>4, Unseen DEF FinishDelivery
<1>5. CASE Complete(d)
  BY <1>5, Unseen DEF Complete
<1>6. CASE Expire(d)
  BY <1>6, Unseen DEF Expire
<1> QED BY <1>1, <1>2, <1>3, <1>4, <1>5, <1>6

LEMMA BeginLife ==
  ASSUME IInv, SeenTyped, NEW c \in Claims, BeginSnapshot(c)
  PROVE  LifeStep
<1>1. gate.generation = 0
  BY RecoveredLife DEF BeginSnapshot
<1>2. gate'.generation = lastGeneration + 1 /\ progress'.nextCopy = 0
  BY DEF BeginSnapshot, NoProgress
<1> QED BY <1>1, <1>2, Begins DEF BeginSnapshot, NotErasing, copyVars

(* The claim of a generation is taken, renewed and given back unseen. *)
LEMMA ClaimLife ==
  ASSUME IInv, NEW c \in Claims,
         \/ ClaimSnapshot(c) \/ RenewSnapshotClaim(c)
         \/ ReleaseSnapshotClaim(c) \/ PrepareManifest(c)
  PROVE  LifeStep
<1> USE DEF dayVars, copyVars
<1>1. CASE ClaimSnapshot(c)
  <2>1. gate'.generation = gate.generation
    BY <1>1, LeaseSame DEF ClaimSnapshot, SetLease
  <2>2. progress'.nextCopy = progress.nextCopy
    BY <1>1, LifecycleFacts DEF ClaimSnapshot, Progress
  <2> QED BY <1>1, <2>1, <2>2, Unseen DEF ClaimSnapshot
<1>2. CASE RenewSnapshotClaim(c)
  <2>1. gate'.generation = gate.generation
    BY <1>2, LeaseSame DEF RenewSnapshotClaim, SetLease
  <2> QED BY <1>2, <2>1, Unseen DEF RenewSnapshotClaim
<1>3. CASE ReleaseSnapshotClaim(c)
  <2>1. gate'.generation = gate.generation
    BY <1>3, LeaseSame DEF ReleaseSnapshotClaim, SetLease
  <2> QED BY <1>3, <2>1, Unseen DEF ReleaseSnapshotClaim
<1>4. CASE PrepareManifest(c)
  <2>1. progress'.nextCopy = progress.nextCopy
    BY <1>4, LifecycleFacts DEF PrepareManifest, Progress
  <2> QED BY <1>4, <2>1, Unseen DEF PrepareManifest
<1> QED BY <1>1, <1>2, <1>3, <1>4

(* A claim is held of an active generation only. *)
LEMMA HeldIsActive ==
  ASSUME IInv, NEW c, HoldsClaim(c)
  PROVE  gate.generation # 0
BY LifecycleFacts DEF HoldsClaim

LEMMA EndLife ==
  ASSUME IInv, SeenTyped, NEW c \in Claims,
         FinishSnapshot(c) \/ \E recorded \in BOOLEAN : FailSnapshot(c, recorded)
  PROVE  LifeStep
<1>1. CASE FinishSnapshot(c)
  <2>1. gate.generation # 0 /\ intents = {}
    BY <1>1, HeldIsActive DEF FinishSnapshot, NoCopyOwed
  <2>2. gate'.generation = 0 /\ progress'.nextCopy = 0
    BY <1>1 DEF FinishSnapshot, OpenGate, NoProgress
  <2> QED BY <1>1, <2>1, <2>2, Ends DEF FinishSnapshot
<1>2. ASSUME NEW recorded \in BOOLEAN, FailSnapshot(c, recorded)
      PROVE  LifeStep
  <2>1. gate.generation # 0 /\ intents = {}
    BY <1>2, HeldIsActive DEF FailSnapshot, NoCopyOwed
  <2>2. gate'.generation = 0 /\ progress'.nextCopy = 0
    BY <1>2 DEF FailSnapshot, AbandonGeneration, OpenGate, NoProgress
  <2> QED BY <1>2, <2>1, <2>2, Ends DEF FailSnapshot
<1> QED BY <1>1, <1>2

(* The intent that is recorded is the only one: any other would be at the *)
(* cursor too.                                                            *)
LEMMA RecordLife ==
  ASSUME IInv, SeenTyped, NEW c \in Claims, RecordCopyIntent(c)
  PROVE  LifeStep
<1>1. gate.generation # 0 /\ ~erasing
  BY HeldIsActive DEF RecordCopyIntent, HoldsCursor, NotErasing
<1>2. intents = {} /\ intents' # {}
  BY DEF RecordCopyIntent, IInv, OneIntentAtCursor
<1> QED BY <1>1, <1>2, Announces DEF RecordCopyIntent, captureVars

(* The one intent is gone once it is settled. *)
LEMMA SettledIsGone ==
  ASSUME IInv, NEW i \in intents, intents' = intents \ {i}
  PROVE  intents # {} /\ intents' = {}
BY LifecycleFacts

LEMMA CopyLife ==
  ASSUME IInv, SeenTyped, NEW c \in Claims, NEW job \in Jobs,
         AttachCopyJob(c, job) \/ SettleCopyDone(c, job) \/ SettleCopyError(c, job)
  PROVE  LifeStep
<1> USE DEF dayVars, captureVars
<1>1. CASE AttachCopyJob(c, job)
  <2>1. (intents' = {}) <=> (intents = {})
    BY <1>1, AttachedSame DEF AttachCopyJob
  <2> QED BY <1>1, <2>1, Unseen DEF AttachCopyJob
<1>2. CASE SettleCopyDone(c, job)
  <2>1. intents # {} /\ intents' = {}
    BY <1>2, SettledIsGone DEF SettleCopyDone
  <2>2. progress'.nextCopy = progress.nextCopy + 1
    BY <1>2, LifecycleFacts DEF SettleCopyDone, Progress
  <2> QED BY <1>2, <2>1, <2>2, Settles DEF SettleCopyDone
<1>3. CASE SettleCopyError(c, job)
  <2>1. intents # {} /\ intents' = {}
    BY <1>3, SettledIsGone DEF SettleCopyError
  <2>2. gate'.generation = 0 /\ progress'.nextCopy = 0
    BY <1>3 DEF SettleCopyError, FailGeneration, AbandonGeneration, OpenGate,
                NoProgress
  <2> QED BY <1>3, <2>1, <2>2, Fails DEF SettleCopyError, FailGeneration
<1> QED BY <1>1, <1>2, <1>3

LEMMA RejectLife ==
  ASSUME IInv, SeenTyped, NEW c \in Claims, RejectCopyIntent(c)
  PROVE  LifeStep
<1>1. intents # {} /\ intents' = {}
  BY SettledIsGone DEF RejectCopyIntent
<1>2. gate'.generation = 0 /\ progress'.nextCopy = 0
  BY DEF RejectCopyIntent, FailGeneration, AbandonGeneration, OpenGate, NoProgress
<1> QED BY <1>1, <1>2, Fails DEF RejectCopyIntent, FailGeneration

LEMMA CheckLife ==
  ASSUME NEW c \in Claims,
         RequireRecovery(c) \/ \E recovery \in BOOLEAN : PrepareCheck(c, recovery)
  PROVE  LifeStep
BY Unseen DEF RequireRecovery, PrepareCheck, captureVars

LEMMA ClaimStepLife ==
  ASSUME IInv, SeenTyped, ClaimStep
  PROVE  LifeStep
BY BeginLife, ClaimLife, EndLife, RecordLife, CopyLife, RejectLife, CheckLife
   DEF ClaimStep

LEMMA OperatorLife ==
  ASSUME IInv, SeenTyped, OperatorStep
  PROVE  LifeStep
<1> USE DEF dayVars, captureVars, copyVars
<1>1. ASSUME NEW ds \in SUBSET Day, ResolveIncompleteDays(ds)
      PROVE  LifeStep
  BY <1>1, Unseen DEF ResolveIncompleteDays
<1>2. CASE AbandonUnstartedCopy
  <2>1. intents # {} /\ intents' = {}
    BY <1>2 DEF AbandonUnstartedCopy
  <2>2. gate'.generation = 0 /\ progress'.nextCopy = 0
    BY <1>2 DEF AbandonUnstartedCopy, FailGeneration, AbandonGeneration, OpenGate,
                NoProgress
  <2> QED BY <1>2, <2>1, <2>2, Fails DEF AbandonUnstartedCopy, FailGeneration
<1>3. CASE ResumeFailed
  BY <1>3, Unseen DEF ResumeFailed
<1>4. CASE ResumeChecks
  BY <1>4, Unseen DEF ResumeChecks
<1> QED BY <1>1, <1>2, <1>3, <1>4 DEF OperatorStep, ResumeBlocked, ResumeInterrupted

(* Dropping the day metadata of a drained organization shows nothing: there *)
(* is no generation whose progress could be lost.                           *)
LEMMA SettleErasureSame ==
  ASSUME IInv, SettleErasure
  PROVE  /\ gate'.generation = gate.generation
         /\ progress'.nextCopy = progress.nextCopy
<1>1. CASE Drained(RecoveredGate)
  BY <1>1, RecoveredSame, LifecycleFacts
     DEF SettleErasure, Drained, OpenGate, NoProgress
<1>2. CASE ~Drained(RecoveredGate)
  BY <1>2, HousekeepSame DEF SettleErasure
<1> QED BY <1>1, <1>2

LEMMA ErasureLife ==
  ASSUME IInv, SeenTyped, ErasureStep
  PROVE  LifeStep
<1> USE DEF dayVars, captureVars, copyVars
<1>1. CASE BeginErasure
  BY <1>1, SettleErasureSame, Erases DEF BeginErasure
<1>2. CASE GetErasureState
  BY <1>2, SettleErasureSame, Unseen DEF GetErasureState
<1>3. ASSUME NEW job \in Jobs, AttachErasureCopyJob(job)
      PROVE  LifeStep
  <2>1. (intents' = {}) <=> (intents = {})
    BY <1>3, AttachedSame DEF AttachErasureCopyJob
  <2> QED BY <1>3, <2>1, Unseen DEF AttachErasureCopyJob
<1>4. ASSUME NEW job \in Jobs, SettleErasureCopyIntent(job)
      PROVE  LifeStep
  <2>1. intents # {} /\ intents' = {}
    BY <1>4, SettledIsGone DEF SettleErasureCopyIntent
  <2> QED BY <1>4, <2>1, SettlesInPlace DEF SettleErasureCopyIntent
<1>5. CASE AbandonErasureSnapshot
  <2>1. gate.generation # 0 /\ intents = {}
    BY <1>5, LifecycleFacts DEF AbandonErasureSnapshot, NoCopyOwed
  <2>2. gate'.generation = 0 /\ progress'.nextCopy = 0
    BY <1>5 DEF AbandonErasureSnapshot, AbandonGeneration, OpenGate, NoProgress
  <2> QED BY <1>5, <2>1, <2>2, Ends DEF AbandonErasureSnapshot
<1> QED BY <1>1, <1>2, <1>3, <1>4, <1>5 DEF ErasureStep

(* The gate closes to deliveries and opens again without a generation. *)
LEMMA ScheduleLife ==
  ASSUME IInv, ScheduleStep
  PROVE  LifeStep
<1> USE DEF dayVars, captureVars, copyVars
<1>1. CASE GetStats
  BY <1>1, HousekeepSame, Unseen DEF GetStats
<1>2. CASE RequestSnapshot
  <2>1. gate'.generation = gate.generation
    <3>1. CASE RecoveredGate.phase = "open"
      BY <1>2, <3>1, RecoveredLife DEF RequestSnapshot
    <3>2. CASE RecoveredGate.phase # "open"
      BY <1>2, <3>2, RecoveredSame DEF RequestSnapshot
    <3> QED BY <3>1, <3>2
  <2> QED BY <1>2, <2>1, Unseen DEF RequestSnapshot
<1>3. CASE BeginEmptySnapshot
  <2>1. gate'.generation = gate.generation
    BY <1>3, LifecycleFacts
       DEF BeginEmptySnapshot, RecoveredGate, DrainLapsed, OpenGate
  <2> QED BY <1>3, <2>1, Unseen DEF BeginEmptySnapshot
<1>4. CASE ScheduleSnapshot
  BY <1>4, Unseen DEF ScheduleSnapshot
<1>5. CASE ScheduleSnapshotContinuation
  BY <1>5, Unseen DEF ScheduleSnapshotContinuation
<1>6. CASE Alarm
  <2>1. Housekeep
    BY <1>6 DEF Alarm
  <2> QED BY <1>6, <2>1, HousekeepSame, Unseen DEF Alarm
<1>7. CASE WakeupConsumed
  BY <1>7, Unseen DEF WakeupConsumed
<1> QED BY <1>1, <1>2, <1>3, <1>4, <1>5, <1>6, <1>7 DEF ScheduleStep

LEMMA NextLife ==
  ASSUME IInv, IInv', [Next]_vars
  PROVE  LifeStep
<1> USE DEF deliveryVars, dayVars, captureVars, copyVars, scheduleVars
<1>1. SeenTyped
  BY SeenIsLife DEF IInv
<1>2. CASE Tick
  <2>1. gate'.generation = gate.generation
    BY <1>2, LifecycleFacts DEF Tick, Gate
  <2> QED BY <1>2, <2>1, Unseen DEF Tick
<1>3. CASE Midnight
  BY <1>3, Unseen DEF Midnight
<1>4. CASE UNCHANGED vars
  BY <1>4, Unseen DEF vars
<1> QED BY <1>1, <1>2, <1>3, <1>4, DeliveryLife, ClaimStepLife, OperatorLife,
           ErasureLife, ScheduleLife DEF Next

LEMMA InitLife ==
  ASSUME Init
  PROVE  Abstract!Init
BY DEF Init, Abstract!Init, Abstract!NewLife, LifecycleSeen, OpenGate, NoProgress

(* The coordinator of an organization, with all its calls in any order,    *)
(* shows the runners, the capacity object and the erasure workflow nothing *)
(* but a lifecycle: generations one at a time and numbered upwards, each   *)
(* ending once and owing no Copy then, none begun while an erasure is      *)
(* under way.                                                              *)
THEOREM CoordinatorImplementsLifecycle == Spec => ImplementsLifecycle
<1>1. IInv /\ IInv' /\ [Next]_vars => [Abstract!Next]_LifecycleSeen
  BY NextLife DEF LifeStep
<1> QED BY <1>1, InitLife, Invariance, PTL
        DEF Spec, ImplementsLifecycle, Abstract!Spec

-----------------------------------------------------------------------------
(* What the modules that compose the coordinator with its callers take from *)
(* here.                                                                    *)

StatePromises == StableInput /\ CaptureSafe /\ TablesAgree

StepPromises ==
  /\ [ForgetsNoUnpublishedDay]_vars
  /\ [ErasureReady => ErasureReady']_vars
  /\ [Abstract!Next]_LifecycleSeen

LEMMA InvariantPromises ==
  ASSUME IInv
  PROVE  StatePromises
BY DEF IInv, StatePromises, CaptureSafe, TablesAgree

LEMMA StepsKeepPromises ==
  ASSUME IInv, IInv', [Next]_vars
  PROVE  StepPromises
<1>1. LifeStep
  BY NextLife
<1>2. CASE UNCHANGED vars
  BY <1>1, <1>2 DEF StepPromises, LifeStep
<1>3. CASE Next
  BY <1>1, <1>3, StepKeepsDirtyDays, ReadyStaysReady
     DEF StepPromises, LifeStep
<1> QED BY <1>2, <1>3
=============================================================================
