---------------------- MODULE AgentDeliveryCoordinator ----------------------
(***************************************************************************)
(* The AgentDeliveryCoordinator durable object: one instance per           *)
(* organization.  It hands out write permits to deliveries in sequence     *)
(* order, remembers which days completed or abandoned writes left dirty,   *)
(* and closes its gate while a snapshot of dirty days is copied, settled   *)
(* and published.                                                          *)
(*                                                                         *)
(* Every RPC of the object runs to completion before the next one starts,  *)
(* so each is one action.  Its callers are left open: any caller may call  *)
(* any RPC at any time, in any order and any number of times, which covers *)
(* lost replies, retries and stale callers.  An RPC that throws changes    *)
(* nothing, or only what its separate first transactions (recovery of a    *)
(* lapsed drain, pruning) changed; the second case is GetStats.            *)
(*                                                                         *)
(* Every stored deadline is kept as the time left until it, which Tick     *)
(* counts down: "now >= deadline" is "time left = 0".  Calendar days pass  *)
(* independently, by Midnight.                                             *)
(***************************************************************************)
EXTENDS DirtyDayGraph

CONSTANTS
  Deliveries,          \* delivery ids, each with one payload hash
  Claims,              \* random ids snapshot runners claim a generation with
  NoClaim,             \* not a claim
  Jobs,                \* Tinybird Copy job ids
  NoJob,               \* an intent whose job is not known yet
  TargetCount,         \* number of AGENT_SNAPSHOT_TARGETS
  MaxCopyDays,         \* MAX_AGENT_SNAPSHOT_COPY_DAYS: days per Copy chunk
  AttemptMultiplier,   \* AGENT_SNAPSHOT_COPY_ATTEMPT_MULTIPLIER
  MaxActive,           \* MAX_ACTIVE_AGENT_DELIVERIES
  MaxDirtyDays,        \* MAX_AGENT_DIRTY_DAYS, also the link node limit
  RetentionDays,       \* days before today that facts are retained
  LastDay,             \* bound: the calendar stops at this day
  DeliveryRetention,   \* MAX_AGENT_DELIVERY_RETENTION_MS
  SnapshotLease,       \* MAX_AGENT_SNAPSHOT_LEASE_MS
  Debounce,            \* AGENT_SNAPSHOT_DEBOUNCE_MS
  Dispatch,            \* DISPATCH_RECOVERY_MS
  FirstCheck,          \* SNAPSHOT_FIRST_CHECK_MS
  CheckDelay,          \* back-off between two checks of one Copy
  MaxStatusChecks,     \* MAX_STATUS_CHECKS
  MaxRecoveryChecks,   \* MAX_RECOVERY_CHECKS
  MaxSequence,         \* Number.MAX_SAFE_INTEGER, as the sequence limit
  MaxGeneration        \* Number.MAX_SAFE_INTEGER, as the generation limit

ASSUME ConstantsAssumption ==
  /\ NoClaim \notin Claims
  /\ NoJob \notin Jobs
  /\ TargetCount \in Nat \ {0}
  /\ MaxCopyDays \in Nat \ {0}
  /\ AttemptMultiplier \in Nat
  /\ MaxActive \in Nat
  /\ MaxDirtyDays \in Nat
  /\ RetentionDays \in Nat
  /\ LastDay \in Nat /\ RetentionDays <= LastDay
  /\ DeliveryRetention \in Nat \ {0}
  /\ SnapshotLease \in Nat \ {0}
  /\ Debounce \in Nat \ {0}
  /\ Dispatch \in Nat \ {0}
  /\ FirstCheck \in Nat \ {0}
  /\ CheckDelay \in Nat \ {0}
  /\ MaxStatusChecks \in Nat
  /\ MaxRecoveryChecks \in Nat
  /\ MaxSequence \in Nat \ {0}
  /\ MaxGeneration \in Nat

Day == 0..LastDay
Link == {l \in Day \X Day : l[1] < l[2]}

VARIABLES
  today,           \* the current UTC day
  lastSequence,    \* coordinator_state.last_delivery_sequence
  sequence,        \* active_deliveries: 0 for a delivery without reservation
  days,            \* active_delivery_days of each delivery
  ttl,             \* time left until each reservation's expires_at_ms
  dirty,           \* dirty_days
  incomplete,      \* incomplete_days
  links,           \* dirty_day_links
  lastGeneration,  \* coordinator_state.last_snapshot_generation
  gate,            \* gate_phase, active_snapshot_generation, gate_expires_at_ms
  snapshotDays,    \* snapshot_days of the active generation
  progress,        \* snapshot_progress of the active generation
  intents,         \* snapshot_copy_intents
  check,           \* snapshot_checks
  failure,         \* snapshot_failure's generation, 0 for none
  erasing,         \* the agent_ingestion_erasure tombstone
  alarm,           \* time left until the alarm, NoAlarm when not set
  wake,            \* snapshot_wake_at_ms, NoAlarm when not set
  wakeups          \* an agent-snapshot message is in the snapshot queue

deliveryVars == <<lastSequence, sequence, days, ttl>>
dayVars == <<dirty, incomplete, links>>
captureVars == <<lastGeneration, gate, snapshotDays, progress>>
copyVars == <<intents, check, failure>>
scheduleVars == <<alarm, wake, wakeups>>
vars == <<today, deliveryVars, dayVars, captureVars, copyVars, erasing,
          scheduleVars>>

-----------------------------------------------------------------------------
(* Stored shapes *)

NoAlarm == -1

OpenGate == [phase |-> "open", generation |-> 0, lease |-> 0]
Gate == [phase : {"open", "draining", "snapshot"},
         generation : 0..MaxGeneration,
         lease : 0..SnapshotLease]

NoProgress == [claim |-> NoClaim, nextCopy |-> 0, manifest |-> FALSE]
Progress == [claim : Claims \cup {NoClaim}, nextCopy : Nat, manifest : BOOLEAN]

Intent == [generation : 1..MaxGeneration,
           target : 0..TargetCount - 1,
           attempt : Nat,
           job : Jobs \cup {NoJob}]

NewCheck(generation, copy, wait) ==
  [generation |-> generation, copy |-> copy, wait |-> wait,
   status |-> 0, recovery |-> 0, required |-> FALSE, blocked |-> "no"]
NoCheck == NewCheck(0, 0, 0)
Check == [generation : 0..MaxGeneration,
          copy : Nat,
          wait : 0..FirstCheck + CheckDelay,
          status : 0..MaxStatusChecks,
          recovery : 0..MaxRecoveryChecks,
          required : BOOLEAN,
          blocked : {"no", "status budget", "receipt not recovered"}]

TypeOK ==
  /\ today \in Day
  /\ lastSequence \in 1..MaxSequence
  /\ sequence \in [Deliveries -> 0..MaxSequence]
  /\ days \in [Deliveries -> SUBSET Day]
  /\ ttl \in [Deliveries -> 0..DeliveryRetention]
  /\ dirty \in SUBSET Day
  /\ incomplete \in SUBSET Day
  /\ links \in SUBSET Link
  /\ lastGeneration \in 0..MaxGeneration
  /\ gate \in Gate
  /\ snapshotDays \in SUBSET Day
  /\ progress \in Progress
  /\ intents \in SUBSET Intent
  /\ check \in Check
  /\ failure \in 0..MaxGeneration
  /\ erasing \in BOOLEAN
  /\ alarm \in Int
  /\ wake \in Int
  /\ wakeups \in BOOLEAN

Init ==
  /\ today = RetentionDays
  /\ lastSequence = 1
  /\ sequence = [d \in Deliveries |-> 0]
  /\ days = [d \in Deliveries |-> {}]
  /\ ttl = [d \in Deliveries |-> 0]
  /\ dirty = {} /\ incomplete = {} /\ links = {}
  /\ lastGeneration = 0
  /\ gate = OpenGate
  /\ snapshotDays = {}
  /\ progress = NoProgress
  /\ intents = {}
  /\ check = NoCheck
  /\ failure = 0
  /\ erasing = FALSE
  /\ alarm = NoAlarm
  /\ wake = NoAlarm
  /\ wakeups = FALSE

-----------------------------------------------------------------------------
(* Retention and the two transactions most RPCs start with *)

InWindow(d) == today - RetentionDays <= d /\ d <= today
Window == {d \in Day : InWindow(d)}

\* Variant with a bug: the oldest retained day is dropped.
PrunedTooEarly(D, captured) ==
  {d \in D : (today - RetentionDays < d /\ d <= today) \/ d \in captured}

Pruned(D, captured) == {d \in D : InWindow(d) \/ d \in captured}

(* pruneRetainedDayMetadata, over what the calling transaction wrote. *)
Prune(newDirty, newIncomplete, captured) ==
  /\ dirty' = Pruned(newDirty, captured)
  /\ incomplete' = Pruned(newIncomplete, captured)
  /\ links' = {l \in links : InWindow(l[1]) /\ InWindow(l[2])}

(* assertIngestionNotErasing, and its variant with the check dropped. *)
NotErasingUnchecked == TRUE
NotErasing == ~erasing

(* recoverExpiredSnapshotGate: only a drain is abandoned when its lease    *)
(* runs out; a snapshot keeps its gate until a runner ends it.             *)
DrainLapsed == gate.phase = "draining" /\ gate.lease = 0
RecoveredGate == IF DrainLapsed THEN OpenGate ELSE gate
RecoveredDays == IF DrainLapsed THEN {} ELSE snapshotDays

Housekeep ==
  /\ gate' = RecoveredGate
  /\ snapshotDays' = RecoveredDays
  /\ Prune(dirty, incomplete, RecoveredDays)

GetStats ==
  /\ Housekeep
  /\ UNCHANGED <<today, deliveryVars, lastGeneration, progress, copyVars,
                 erasing, scheduleVars>>

-----------------------------------------------------------------------------
(* Scheduling the next snapshot *)

Blocked == check.blocked # "no"
Larger(a, b) == IF a > b THEN a ELSE b

\* Variant with a bug: an alarm is only moved, never set.
MoveAlarmOnly ==
  /\ alarm' = (IF alarm = NoAlarm THEN NoAlarm ELSE Debounce)
  /\ UNCHANGED <<wake, wakeups>>

(* scheduleSnapshot, called by finishDelivery: debounce from the first *)
(* dirty day, and never move an alarm that is already set.             *)
ScheduleSnapshotEffect ==
  \/ /\ erasing \/ failure # 0 \/ Blocked
     /\ alarm' = NoAlarm
     /\ UNCHANGED <<wake, wakeups>>
  \/ /\ ~erasing /\ failure = 0 /\ ~Blocked
     /\ IF alarm = NoAlarm
          THEN alarm' = Debounce /\ wake' = Debounce
          ELSE UNCHANGED <<alarm, wake>>
     /\ UNCHANGED wakeups

ScheduleSnapshot ==
  /\ ScheduleSnapshotEffect
  /\ UNCHANGED <<today, deliveryVars, dayVars, captureVars, copyVars, erasing>>

(* scheduleAgentSnapshotContinuation, after the calling RPC's own writes. *)
ContinuationEffect ==
  /\ IF failure' # 0 \/ check'.blocked # "no"
       THEN alarm' = NoAlarm /\ wake' = wake
       ELSE /\ wake' = IF check' = NoCheck THEN FirstCheck ELSE check'.wait
            /\ alarm' = Larger(1, wake')
  /\ UNCHANGED wakeups

ScheduleSnapshotContinuation ==
  /\ ~erasing
  /\ UNCHANGED <<today, deliveryVars, dayVars, captureVars, copyVars, erasing>>
  /\ ContinuationEffect

(* alarm and publishAgentSnapshot: drop the alarm when there is nothing a  *)
(* snapshot could publish, wait for the wake time or for the claim lease,  *)
(* and otherwise send the queue message with a recovery alarm behind it.   *)
DueWake == IF check # NoCheck THEN check.wait ELSE wake

Alarm ==
  /\ alarm = 0
  /\ Housekeep
  /\ \/ /\ erasing
        /\ alarm' = NoAlarm
        /\ UNCHANGED <<wake, wakeups>>
     \/ /\ ~erasing
        /\ \/ failure # 0
           \/ Blocked
           \/ gate'.phase # "snapshot"
                /\ Cardinality(dirty') <= Cardinality(incomplete')
        /\ alarm' = NoAlarm /\ wake' = NoAlarm
        /\ UNCHANGED wakeups
     \/ /\ ~erasing /\ failure = 0 /\ ~Blocked
        /\ gate'.phase = "snapshot"
             \/ Cardinality(dirty') > Cardinality(incomplete')
        /\ UNCHANGED wake
        /\ \/ /\ DueWake > 0
              /\ alarm' = DueWake
              /\ UNCHANGED wakeups
           \/ /\ DueWake <= 0 /\ gate'.phase = "snapshot" /\ gate'.lease > 0
              /\ alarm' = gate'.lease
              /\ UNCHANGED wakeups
           \/ /\ DueWake <= 0 /\ ~(gate'.phase = "snapshot" /\ gate'.lease > 0)
              /\ alarm' = Dispatch
              /\ wakeups' = TRUE
  /\ UNCHANGED <<today, deliveryVars, lastGeneration, progress, copyVars,
                 erasing>>

(* The snapshot queue's message is acknowledged. *)
WakeupConsumed ==
  /\ wakeups
  /\ wakeups' = FALSE
  /\ UNCHANGED <<today, deliveryVars, dayVars, captureVars, copyVars, erasing,
                 alarm, wake>>

-----------------------------------------------------------------------------
(* Deliveries: reservation, write permit, plan, completion, expiry *)

Active == {d \in Deliveries : sequence[d] > 0}
ActiveDays == UNION {days[d] : d \in Deliveries}

(* earliestDeliveryId: the one delivery that may write. *)
Earliest(d) ==
  /\ d \in Active
  /\ \A other \in Active : sequence[d] <= sequence[other]

HoldsPermit(d) == Earliest(d) /\ ttl[d] > 0

(* reserve of a delivery that has no reservation.  A closed gate or a full *)
(* table answers null, which is GetStats.                                  *)
Reserve(d, ds, age) ==
  /\ sequence[d] = 0
  /\ NotErasing
  /\ ds # {} /\ ds \subseteq Window
  /\ RecoveredGate.phase = "open"
  /\ Cardinality(Active) < MaxActive
  /\ lastSequence < MaxSequence
  /\ Housekeep
  /\ Cardinality(dirty' \cup ActiveDays \cup ds) <= MaxDirtyDays
  /\ lastSequence' = lastSequence + 1
  /\ sequence' = [sequence EXCEPT ![d] = lastSequence + 1]
  /\ days' = [days EXCEPT ![d] = ds]
  /\ ttl' = [ttl EXCEPT ![d] = age]
  /\ UNCHANGED <<today, lastGeneration, progress, copyVars, erasing,
                 scheduleVars>>

(* replaceDirtyDays and linkDirtyDays are two transactions of planWrite:   *)
(* the first stands when the second exceeds the link capacity.             *)
LinkNodes(ls) == {l[1] : l \in ls} \cup {l[2] : l \in ls}

WithinLinkCapacity(ls) ==
  /\ Cardinality(LinkNodes(ls)) <= MaxDirtyDays
  /\ Cardinality(ls) <= (MaxDirtyDays * (MaxDirtyDays - 1)) \div 2

PlanWrite(d, ds, ls) ==
  /\ HoldsPermit(d)
  /\ ds \subseteq Window
  /\ days' = [days EXCEPT ![d] = ds]
  /\ Cardinality(dirty \cup UNION {days'[x] : x \in Deliveries}) <= MaxDirtyDays
  /\ LinkNodes(ls) \subseteq ds
  /\ links' = IF WithinLinkCapacity(links \cup ls) THEN links \cup ls ELSE links
  /\ UNCHANGED <<today, lastSequence, sequence, ttl, dirty, incomplete,
                 captureVars, copyVars, erasing, scheduleVars>>

DeleteReservation(d) ==
  /\ sequence' = [sequence EXCEPT ![d] = 0]
  /\ days' = [days EXCEPT ![d] = {}]
  /\ ttl' = [ttl EXCEPT ![d] = 0]
  /\ UNCHANGED lastSequence

CompleteEffect(d) ==
  /\ d \in Active
  /\ Prune(dirty \cup days[d], incomplete, snapshotDays)
  /\ DeleteReservation(d)

(* complete commits even when finishDelivery then finds that its days      *)
(* differ from the caller's plan, or stops before scheduling.              *)
Complete(d) ==
  /\ CompleteEffect(d)
  /\ UNCHANGED <<today, captureVars, copyVars, erasing, scheduleVars>>

FinishDelivery(d, planned, hasReservation) ==
  /\ IF hasReservation
       THEN CompleteEffect(d) /\ days[d] = planned
       ELSE UNCHANGED <<deliveryVars, dayVars>>
  /\ IF planned # {} THEN ScheduleSnapshotEffect ELSE UNCHANGED scheduleVars
  /\ UNCHANGED <<today, captureVars, copyVars, erasing>>

Expire(d) ==
  /\ d \in Active
  /\ ttl[d] = 0
  /\ Prune(dirty \cup days[d], incomplete \cup days[d], snapshotDays)
  /\ DeleteReservation(d)
  /\ UNCHANGED <<today, captureVars, copyVars, erasing, scheduleVars>>

(* The operator's repair of days whose writes were abandoned. *)
ResolveIncompleteDays(ds) ==
  /\ ds # {} /\ ds \subseteq incomplete
  /\ incomplete' = incomplete \ ds
  /\ UNCHANGED <<today, deliveryVars, dirty, links, captureVars, copyVars,
                 erasing, scheduleVars>>

-----------------------------------------------------------------------------
(* Snapshots: drain, capture, claim, finish, fail *)

(* A recorded failure waits for the operator. *)
NoFailure == failure = 0

(* requestSnapshot closes the gate to new reservations. *)
RequestSnapshot ==
  /\ NotErasing /\ NoFailure
  /\ Prune(dirty, incomplete, RecoveredDays)
  /\ snapshotDays' = RecoveredDays
  /\ RecoveredGate.phase # "snapshot"
  /\ dirty' # {}
  /\ gate' = IF RecoveredGate.phase = "open"
               THEN [phase |-> "draining", generation |-> 0,
                     lease |-> SnapshotLease]
               ELSE RecoveredGate
  /\ UNCHANGED <<today, deliveryVars, lastGeneration, progress, copyVars,
                 erasing, scheduleVars>>

(* No reservation is left; the variant disregards expired ones. *)
OnlyExpiredLeft == \A d \in Active : ttl[d] = 0
DeliveriesDrained == Active = {}

(* beginSnapshot captures the selected days of a drained organization.     *)
(* Nothing it checks requires the drain still to be in force.              *)
BeginSnapshot(c) ==
  /\ NotErasing /\ NoFailure
  /\ RecoveredGate.phase # "snapshot"
  /\ DeliveriesDrained
  /\ lastGeneration < MaxGeneration
  /\ Prune(dirty, incomplete, RecoveredDays)
  /\ CompleteComponents(dirty', incomplete', links') # {}
  /\ \E selected \in SUBSET CompleteComponents(dirty', incomplete', links') :
       /\ IsSelection(selected, CompleteComponents(dirty', incomplete', links'))
       /\ snapshotDays' = UNION selected
  /\ lastGeneration' = lastGeneration + 1
  /\ gate' = [phase |-> "snapshot", generation |-> lastGeneration + 1,
              lease |-> SnapshotLease]
  /\ progress' = [NoProgress EXCEPT !.claim = c]
  /\ UNCHANGED <<today, deliveryVars, copyVars, erasing, scheduleVars>>

(* With no publishable day beginSnapshot reopens the gate and throws. *)
BeginEmptySnapshot ==
  /\ NotErasing /\ NoFailure
  /\ RecoveredGate.phase # "snapshot"
  /\ DeliveriesDrained
  /\ Prune(dirty, incomplete, RecoveredDays)
  /\ CompleteComponents(dirty', incomplete', links') = {}
  /\ gate' = OpenGate
  /\ snapshotDays' = RecoveredDays
  /\ UNCHANGED <<today, deliveryVars, lastGeneration, progress, copyVars,
                 erasing, scheduleVars>>

(* assertAgentSnapshotClaim; the variants forget the lease and the owner. *)
HoldsLapsedClaim(c) == gate.phase = "snapshot" /\ progress.claim = c
AnyoneHoldsClaim(c) == gate.phase = "snapshot" /\ gate.lease > 0
HoldsClaim(c) ==
  /\ gate.phase = "snapshot"
  /\ gate.lease > 0
  /\ progress.claim = c

SetLease(lease) == gate' = [gate EXCEPT !.lease = lease]

(* Only the owner may claim before the lease runs out; the variants let *)
(* anyone, and never anyone else.                                       *)
AnyoneMayClaim(c) == TRUE
OwnerMayClaim(c) == progress.claim = c
MayClaim(c) == progress.claim = c \/ gate.lease = 0

ClaimSnapshot(c) ==
  /\ NotErasing
  /\ gate.phase = "snapshot"
  /\ MayClaim(c)
  /\ progress' = [progress EXCEPT !.claim = c]
  /\ SetLease(SnapshotLease)
  /\ UNCHANGED <<today, deliveryVars, dayVars, lastGeneration, snapshotDays,
                 copyVars, erasing, scheduleVars>>

RenewSnapshotClaim(c) ==
  /\ NotErasing
  /\ HoldsClaim(c)
  /\ SetLease(SnapshotLease)
  /\ UNCHANGED <<today, deliveryVars, dayVars, lastGeneration, snapshotDays,
                 progress, copyVars, erasing, scheduleVars>>

ReleaseSnapshotClaim(c) ==
  /\ HoldsClaim(c)
  /\ SetLease(0)
  /\ UNCHANGED <<today, deliveryVars, dayVars, lastGeneration, snapshotDays,
                 progress, copyVars, erasing, scheduleVars>>

(* assertAgentSnapshotActive, for a caller that also holds the claim. *)
CapturedRetained == snapshotDays \subseteq Window

CopyChunks ==
  IF Cardinality(snapshotDays) <= MaxCopyDays
    THEN 1
    ELSE (Cardinality(snapshotDays) + MaxCopyDays - 1) \div MaxCopyDays
CopyCount == CopyChunks * TargetCount
CopiesComplete == progress.nextCopy = CopyCount

PrepareManifest(c) ==
  /\ NotErasing
  /\ HoldsClaim(c)
  /\ CapturedRetained
  /\ CopiesComplete
  /\ progress' = [progress EXCEPT !.manifest = TRUE]
  /\ UNCHANGED <<today, deliveryVars, dayVars, lastGeneration, gate,
                 snapshotDays, copyVars, erasing, scheduleVars>>

(* No Copy is owed; the variant does not look. *)
CopiesNotCounted == TRUE
NoCopyOwed == intents = {}

(* finishAgentSnapshot: the captured days are published, so they and the   *)
(* links among them are forgotten and the gate opens.                      *)
FinishSnapshot(c) ==
  /\ HoldsClaim(c)
  /\ CapturedRetained
  /\ CopiesComplete
  /\ NoCopyOwed
  /\ dirty' = Pruned(dirty \ snapshotDays, {})
  /\ incomplete' = Pruned(incomplete, {})
  /\ links' = {l \in links : /\ ~(l[1] \in snapshotDays /\ l[2] \in snapshotDays)
                             /\ InWindow(l[1]) /\ InWindow(l[2])}
  /\ snapshotDays' = {}
  /\ progress' = NoProgress
  /\ gate' = OpenGate
  /\ check' = NoCheck
  /\ UNCHANGED <<today, deliveryVars, lastGeneration, intents, failure,
                 erasing, scheduleVars>>

\* Variant with a bug: the check record outlives its generation.
AbandonGenerationOnly ==
  /\ snapshotDays' = {}
  /\ progress' = NoProgress
  /\ gate' = OpenGate
  /\ Prune(dirty, incomplete, {})
  /\ check' = check

(* failAgentSnapshot: the captured days stay dirty for a later generation. *)
AbandonGeneration ==
  /\ snapshotDays' = {}
  /\ progress' = NoProgress
  /\ gate' = OpenGate
  /\ Prune(dirty, incomplete, {})
  /\ check' = NoCheck

FailSnapshot(c, recorded) ==
  /\ HoldsClaim(c)
  /\ NoCopyOwed
  /\ AbandonGeneration
  /\ IF recorded
       THEN failure = 0 /\ failure' = gate.generation
       ELSE UNCHANGED failure
  /\ UNCHANGED <<today, deliveryVars, lastGeneration, intents, erasing,
                 scheduleVars>>

-----------------------------------------------------------------------------
(* Copy intents: one per target and chunk, in cursor order *)

(* snapshotCopyKey: the target and attempt number at a cursor position. *)
CopyKey(copy) ==
  [target |-> copy % TargetCount,
   attempt |-> IF CopyChunks = 1
                 THEN gate.generation
                 ELSE gate.generation * AttemptMultiplier
                        + copy \div TargetCount]

AtCursor(intent) ==
  /\ intent.generation = gate.generation
  /\ intent.target = CopyKey(progress.nextCopy).target
  /\ intent.attempt = CopyKey(progress.nextCopy).attempt

(* assertSnapshotCopyCursor *)
HoldsCursor(c) == HoldsClaim(c) /\ progress.nextCopy < CopyCount

RecordCopyIntent(c) ==
  /\ NotErasing
  /\ HoldsCursor(c)
  /\ ~\E i \in intents : AtCursor(i)
  /\ intents' = intents \cup
       {[generation |-> gate.generation,
         target |-> CopyKey(progress.nextCopy).target,
         attempt |-> CopyKey(progress.nextCopy).attempt,
         job |-> NoJob]}
  /\ check' = NewCheck(gate.generation, progress.nextCopy, FirstCheck)
  /\ UNCHANGED <<today, deliveryVars, dayVars, captureVars, failure, erasing,
                 scheduleVars>>

Attached(i, job) == (intents \ {i}) \cup {[i EXCEPT !.job = job]}

AttachCopyJob(c, job) ==
  /\ HoldsCursor(c)
  /\ \E i \in intents :
       /\ AtCursor(i) /\ i.job \in {job, NoJob}
       /\ intents' = Attached(i, job)
  /\ check' = IF check = NoCheck THEN check
                                 ELSE [check EXCEPT !.required = FALSE]
  /\ UNCHANGED <<today, deliveryVars, dayVars, captureVars, failure, erasing,
                 scheduleVars>>

SettleCopyDone(c, job) ==
  /\ HoldsCursor(c)
  /\ \E i \in intents :
       AtCursor(i) /\ i.job = job /\ intents' = intents \ {i}
  /\ progress' = [progress EXCEPT !.nextCopy = @ + 1]
  /\ check' = NoCheck
  /\ UNCHANGED <<today, deliveryVars, dayVars, lastGeneration, gate,
                 snapshotDays, failure, erasing, scheduleVars>>

(* A failed Copy ends its generation.  The record of the failure is an     *)
(* INSERT into a singleton table: were one already there, the whole        *)
(* transaction would roll back.                                            *)
FailGeneration ==
  /\ AbandonGeneration
  /\ failure = 0 /\ failure' = gate.generation
  /\ UNCHANGED <<today, deliveryVars, lastGeneration, erasing>>

SettleCopyError(c, job) ==
  /\ HoldsCursor(c)
  /\ \E i \in intents :
       AtCursor(i) /\ i.job = job /\ intents' = intents \ {i}
  /\ FailGeneration
  /\ UNCHANGED scheduleVars

RejectCopyIntent(c) ==
  /\ HoldsCursor(c)
  /\ \E i \in intents :
       AtCursor(i) /\ i.job = NoJob /\ intents' = intents \ {i}
  /\ FailGeneration
  /\ UNCHANGED scheduleVars

(* prepareSnapshotCheck: one observation of the Copy at the cursor, or of  *)
(* the manifest when the cursor is past the last Copy.                     *)
CurrentCheck ==
  IF check = NoCheck THEN NewCheck(gate.generation, progress.nextCopy, 0)
                     ELSE check

BudgetOverspent(spent, budget) == spent > budget  \* variant: one too many
BudgetSpent(spent, budget) == spent >= budget

Observed(current, recovery) ==
  IF current.blocked # "no" \/ current.wait > 0 THEN current
  ELSE IF recovery /\ BudgetSpent(current.recovery, MaxRecoveryChecks)
    THEN [current EXCEPT !.blocked = "receipt not recovered"]
  ELSE IF ~recovery /\ BudgetSpent(current.status, MaxStatusChecks)
    THEN [current EXCEPT !.blocked = "status budget"]
  ELSE [current EXCEPT !.wait = CheckDelay,
                       !.recovery = @ + (IF recovery THEN 1 ELSE 0),
                       !.status = @ + (IF recovery THEN 0 ELSE 1),
                       !.required = recovery]

PrepareCheck(c, recovery) ==
  /\ HoldsClaim(c)
  /\ CurrentCheck.generation = gate.generation
  /\ CurrentCheck.copy = progress.nextCopy
  /\ check' = Observed(CurrentCheck, recovery)
  /\ UNCHANGED <<today, deliveryVars, dayVars, captureVars, intents, failure,
                 erasing>>
  /\ ContinuationEffect

RequireRecovery(c) ==
  /\ HoldsClaim(c)
  /\ check # NoCheck
  /\ check' = [check EXCEPT !.required = TRUE]
  /\ UNCHANGED <<today, deliveryVars, dayVars, captureVars, intents, failure,
                 erasing, scheduleVars>>

-----------------------------------------------------------------------------
(* resumeSnapshot: the operator restarts a failed or blocked generation *)

AbandonUnstartedCopy ==
  /\ ~erasing
  /\ gate.phase = "snapshot" /\ gate.lease = 0
  /\ check.generation = gate.generation
  /\ check.blocked = "receipt not recovered"
  /\ \E i \in intents :
       i.generation = gate.generation /\ i.job = NoJob /\ intents = {i}
  /\ intents' = {}
  /\ FailGeneration
  /\ alarm' = NoAlarm
  /\ UNCHANGED <<wake, wakeups>>

ResumeFailed ==
  /\ ~erasing
  /\ failure # 0
  /\ failure' = 0
  /\ UNCHANGED <<today, deliveryVars, dayVars, captureVars, intents, check,
                 erasing>>
  /\ ContinuationEffect

(* resumeSnapshotChecks commits before the next run is scheduled, so a     *)
(* stop in between leaves a resumed generation that nothing wakes up.      *)
ResumeChecks ==
  /\ ~erasing
  /\ failure = 0
  /\ gate.phase = "snapshot" /\ gate.lease = 0
  /\ check.generation = gate.generation
  /\ Blocked
  /\ check' = [check EXCEPT !.status = 0, !.recovery = 0, !.wait = 0,
                            !.blocked = "no"]
  /\ UNCHANGED <<today, deliveryVars, dayVars, captureVars, intents, failure,
                 erasing>>
ResumeBlocked == ResumeChecks /\ ContinuationEffect
ResumeInterrupted == ResumeChecks /\ UNCHANGED scheduleVars

-----------------------------------------------------------------------------
(* Organization erasure *)

(* settleErasureState: once nothing is active any more, the day metadata   *)
(* is dropped and the gate is opened for good.                             *)
Drained(g) == Active = {} /\ g.generation = 0 /\ intents = {}
ErasureReady == erasing /\ Drained(RecoveredGate)

SettleErasure ==
  IF Drained(RecoveredGate)
    THEN /\ dirty' = {} /\ incomplete' = {} /\ links' = {}
         /\ days' = [d \in Deliveries |-> {}]
         /\ snapshotDays' = {} /\ progress' = NoProgress
         /\ gate' = OpenGate
    ELSE Housekeep /\ UNCHANGED <<days, progress>>

BeginErasure ==
  /\ erasing' = TRUE
  /\ SettleErasure
  /\ alarm' = NoAlarm
  /\ UNCHANGED <<today, lastSequence, sequence, ttl, lastGeneration, copyVars,
                 wake, wakeups>>

GetErasureState ==
  /\ erasing
  /\ SettleErasure
  /\ UNCHANGED <<today, lastSequence, sequence, ttl, lastGeneration, copyVars,
                 erasing, scheduleVars>>

AttachErasureCopyJob(job) ==
  /\ erasing
  /\ \E i \in intents : i.job \in {job, NoJob} /\ intents' = Attached(i, job)
  /\ UNCHANGED <<today, deliveryVars, dayVars, captureVars, check, failure,
                 erasing, scheduleVars>>

SettleErasureCopyIntent(job) ==
  /\ erasing
  /\ \E i \in intents : i.job = job /\ intents' = intents \ {i}
  /\ UNCHANGED <<today, deliveryVars, dayVars, captureVars, check, failure,
                 erasing, scheduleVars>>

AbandonErasureSnapshot ==
  /\ erasing
  /\ NoCopyOwed
  /\ gate.phase = "snapshot"
  /\ AbandonGeneration
  /\ UNCHANGED <<today, deliveryVars, lastGeneration, intents, failure,
                 erasing, scheduleVars>>

-----------------------------------------------------------------------------
(* Time *)

Down(t) == IF t > 0 THEN t - 1 ELSE t

(* Every deadline comes one unit nearer. *)
Tick ==
  /\ ttl' = [d \in Deliveries |-> Down(ttl[d])]
  /\ gate' = [gate EXCEPT !.lease = Down(@)]
  /\ check' = [check EXCEPT !.wait = Down(@)]
  /\ alarm' = Down(alarm)
  /\ wake' = Down(wake)
  /\ UNCHANGED <<today, lastSequence, sequence, days, dayVars, lastGeneration,
                 snapshotDays, progress, intents, failure, erasing, wakeups>>

(* The retention window moves on by a day. *)
Midnight ==
  /\ today < LastDay
  /\ today' = today + 1
  /\ UNCHANGED <<deliveryVars, dayVars, captureVars, copyVars, erasing,
                 scheduleVars>>

-----------------------------------------------------------------------------
DeliveryStep ==
  \E d \in Deliveries :
    \/ \E ds \in SUBSET Day, age \in 1..DeliveryRetention : Reserve(d, ds, age)
    \/ \E ds \in SUBSET Day : \E ls \in SUBSET Link : PlanWrite(d, ds, ls)
    \/ \E ds \in SUBSET Day, hasReservation \in BOOLEAN :
         FinishDelivery(d, ds, hasReservation)
    \/ Complete(d)
    \/ Expire(d)

ClaimStep ==
  \E c \in Claims :
    \/ BeginSnapshot(c)
    \/ ClaimSnapshot(c)
    \/ RenewSnapshotClaim(c)
    \/ ReleaseSnapshotClaim(c)
    \/ PrepareManifest(c)
    \/ FinishSnapshot(c)
    \/ \E recorded \in BOOLEAN : FailSnapshot(c, recorded)
    \/ RecordCopyIntent(c)
    \/ \E job \in Jobs : \/ AttachCopyJob(c, job)
                         \/ SettleCopyDone(c, job)
                         \/ SettleCopyError(c, job)
    \/ RejectCopyIntent(c)
    \/ \E recovery \in BOOLEAN : PrepareCheck(c, recovery)
    \/ RequireRecovery(c)

OperatorStep ==
  \/ \E ds \in SUBSET Day : ResolveIncompleteDays(ds)
  \/ AbandonUnstartedCopy
  \/ ResumeFailed
  \/ ResumeBlocked
  \/ ResumeInterrupted

ErasureStep ==
  \/ BeginErasure
  \/ GetErasureState
  \/ \E job \in Jobs : \/ AttachErasureCopyJob(job)
                       \/ SettleErasureCopyIntent(job)
  \/ AbandonErasureSnapshot

ScheduleStep ==
  \/ GetStats
  \/ RequestSnapshot
  \/ BeginEmptySnapshot
  \/ ScheduleSnapshot
  \/ ScheduleSnapshotContinuation
  \/ Alarm
  \/ WakeupConsumed

Next ==
  \/ DeliveryStep
  \/ ClaimStep
  \/ OperatorStep
  \/ ErasureStep
  \/ ScheduleStep
  \/ Tick
  \/ Midnight

Spec == Init /\ [][Next]_vars

-----------------------------------------------------------------------------
(* Properties *)

(* A snapshot's input holds still: while a generation is captured, copied  *)
(* or published no delivery holds a reservation, so none can be given the  *)
(* write permit and change the facts under the Copies (reserve's gate      *)
(* check against beginSnapshot's drained check, with lapsed drains).       *)
StableInput == gate.phase = "snapshot" => Active = {}

(* Exactly the snapshot phase has captured days, and all of them are still *)
(* dirty and none is incomplete, whatever was pruned, expired or marked    *)
(* since; so finishing never publishes a day with an abandoned write.      *)
CaptureSound ==
  IF gate.phase = "snapshot"
    THEN /\ gate.generation = lastGeneration
         /\ progress.claim # NoClaim
         /\ snapshotDays # {}
         /\ snapshotDays \subseteq dirty \ incomplete
    ELSE gate.generation = 0 /\ snapshotDays = {} /\ progress = NoProgress

(* A captured day's linked dirty days are captured with it, so a fact that *)
(* moved between two days is never published on one of them only           *)
(* (selectSnapshotDirtyDays against pruning and linking).                  *)
CaptureLinkClosed ==
  \A l \in links :
    l[1] \in dirty /\ l[2] \in dirty
      => (l[1] \in snapshotDays <=> l[2] \in snapshotDays)

(* What a generation captured is fit to be published as a whole.           *)
CaptureSafe == CaptureSound /\ CaptureLinkClosed

(* The coordinator never owes more than one Copy, and that Copy is the one *)
(* at the active generation's cursor; requireCurrentSnapshotIntent in the  *)
(* runner throws forever on anything else.                                 *)
OneIntentAtCursor ==
  /\ \A i \in intents : /\ gate.phase = "snapshot"
                        /\ progress.nextCopy < CopyCount
                        /\ AtCursor(i)
  /\ \A i, j \in intents : i = j

(* A check record belongs to the position the cursor is at, so that        *)
(* prepareSnapshotCheck never throws on a record left behind by an earlier *)
(* Copy or generation and wedges the snapshot.                             *)
CheckAtCursor ==
  check # NoCheck => /\ gate.phase = "snapshot"
                     /\ check.generation = gate.generation
                     /\ check.copy = progress.nextCopy

(* While a failure waits for an operator no snapshot runs and no Copy is   *)
(* owed; recording a failure therefore never collides with the singleton   *)
(* row of an earlier one, which would roll the failing transaction back.   *)
FailureIsIdle == failure # 0 => gate.phase = "open" /\ intents = {}

(* Incomplete days are dirty: publishAgentSnapshot and the runner compare  *)
(* only the two row counts to decide that some day is publishable.         *)
IncompleteAreDirty == incomplete \subseteq dirty

(* The tables agree with each other, so that no stored row makes the later *)
(* calls of a runner, the alarm or the operator throw or wait for ever.    *)
TablesAgree ==
  OneIntentAtCursor /\ CheckAtCursor /\ FailureIsIdle /\ IncompleteAreDirty

(* A dirty day is forgotten only when its generation published it with     *)
(* every Copy settled, when it left the retention window, or by erasure.   *)
ForgetsNoUnpublishedDay ==
  \A d \in dirty \ dirty' :
    \/ /\ d \in snapshotDays
       /\ gate.phase = "snapshot" /\ CopiesComplete /\ intents = {}
       /\ gate'.phase = "open" /\ failure' = failure
    \/ ~InWindow(d)
    \/ erasing'
DirtyDaySurvives == [][ForgetsNoUnpublishedDay]_vars

(* Once erasure reported ready, no reservation, snapshot or Copy ever      *)
(* starts again, whatever calls are still under way.                       *)
ErasureReadyIsFinal == [][ErasureReady => ErasureReady']_vars
=============================================================================
