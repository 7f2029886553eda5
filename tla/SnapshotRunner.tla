--------------------------- MODULE SnapshotRunner ---------------------------
(***************************************************************************)
(* The snapshot runners of one organization, composed with its             *)
(* coordinator, the snapshot queue and the Copy jobs in Tinybird.          *)
(*                                                                         *)
(* A run (runAgentSnapshot) is started by a queue message and is a         *)
(* sequence of steps here: each step is one remote call, and everything    *)
(* else - other runs, deliveries, alarms, jobs, midnight, the operator -   *)
(* goes on between two of them.  Runs are told apart by their claim ids,   *)
(* which are random, so a run never starts with the id the coordinator     *)
(* remembers.  A remote call may fail before or after it was executed, a   *)
(* run may crash or stall, messages may be lost or delivered twice.  A     *)
(* call whose reply is thrown away and which changes nothing is not a      *)
(* step of its own.                                                        *)
(*                                                                         *)
(* Of deliveries only what the coordinator sees of them is kept, of the    *)
(* capacity object only its answer, and there is no erasure: for those see *)
(* AgentDelivery, SnapshotCapacity and OrganizationErasure.                *)
(***************************************************************************)
EXTENDS AgentDeliveryCoordinator

CONSTANT MaxFaults  \* bound: failures, crashes, losses, refusals and stalls

ASSUME FaultsAssumption == MaxFaults \in Nat

VARIABLES
  run,        \* the run with each claim id
  jobs,       \* Copy jobs Tinybird accepted
  manifests,  \* rows of agent_snapshot_manifest
  owing,      \* committing deliveries that have to call finishDelivery again
  repaired,   \* ghost: the operator made work, nothing was scheduled since
  faults      \* faults so far

runnerVars == <<vars, run, jobs, manifests, owing, repaired, faults>>

-----------------------------------------------------------------------------
(* Runs and jobs *)

NoRun == [at |-> "idle", branch |-> "idle", generation |-> 0, days |-> {},
          next |-> 0, job |-> NoJob, recovery |-> FALSE, status |-> "none",
          expired |-> FALSE, caught |-> FALSE]

Place == {"idle", "stats", "schedule", "claim", "request", "begin", "arm",
          "acquire", "refused", "reschedule", "loop", "intents", "active",
          "record", "start", "attach", "reject", "due", "check", "observe",
          "require", "reattach", "settle", "reread", "last check", "prepare",
          "publish", "finish", "final", "release", "continue", "failed",
          "reassess", "fail", "retry"}
Unclaimed == {"stats", "schedule", "claim", "request", "begin"}
Planned == Place \ (Unclaimed \cup {"idle", "retry"})
AtCursorPlaces == Planned \ {"reschedule", "reread", "final", "release",
                             "continue", "failed", "reassess", "fail"}

Run == [at : Place,
        branch : {"claim", "request", "begin", "idle", "retry"},
        generation : 0..MaxGeneration,    \* plan.generation
        days : SUBSET Day,                \* plan.dirtyDays
        next : Nat,                       \* progress.nextCopyIndex
        job : Jobs \cup {NoJob},          \* jobId
        recovery : BOOLEAN,
        status : {"none", "done", "error"},
        expired : BOOLEAN,  \* the error is SnapshotCapturedDaysExpiredError
        caught : BOOLEAN]   \* the run is in its catch block

Job == [id : Jobs, generation : 1..MaxGeneration, target : 0..TargetCount - 1,
        attempt : Nat, status : {"working", "done", "error"}]

Manifest == [generation : 1..MaxGeneration, days : SUBSET Day]

RunnerTypeOK ==
  /\ TypeOK
  /\ run \in [Claims -> Run]
  /\ jobs \subseteq Job
  /\ manifests \subseteq Manifest
  /\ owing \subseteq Deliveries
  /\ repaired \in BOOLEAN
  /\ faults \in 0..MaxFaults

RunnerInit ==
  /\ Init
  /\ run = [c \in Claims |-> NoRun]
  /\ jobs = {} /\ manifests = {} /\ owing = {}
  /\ repaired = FALSE
  /\ faults = 0

At(c, place) == run[c].at = place
Faulty == faults < MaxFaults /\ faults' = faults + 1

Goto(c, place) == run' = [run EXCEPT ![c].at = place]

(* The call was executed, and its reply arrives or does not. *)
Called(c, next) ==
  \/ run' = [run EXCEPT ![c] = next] /\ UNCHANGED faults
  \/ Goto(c, IF run[c].caught THEN "retry" ELSE "failed") /\ Faulty
Then(c, place) == Called(c, [run[c] EXCEPT !.at = place])

(* The call throws. *)
Throws(c) ==
  /\ Goto(c, IF run[c].caught THEN "retry" ELSE "failed")
  /\ UNCHANGED faults

Acknowledge(c) == run' = [run EXCEPT ![c] = NoRun]

OnlyRun == UNCHANGED <<vars, jobs, manifests, owing, repaired>>
NoJobs == UNCHANGED <<jobs, manifests, owing, repaired>>

(* The run's own chunks and Copy keys, whatever became of its generation. *)
ChunksOf(captured) ==
  IF Cardinality(captured) <= MaxCopyDays
    THEN 1
    ELSE (Cardinality(captured) + MaxCopyDays - 1) \div MaxCopyDays
KeyOf(generation, captured, copy) ==
  [generation |-> generation,
   target |-> copy % TargetCount,
   attempt |-> IF ChunksOf(captured) = 1
                 THEN generation
                 ELSE generation * AttemptMultiplier + copy \div TargetCount]
KeysOf(generation, captured) ==
  {KeyOf(generation, captured, copy) : copy \in 0..ChunksOf(captured) * TargetCount - 1}
RunKey(c) == KeyOf(run[c].generation, run[c].days, run[c].next)
Matches(entry, key) ==
  /\ entry.generation = key.generation
  /\ entry.target = key.target /\ entry.attempt = key.attempt

(* assertSnapshotCopyCursor, for the position the run believes to be at. *)
OwnsCursor(c) == HoldsCursor(c) /\ progress.nextCopy = run[c].next

-----------------------------------------------------------------------------
(* A message starts a run, which looks whether there is work for it *)

(* The message is taken from the queue, or delivered a second time later. *)
StartRun(c) ==
  /\ run[c] = NoRun /\ progress.claim # c
  /\ wakeups
  /\ run' = [run EXCEPT ![c].at = "stats"]
  /\ \/ wakeups' = FALSE /\ UNCHANGED faults
     \/ wakeups' = TRUE /\ Faulty
  /\ UNCHANGED <<today, deliveryVars, dayVars, captureVars, copyVars, erasing,
                 alarm, wake>>
  /\ NoJobs

(* The initial getStats decides what the run tries, after the schedule. *)
Branch(phase, isActive, isPublishable) ==
  IF phase = "snapshot" THEN "claim"
  ELSE IF phase = "draining" THEN IF isActive THEN "retry" ELSE "begin"
  ELSE IF isPublishable THEN "request" ELSE "idle"

Stats(c) ==
  /\ At(c, "stats")
  /\ GetStats
  /\ IF erasing
       THEN Acknowledge(c)
       ELSE run' = [run EXCEPT ![c].at = "schedule",
                      ![c].branch = Branch(gate'.phase, Active # {},
                                      Cardinality(dirty') > Cardinality(incomplete'))]
  /\ NoJobs /\ UNCHANGED faults

(* readSnapshotSchedule: an early or a duplicate message finds the wake-up *)
(* still ahead and does nothing.                                           *)
WakeDue == DueWake <= 0

Schedule(c) ==
  /\ At(c, "schedule")
  /\ IF \/ failure # 0 \/ Blocked \/ ~WakeDue
        \/ run[c].branch = "idle"
       THEN Acknowledge(c)
       ELSE Goto(c, run[c].branch)
  /\ OnlyRun /\ UNCHANGED faults

Plan(c) == [NoRun EXCEPT !.at = "arm", !.generation = gate'.generation,
                         !.days = snapshotDays', !.next = progress'.nextCopy]

(* An error before the try block is left to the message's next delivery. *)
Early(c, plan) ==
  \/ run' = [run EXCEPT ![c] = plan] /\ UNCHANGED faults
  \/ Goto(c, "retry") /\ Faulty

Claim(c) ==
  /\ At(c, "claim")
  /\ \/ ClaimSnapshot(c) /\ Early(c, Plan(c))
     \/ /\ ~(~erasing /\ gate.phase = "snapshot" /\ MayClaim(c))
        /\ Goto(c, "retry")
        /\ UNCHANGED <<vars, faults>>
  /\ NoJobs

(* requestSnapshot; a refusal and an error leave the message for later. *)
Request(c) ==
  /\ At(c, "request")
  /\ \/ RequestSnapshot /\ Goto(c, IF Active = {} THEN "begin" ELSE "retry")
     \/ /\ erasing \/ failure # 0 \/ RecoveredGate.phase = "snapshot"
           \/ Pruned(dirty, RecoveredDays) = {}
        /\ GetStats /\ Goto(c, "retry")
  /\ NoJobs /\ UNCHANGED faults

(* beginSnapshot, and the look at the gate after it refused or threw. *)
BeginRun(c) ==
  /\ At(c, "begin")
  /\ \/ BeginSnapshot(c) /\ Early(c, Plan(c))
     \/ /\ BeginEmptySnapshot
        /\ IF Cardinality(dirty') <= Cardinality(incomplete')
             THEN Acknowledge(c)
             ELSE Goto(c, "retry")
        /\ UNCHANGED faults
     \/ /\ erasing \/ failure # 0 \/ gate.phase = "snapshot"
           \/ Active # {} \/ lastGeneration = MaxGeneration
        /\ GetStats
        /\ IF \/ gate'.phase = "snapshot"
              \/ Active # {} /\ ~erasing /\ failure = 0
              \/ Cardinality(dirty') > Cardinality(incomplete')
             THEN Goto(c, "retry")
             ELSE Acknowledge(c)
        /\ UNCHANGED faults
  /\ NoJobs

(* The continuation is scheduled before anything else: from here on the    *)
(* alarm finds the generation again whatever happens to the run.           *)
Arm(c) ==
  /\ At(c, "arm")
  /\ \/ HoldsClaim(c) /\ ScheduleSnapshotContinuation /\ Goto(c, "acquire")
     \/ HoldsClaim(c) /\ erasing /\ Goto(c, "acquire") /\ UNCHANGED vars
     \/ ~HoldsClaim(c) /\ Goto(c, "retry") /\ UNCHANGED vars
  /\ NoJobs /\ UNCHANGED faults

(* The capacity object lets the generation in, or has no slot free. *)
Acquire(c) ==
  /\ At(c, "acquire")
  /\ \/ Then(c, "loop")
     \/ Goto(c, IF run[c].next = 0 /\ intents = {} THEN "refused" ELSE "continue")
          /\ Faulty
  /\ OnlyRun

(* A generation that has not started to copy is given up for now. *)
Refused(c) ==
  /\ At(c, "refused")
  /\ \/ FailSnapshot(c, FALSE) /\ Then(c, "reschedule")
     \/ ~(HoldsClaim(c) /\ NoCopyOwed) /\ Throws(c) /\ UNCHANGED vars
  /\ NoJobs

-----------------------------------------------------------------------------
(* The Copy at the cursor *)

(* One Copy step per run, unless the deadline for new work has passed. *)
Loop(c) ==
  /\ At(c, "loop")
  /\ \/ /\ UNCHANGED faults
        /\ IF run[c].next < ChunksOf(run[c].days) * TargetCount
             THEN Goto(c, "intents")
             ELSE IF run[c].days \subseteq Window
               THEN Goto(c, "last check")
               ELSE run' = [run EXCEPT ![c].at = "failed", ![c].expired = TRUE]
     \/ run[c].next < ChunksOf(run[c].days) * TargetCount
          /\ Goto(c, "continue") /\ Faulty
  /\ OnlyRun

(* requireCurrentSnapshotIntent *)
ReadIntents(c) ==
  /\ At(c, "intents")
  /\ \/ intents = {} /\ Then(c, "active")
     \/ \E i \in intents :
          /\ intents = {i} /\ Matches(i, RunKey(c))
          /\ Called(c, [run[c] EXCEPT !.at = "due", !.job = i.job])
     \/ ~(intents = {} \/ \E i \in intents : intents = {i} /\ Matches(i, RunKey(c)))
          /\ Throws(c)
  /\ OnlyRun

AssertActive(c) ==
  /\ At(c, "active")
  /\ IF ~erasing /\ HoldsClaim(c) /\ CapturedRetained
       THEN Then(c, "record")
       ELSE Throws(c)
  /\ OnlyRun

Record(c) ==
  /\ At(c, "record")
  /\ \/ OwnsCursor(c) /\ RecordCopyIntent(c) /\ Then(c, "start")
     \/ /\ ~(~erasing /\ OwnsCursor(c) /\ ~\E i \in intents : AtCursor(i))
        /\ Throws(c) /\ UNCHANGED vars
  /\ NoJobs

(* Tinybird accepts the Copy, refuses it, or nobody knows. *)
Accepted(c, id) ==
  /\ \A j \in jobs : j.id # id
  /\ jobs' = jobs \cup
       {[id |-> id, status |-> "working", generation |-> RunKey(c).generation,
         target |-> RunKey(c).target, attempt |-> RunKey(c).attempt]}

StartCopy(c) ==
  /\ At(c, "start")
  /\ \/ \E id \in Jobs :
          Accepted(c, id) /\ Called(c, [run[c] EXCEPT !.at = "attach", !.job = id])
     \/ Goto(c, "reject") /\ Faulty /\ UNCHANGED jobs
     \/ Goto(c, "failed") /\ Faulty /\ UNCHANGED jobs
  /\ UNCHANGED <<vars, manifests, owing, repaired>>

MayAttach(c) ==
  OwnsCursor(c) /\ \E i \in intents : AtCursor(i) /\ i.job \in {run[c].job, NoJob}

Attach(c) ==
  /\ At(c, "attach")
  /\ \/ MayAttach(c) /\ AttachCopyJob(c, run[c].job) /\ Then(c, "continue")
     \/ ~MayAttach(c) /\ Throws(c) /\ UNCHANGED vars
  /\ NoJobs

(* A refused start ends the generation; the run fails with it. *)
Reject(c) ==
  /\ At(c, "reject")
  /\ \/ OwnsCursor(c) /\ RejectCopyIntent(c)
     \/ ~(OwnsCursor(c) /\ \E i \in intents : AtCursor(i) /\ i.job = NoJob)
          /\ UNCHANGED vars
  /\ Throws(c)
  /\ NoJobs

(* Without a receipt, or when the last look did not find the job, the job  *)
(* is searched in jobs_log.                                                *)
ReadDue(c) ==
  /\ At(c, "due")
  /\ Called(c, [run[c] EXCEPT !.at = "check",
                  !.recovery = run[c].job = NoJob \/ check.required])
  /\ OnlyRun

(* Whether prepareSnapshotCheck lets the caller look. *)
Ready(recovery) ==
  /\ CurrentCheck.blocked = "no" /\ CurrentCheck.wait = 0
  /\ IF recovery THEN ~BudgetSpent(CurrentCheck.recovery, MaxRecoveryChecks)
                 ELSE ~BudgetSpent(CurrentCheck.status, MaxStatusChecks)

MayCheck(c) ==
  /\ HoldsClaim(c) /\ progress.nextCopy = run[c].next
  /\ CurrentCheck.generation = gate.generation
  /\ CurrentCheck.copy = progress.nextCopy

CheckCopy(c) ==
  /\ At(c, "check")
  /\ \/ /\ MayCheck(c) /\ PrepareCheck(c, run[c].recovery)
        /\ Then(c, IF Ready(run[c].recovery) THEN "observe" ELSE "continue")
     \/ ~MayCheck(c) /\ Throws(c) /\ UNCHANGED vars
  /\ NoJobs

(* In the variant a job that has not failed is taken for done. *)
NotFailed(j) == IF j.status = "error" THEN "error" ELSE "done"
Status(j) == IF j.status = "working" THEN "none" ELSE j.status

(* discoverSnapshotCopy: no job, one job, or more than one.  jobs_log may  *)
(* not show the job yet.                                                   *)
Discovered(c) == {j \in jobs : Matches(j, RunKey(c))}

\* Variant with a bug: a job that is not found is submitted again.
DiscoverOrRestart(c) ==
  /\ At(c, "observe") /\ run[c].recovery
  /\ \/ Discovered(c) = {} /\ Then(c, "start")
     \/ Discovered(c) # {} /\ Goto(c, "start") /\ Faulty
  /\ OnlyRun
Discover(c) ==
  /\ At(c, "observe") /\ run[c].recovery
  /\ \/ Discovered(c) = {} /\ Then(c, "continue")
     \/ Discovered(c) # {} /\ Goto(c, "continue") /\ Faulty
     \/ \E j \in Discovered(c) :
          /\ Discovered(c) = {j} /\ run[c].job \in {j.id, NoJob}
          /\ Called(c, [run[c] EXCEPT !.at = "reattach", !.job = j.id,
                                      !.status = Status(j)])
     \/ /\ Discovered(c) # {}
        /\ ~\E j \in Discovered(c) :
              Discovered(c) = {j} /\ run[c].job \in {j.id, NoJob}
        /\ Throws(c)
  /\ OnlyRun

(* snapshotJobStatus; an old job is unknown to the Jobs API. *)
ReadStatus(c) ==
  /\ At(c, "observe") /\ ~run[c].recovery
  /\ \/ \E j \in jobs :
          /\ j.id = run[c].job
          /\ Called(c, [run[c] EXCEPT
                          !.at = IF j.status = "working" THEN "continue" ELSE "settle",
                          !.status = Status(j)])
     \/ Goto(c, "require") /\ Faulty
  /\ OnlyRun

Require(c) ==
  /\ At(c, "require")
  /\ \/ /\ HoldsClaim(c) /\ Then(c, "continue")
        /\ RequireRecovery(c) \/ (check = NoCheck /\ UNCHANGED vars)
     \/ ~HoldsClaim(c) /\ Throws(c) /\ UNCHANGED vars
  /\ NoJobs

Reattach(c) ==
  /\ At(c, "reattach")
  /\ \/ MayAttach(c) /\ AttachCopyJob(c, run[c].job)
          /\ Then(c, IF run[c].status = "none" THEN "continue" ELSE "settle")
     \/ ~MayAttach(c) /\ Throws(c) /\ UNCHANGED vars
  /\ NoJobs

Outcome(c) == run[c].status

Settle(c) ==
  /\ At(c, "settle")
  /\ \/ /\ Outcome(c) = "done" /\ OwnsCursor(c) /\ SettleCopyDone(c, run[c].job)
        /\ Then(c, "reread")
     \/ Outcome(c) = "error" /\ OwnsCursor(c) /\ SettleCopyError(c, run[c].job)
          /\ Throws(c)
     \/ /\ ~(OwnsCursor(c) /\ \E i \in intents : AtCursor(i) /\ i.job = run[c].job)
        /\ Throws(c) /\ UNCHANGED vars
  /\ NoJobs

(* getSnapshotProgress, for the next round. *)
Reread(c) ==
  /\ At(c, "reread")
  /\ IF HoldsClaim(c)
       THEN Called(c, [NoRun EXCEPT !.at = "loop", !.generation = run[c].generation,
                                    !.days = run[c].days,
                                    !.next = progress.nextCopy])
       ELSE Throws(c)
  /\ OnlyRun

-----------------------------------------------------------------------------
(* Publication *)

LastCheck(c) ==
  /\ At(c, "last check")
  /\ \/ /\ MayCheck(c) /\ PrepareCheck(c, FALSE)
        /\ Then(c, IF Ready(FALSE) THEN "prepare" ELSE "continue")
     \/ ~MayCheck(c) /\ Throws(c) /\ UNCHANGED vars
  /\ NoJobs

\* Variant with a bug: the generation is finished before it is published.
PrepareAndFinish(c) ==
  At(c, "prepare") /\ PrepareManifest(c) /\ Then(c, "finish") /\ NoJobs
Prepare(c) ==
  /\ At(c, "prepare")
  /\ \/ PrepareManifest(c) /\ Then(c, "publish")
     \/ /\ ~(~erasing /\ HoldsClaim(c) /\ CapturedRetained /\ CopiesComplete)
        /\ Throws(c) /\ UNCHANGED vars
  /\ NoJobs

(* Nothing stops a run that has come this far, however long it stalled. *)
PublishManifest(c) ==
  /\ At(c, "publish")
  /\ manifests' = manifests \cup
       {[generation |-> run[c].generation, days |-> run[c].days]}
  /\ Then(c, "finish")
  /\ UNCHANGED <<vars, jobs, owing, repaired>>

Finish(c) ==
  /\ At(c, "finish")
  /\ \/ FinishSnapshot(c) /\ Then(c, "final")
     \/ ~(HoldsClaim(c) /\ CapturedRetained /\ CopiesComplete /\ NoCopyOwed)
          /\ Throws(c) /\ UNCHANGED vars
  /\ NoJobs

(* Days that became dirty meanwhile are the next generation's. *)
Final(c) ==
  /\ At(c, "final")
  /\ GetStats
  /\ IF Cardinality(dirty') > Cardinality(incomplete')
       THEN Goto(c, "reschedule")
       ELSE Acknowledge(c)
  /\ NoJobs /\ UNCHANGED faults

Reschedule(c) ==
  /\ At(c, "reschedule")
  /\ IF erasing THEN UNCHANGED vars ELSE ScheduleSnapshotContinuation
  /\ IF run[c].caught THEN Goto(c, "retry") ELSE Acknowledge(c)
  /\ NoJobs /\ UNCHANGED faults

-----------------------------------------------------------------------------
(* continueAgentSnapshot: give the claim back, then schedule the next run *)

Continue(c) ==
  /\ At(c, "continue")
  /\ \/ ReleaseSnapshotClaim(c) /\ Then(c, "release")
     \/ ~HoldsClaim(c) /\ Throws(c) /\ UNCHANGED vars
  /\ NoJobs

ContinueLater(c) ==
  /\ At(c, "release")
  /\ IF erasing THEN UNCHANGED vars ELSE ScheduleSnapshotContinuation
  /\ Acknowledge(c)
  /\ NoJobs /\ UNCHANGED faults

-----------------------------------------------------------------------------
(* The catch block *)

(* A failure the coordinator has recorded itself ended the generation. *)
Catch(c) ==
  /\ At(c, "failed")
  /\ run' = [run EXCEPT ![c].caught = TRUE,
               ![c].at = IF failure = run[c].generation THEN "reschedule"
                                                        ELSE "reassess"]
  /\ OnlyRun /\ UNCHANGED faults

(* A Copy that is owed, or a complete set of them, is kept for the next    *)
(* run, unless the captured days can no longer be published.               *)
KeepsGeneration(c) ==
  ~run[c].expired /\ (intents # {} \/ CopiesComplete)

Reassess(c) ==
  /\ At(c, "reassess")
  /\ IF HoldsClaim(c)
       THEN Then(c, IF KeepsGeneration(c) THEN "continue" ELSE "fail")
       ELSE Throws(c)
  /\ OnlyRun

Fail(c) ==
  /\ At(c, "fail")
  /\ \/ FailSnapshot(c, TRUE) /\ Then(c, "reschedule")
     \/ ~(HoldsClaim(c) /\ NoCopyOwed) /\ Throws(c) /\ UNCHANGED vars
  /\ NoJobs

(* message.retry, which ends in the dead letter queue at some time. *)
Retry(c) ==
  /\ At(c, "retry")
  /\ Acknowledge(c)
  /\ \/ wakeups' = TRUE /\ UNCHANGED faults
     \/ wakeups' = wakeups /\ Faulty
  /\ UNCHANGED <<today, deliveryVars, dayVars, captureVars, copyVars, erasing,
                 alarm, wake>>
  /\ NoJobs

(* The isolate dies; the queue delivers its message again or not. *)
Crash(c) ==
  /\ run[c].at \notin {"idle", "retry"}
  /\ Goto(c, "retry") /\ Faulty
  /\ OnlyRun

-----------------------------------------------------------------------------
(* Around the runs *)

(* Of deliveries only the reservations and days are of interest here.  A   *)
(* finishDelivery that stops or throws after complete has committed leaves *)
(* the days behind unscheduled; the delivery's object calls it again, then *)
(* without a reservation, until it gets an answer (finishCommit).          *)
Answered(d) ==
  \/ owing' = owing \ {d} /\ UNCHANGED faults
  \/ owing' = owing \cup {d} /\ Faulty

Delivery(d) ==
  /\ \/ /\ d \notin owing
        /\ \E ds \in SUBSET Window : Reserve(d, ds, DeliveryRetention)
        /\ UNCHANGED <<owing, repaired, faults>>
     \/ /\ d \in Active /\ FinishDelivery(d, days[d], TRUE)
        /\ repaired' = FALSE /\ Answered(d)
     \/ /\ d \in Active /\ Complete(d)
        /\ owing' = owing \cup {d} /\ Faulty /\ UNCHANGED repaired
     \/ /\ d \in owing /\ ScheduleSnapshot
        /\ repaired' = FALSE /\ Answered(d)
     \/ Expire(d) /\ UNCHANGED <<owing, repaired, faults>>
  /\ UNCHANGED <<run, jobs, manifests>>

(* The operator knows that the Copy was never submitted, and no run is     *)
(* about to submit it.                                                     *)
NeverSubmitted ==
  \A i \in intents : /\ \A j \in jobs : ~Matches(j, i)
                     /\ \A c \in Claims : ~At(c, "start")

Operator ==
  /\ \/ /\ \/ ResumeFailed \/ ResumeBlocked
           \/ NeverSubmitted /\ AbandonUnstartedCopy
        /\ UNCHANGED <<repaired, faults>>
     \/ ResumeInterrupted /\ repaired' = TRUE /\ Faulty
     \/ /\ \E ds \in SUBSET Day : ResolveIncompleteDays(ds)
        /\ repaired' = TRUE /\ UNCHANGED faults
  /\ UNCHANGED <<run, jobs, manifests, owing>>

AlarmFires ==
  Alarm /\ UNCHANGED <<run, jobs, manifests, owing, repaired, faults>>

JobEnds ==
  /\ \E j \in jobs, outcome \in {"done", "error"} :
       /\ j.status = "working"
       /\ jobs' = (jobs \ {j}) \cup {[j EXCEPT !.status = outcome]}
       /\ IF outcome = "error" THEN Faulty ELSE UNCHANGED faults
  /\ UNCHANGED <<vars, run, manifests, owing, repaired>>

(* A run is over long before a lease or a wait is (the deadlines of four   *)
(* minutes against the lease of five); one that is not has stalled.        *)
TimePasses ==
  /\ Tick
  /\ IF \A c \in Claims : run[c] = NoRun THEN UNCHANGED faults ELSE Faulty
  /\ UNCHANGED <<run, jobs, manifests, owing, repaired>>

NextDay ==
  Midnight /\ UNCHANGED <<run, jobs, manifests, owing, repaired, faults>>

Proceed(c) ==
  \/ Stats(c) \/ Schedule(c) \/ Claim(c) \/ Request(c) \/ BeginRun(c)
  \/ Arm(c) \/ Acquire(c) \/ Refused(c)
  \/ Loop(c) \/ ReadIntents(c) \/ AssertActive(c) \/ Record(c) \/ StartCopy(c)
  \/ Attach(c) \/ Reject(c) \/ ReadDue(c) \/ CheckCopy(c) \/ Discover(c)
  \/ ReadStatus(c) \/ Require(c) \/ Reattach(c) \/ Settle(c) \/ Reread(c)
  \/ LastCheck(c) \/ Prepare(c) \/ PublishManifest(c) \/ Finish(c)
  \/ Final(c) \/ Reschedule(c) \/ Continue(c) \/ ContinueLater(c)
  \/ Catch(c) \/ Reassess(c) \/ Fail(c) \/ Retry(c)

RunnerNext ==
  \/ \E c \in Claims : StartRun(c) \/ Proceed(c) \/ Crash(c)
  \/ \E d \in Deliveries : Delivery(d)
  \/ Operator
  \/ AlarmFires
  \/ JobEnds
  \/ TimePasses
  \/ NextDay

RunnerSpec == RunnerInit /\ [][RunnerNext]_runnerVars

(* Runs go on, messages are delivered, alarms fire, deliveries and jobs    *)
(* end, and time passes, also between the deliveries of a message that is  *)
(* retried after a minute; nothing is assumed of the operator.             *)
RunnerFairness ==
  /\ \A c \in Claims : WF_runnerVars(Proceed(c))
  /\ WF_runnerVars(\E c \in Claims : StartRun(c))
  /\ WF_runnerVars(AlarmFires)
  /\ WF_runnerVars(JobEnds)
  /\ SF_runnerVars(TimePasses)
  /\ \A d \in Deliveries :
       WF_runnerVars(Delivery(d) /\ (sequence[d] # 0 \/ d \in owing))
FairRunnerSpec == RunnerSpec /\ RunnerFairness

-----------------------------------------------------------------------------
(* Properties *)

(* No Copy is ever submitted twice, although runs take each other over at  *)
(* any point and the one that recorded the intent may submit it late       *)
(* (recordSnapshotCopyIntent, startSnapshotCopy and recovery).             *)
OneJobPerKey == \A i, j \in jobs : Matches(i, j) => i = j

(* A Copy that may still run is owed, so the gate and the capacity slot    *)
(* are kept until its end is known: no reply lost, budget spent or error   *)
(* thrown gives it up (settleSnapshotCopyIntent, the catch block).         *)
RunningCopyIsOwed ==
  \A j \in jobs : j.status = "working" => \E i \in intents : Matches(i, j)

(* Every Copy job has one owner that will see its end.                     *)
CopiesSound == RunnerTypeOK /\ OneJobPerKey /\ RunningCopyIsOwed

(* A manifest row, however late it is written, names only days whose every *)
(* target and chunk was copied for that generation.                        *)
PublishedIsCopied ==
  \A m \in manifests : \A key \in KeysOf(m.generation, m.days) :
    \E j \in jobs : Matches(j, key) /\ j.status = "done"

(* A retained day stops being dirty only when a manifest row of the ending *)
(* generation names it (publishSnapshotManifest before finishSnapshot).    *)
OnlyPublishedForgotten ==
  \A day \in dirty \ dirty' :
    InWindow(day) => \E m \in manifests : /\ day \in m.days
                                         /\ m.generation = gate.generation
ForgottenIsPublished == [][OnlyPublishedForgotten]_runnerVars

(* The generation's records move only in the hands of the run that holds   *)
(* its claim.  Whatever a run still calls after its lease ran out or was   *)
(* taken over, and whatever deliveries, alarms and midnight do, neither    *)
(* the cursor nor the intent, the counted looks or the captured days       *)
(* change under the holder (assertAgentSnapshotClaim in every RPC).  Once  *)
(* the lease is out the claim may pass on as it stands, and the operator   *)
(* may judge a generation that ran out of looks.                           *)
generationVars == <<gate, snapshotDays, progress, intents, check>>
OnlyHolderMoves ==
  gate.phase = "snapshot" /\ generationVars' # generationVars =>
    \/ gate.lease > 0 /\ run'[progress.claim] # run[progress.claim]
    \/ /\ gate.lease = 0 /\ UNCHANGED <<snapshotDays, intents, check>>
       /\ gate' = [gate EXCEPT !.lease = SnapshotLease]
       /\ progress' = [progress EXCEPT !.claim = progress'.claim]
    \/ gate.lease = 0 /\ Blocked /\ UNCHANGED run
    \/ /\ UNCHANGED <<snapshotDays, progress, intents, run>>
       /\ gate' = [gate EXCEPT !.lease = Down(@)]
       /\ check' = [check EXCEPT !.wait = Down(@)]
GenerationIsFenced == [][OnlyHolderMoves]_runnerVars

(* What a run believes about its generation is true for as long as nobody  *)
(* took it over: its plan is the captured days, and where it relies on its *)
(* position that is the cursor, although it read both many awaits ago and  *)
(* stale runs go on calling (getSnapshotProgress, assertSnapshotCopyCursor).*)
OwnerIsCurrent ==
  \A c \in Claims : gate.phase = "snapshot" /\ progress.claim = c =>
    /\ run[c].at \in Planned => /\ run[c].generation = gate.generation
                                /\ run[c].days = snapshotDays
    /\ run[c].at \in AtCursorPlaces => run[c].next = progress.nextCopy

(* While there is something a snapshot could do, an alarm will start it,   *)
(* or a delivery whose finishDelivery was interrupted is going to call     *)
(* again and set one: no error, crash or lost message leaves days behind   *)
(* for good.  The exception is the operator.  After the repair of          *)
(* incomplete days the next delivery has to wake the organization          *)
(* (resolveIncompleteDays), and nothing wakes a generation whose resume    *)
(* stopped between clearing its checks and scheduling (resumeSnapshot).    *)
SnapshotHasWork ==
  /\ failure = 0 /\ ~Blocked
  /\ gate.phase = "snapshot" \/ Cardinality(dirty) > Cardinality(incomplete)
WorkHasAlarm ==
  SnapshotHasWork => alarm # NoAlarm \/ owing # {} \/ repaired

(* A generation ends, or it waits for the operator after its budget of     *)
(* looks was spent; no crash, lost receipt or overlapping run keeps the    *)
(* gate closed for ever, an interrupted resume apart.                      *)
GenerationEnds ==
  gate.phase = "snapshot" /\ ~repaired ~> gate.phase # "snapshot" \/ Blocked

(* Days that can be published are published, or the operator is asked,     *)
(* whether or not the delivery that completed them has set an alarm yet.   *)
Publishable == CompleteComponents(dirty, incomplete, links) # {}
OperatorNeeded == failure # 0 \/ Blocked \/ lastGeneration = MaxGeneration
DaysArePublished ==
  Publishable /\ ~repaired ~> ~Publishable \/ OperatorNeeded
=============================================================================
