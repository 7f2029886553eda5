------------------------ MODULE SnapshotRunner_proofs ------------------------
(***************************************************************************)
(* The safety of the snapshot runs, proved for every number of runs, jobs, *)
(* days, targets and faults: no Copy is submitted twice or forgotten while *)
(* it may run, nothing is published that was not copied, nothing is        *)
(* forgotten that was not published, only the holder of the claim moves    *)
(* its generation, work has an alarm or a delivery that will set one, and  *)
(* the erasure of an organization, which runs beside them, leaves no Copy. *)
(*                                                                         *)
(* Runs overlap, so a run knows little: what it read may be stale unless   *)
(* it still is the owner of the generation.  The inductive invariant says  *)
(* for each place of a run what is true there although every other run may *)
(* have gone on, and for each Copy job which intent or which position the  *)
(* cursor has passed accounts for it.                                      *)
(***************************************************************************)
EXTENDS OrganizationErasure, AgentDeliveryCoordinator_proofs

USE ConstantsAssumption, FaultsAssumption
    DEF ConstantsAssumption, FaultsAssumption

-----------------------------------------------------------------------------
(* The inductive invariant *)

InSnapshot == gate.phase = "snapshot"
Owner(c) == InSnapshot /\ progress.claim = c
CursorKey(copy) == KeyOf(gate.generation, snapshotDays, copy)

(* A Copy that no run will be asked to submit any more. *)
Spent(key) ==
  \/ key.generation <= lastGeneration /\ key.generation # gate.generation
  \/ /\ key.generation = gate.generation
     /\ \E copy \in 0..progress.nextCopy - 1 : Matches(key, CursorKey(copy))

(* A Copy that is owed and was not submitted yet. *)
Pending(c) ==
  /\ \E i \in intents : i.job = NoJob /\ Matches(i, RunKey(c))
  /\ \A j \in jobs : ~Matches(j, RunKey(c))

Copied(generation, captured, count) ==
  \A copy \in 0..count - 1 :
    \E j \in jobs : j.status = "done" /\ Matches(j, KeyOf(generation, captured, copy))

(* The plan of a run is the generation's as long as it is the owner. *)
PlanSound(c) ==
  /\ run[c].at \in Unclaimed => progress.claim # c
  /\ run[c].at \in Planned => run[c].generation # 0
  /\ Owner(c) /\ run[c].at \in Planned
       => run[c].generation = gate.generation /\ run[c].days = snapshotDays
  /\ Owner(c) /\ run[c].at \in AtCursorPlaces => run[c].next = progress.nextCopy

(* Only a run that recorded the intent submits, and the Copy was not       *)
(* submitted before.                                                       *)
Starter(c) == run[c].at \in {"start", "reject"}
StartSound(c) ==
  /\ At(c, "start") => Pending(c)
  /\ At(c, "reject") => Pending(c) \/ Spent(RunKey(c))

(* A job a run is about to attach or to settle exists. *)
FoundSound(c) ==
  /\ run[c].at \in {"attach", "reattach"}
       => \E j \in jobs : j.id = run[c].job /\ Matches(j, RunKey(c))
  /\ run[c].at \in {"reattach", "settle"}
       => \E j \in jobs : j.id = run[c].job /\ run[c].status \in {"none", j.status}
  /\ At(c, "settle") => run[c].status # "none"

PublishSound(c) ==
  /\ At(c, "publish")
       => Copied(run[c].generation, run[c].days, ChunksOf(run[c].days) * TargetCount)
  /\ At(c, "finish")
       => [generation |-> run[c].generation, days |-> run[c].days] \in manifests

RunSound(c) == PlanSound(c) /\ StartSound(c) /\ FoundSound(c) /\ PublishSound(c)

OneStarter ==
  \A c, d \in Claims :
    Starter(c) /\ Starter(d) /\ Pending(c) /\ Pending(d) => c = d

(* Each job is known by one intent or is behind the cursor; an erasure     *)
(* settles intents without moving the cursor, but nothing starts any more. *)
JobsKnown ==
  \A j \in jobs : erasing \/ Spent(j) \/ \E i \in intents : Matches(i, j)
UniqueIds == \A i, j \in jobs : i.id = j.id => i = j
IntentJobs ==
  \A i \in intents : i.job # NoJob => \E j \in jobs : j.id = i.job /\ Matches(j, i)
JobsSound ==
  UniqueIds /\ OneJobPerKey /\ RunningCopyIsOwed /\ JobsKnown /\ IntentJobs

CursorCopied ==
  InSnapshot => Copied(gate.generation, snapshotDays, progress.nextCopy)

CopyInv ==
  /\ \A c \in Claims : RunSound(c)
  /\ OneStarter
  /\ JobsSound
  /\ CursorCopied
  /\ PublishedIsCopied

TypedInv == RunnerTypeOK /\ IInv
RunnerInv == TypedInv /\ CopyInv

-----------------------------------------------------------------------------
(* Copy keys *)

LEMMA QuotientBounds ==
  ASSUME NEW a \in Nat, NEW m \in Nat \ {0}
  PROVE  a \div m \in Nat /\ (a \div m) * m <= a /\ a < (a \div m) * m + m
OBVIOUS

LEMMA ChunksType ==
  ASSUME NEW captured \in SUBSET Day
  PROVE  ChunksOf(captured) \in Nat \ {0}
<1> DEFINE size == Cardinality(captured)
<1>1. size \in Nat
  <2>1. IsFiniteSet(Day)
    BY FS_Interval DEF Day
  <2> QED BY <2>1, FS_Subset, FS_CardinalityType
<1> HIDE DEF size
<1>2. ASSUME size > MaxCopyDays
      PROVE  (size + MaxCopyDays - 1) \div MaxCopyDays \in Nat \ {0}
  <2>1. size + MaxCopyDays - 1 \in Nat
    BY <1>1
  <2> DEFINE q == (size + MaxCopyDays - 1) \div MaxCopyDays
  <2>2. q \in Nat /\ size + MaxCopyDays - 1 < q * MaxCopyDays + MaxCopyDays
    BY <2>1, QuotientBounds
  <2> HIDE DEF q
  <2>3. q # 0
    BY <1>1, <1>2, <2>2
  <2> QED BY <2>2, <2>3 DEF q
<1>3. ChunksOf(captured) = IF size <= MaxCopyDays THEN 1
                           ELSE (size + MaxCopyDays - 1) \div MaxCopyDays
  BY DEF ChunksOf, size
<1> QED BY <1>1, <1>2, <1>3

LEMMA RemainderBound ==
  ASSUME NEW a \in Nat, NEW m \in Nat \ {0}
  PROVE  a % m \in 0..m - 1
OBVIOUS

LEMMA QuotientRemainder ==
  ASSUME NEW a \in Nat, NEW b \in Nat, NEW m \in Nat \ {0},
         a % m = b % m, a \div m = b \div m
  PROVE  a = b
OBVIOUS

LEMMA SmallQuotient ==
  ASSUME NEW a \in Nat, NEW m \in Nat \ {0}, a < m
  PROVE  a \div m = 0
OBVIOUS

(* Different positions of the cursor have different keys. *)
LEMMA KeyInjective ==
  ASSUME NEW generation \in Nat, NEW captured \in SUBSET Day,
         NEW a \in Nat, NEW b \in Nat,
         a < ChunksOf(captured) * TargetCount, b < ChunksOf(captured) * TargetCount,
         Matches(KeyOf(generation, captured, a), KeyOf(generation, captured, b))
  PROVE  a = b
<1>1. a % TargetCount = b % TargetCount
  BY DEF Matches, KeyOf
<1>2. a \div TargetCount = b \div TargetCount
  <2>1. CASE ChunksOf(captured) = 1
    <3>1. a < TargetCount /\ b < TargetCount
      BY <2>1
    <3> QED BY <3>1, SmallQuotient
  <2>2. CASE ChunksOf(captured) # 1
    <3> DEFINE base == generation * AttemptMultiplier
               p == a \div TargetCount
               q == b \div TargetCount
    <3>1. base + p = base + q
      BY <2>2 DEF Matches, KeyOf
    <3>2. base \in Nat /\ p \in Nat /\ q \in Nat
      BY QuotientBounds
    <3> HIDE DEF base, p, q
    <3>3. p = q
      BY <3>1, <3>2
    <3> QED BY <3>3 DEF p, q
  <2> QED BY <2>1, <2>2
<1> QED BY <1>1, <1>2, QuotientRemainder

(* A run's key has the shape of a job's. *)
LEMMA KeyType ==
  ASSUME NEW generation \in Nat, NEW captured \in SUBSET Day, NEW copy \in Nat
  PROVE  /\ KeyOf(generation, captured, copy).generation = generation
         /\ KeyOf(generation, captured, copy).target \in 0..TargetCount - 1
         /\ KeyOf(generation, captured, copy).attempt \in Nat
<1> DEFINE base == generation * AttemptMultiplier
           p == copy \div TargetCount
<1>1. base \in Nat /\ p \in Nat /\ base + p \in Nat
  BY QuotientBounds
<1>2. copy % TargetCount \in 0..TargetCount - 1
  BY RemainderBound
<1> HIDE DEF base, p
<1> QED BY <1>1, <1>2 DEF KeyOf, base, p

(* The intent of the coordinator at the cursor has the cursor's key. *)
LEMMA CursorKeyIs ==
  ASSUME NEW i
  PROVE  AtCursor(i) <=> Matches(i, CursorKey(progress.nextCopy))
BY DEF AtCursor, Matches, CursorKey, KeyOf, CopyKey, CopyChunks, ChunksOf

LEMMA CopyCountIs == CopyCount = ChunksOf(snapshotDays) * TargetCount
BY DEF CopyCount, CopyChunks, ChunksOf

-----------------------------------------------------------------------------
(* How a step may move a run *)

FreePlaces == {"idle", "retry", "reschedule", "reread", "final", "release",
               "continue", "failed", "reassess", "fail"}
PlainPlaces == {"arm", "acquire", "refused", "loop", "intents", "active",
                "record", "due", "check", "observe", "require", "last check",
                "prepare"}

LEMMA PlacesAre ==
  /\ Planned \subseteq Place /\ Unclaimed \subseteq Place
  /\ FreePlaces \subseteq Place /\ PlainPlaces \subseteq Place
  /\ AtCursorPlaces = PlainPlaces \cup
       {"start", "attach", "reject", "reattach", "settle", "publish", "finish"}
  /\ Planned = AtCursorPlaces \cup (FreePlaces \ {"idle", "retry"})
<1>1. Planned \subseteq Place /\ Unclaimed \subseteq Place
  BY DEF Planned, Unclaimed, Place
<1>2. FreePlaces \subseteq Place
  BY DEF FreePlaces, Place
<1>5. PlainPlaces \subseteq Place
  BY DEF PlainPlaces, Place
<1>3. AtCursorPlaces = PlainPlaces \cup
        {"start", "attach", "reject", "reattach", "settle", "publish", "finish"}
  <2>1. ASSUME NEW p
        PROVE  p \in AtCursorPlaces <=>
                 \/ p \in PlainPlaces
                 \/ p \in {"start", "attach", "reject", "reattach", "settle",
                           "publish", "finish"}
    BY DEF AtCursorPlaces, Planned, Unclaimed, PlainPlaces, Place
  <2> QED BY <2>1
<1>4. Planned = AtCursorPlaces \cup (FreePlaces \ {"idle", "retry"})
  <2>1. ASSUME NEW p
        PROVE  p \in Planned <=>
                 p \in AtCursorPlaces \/ (p \in FreePlaces /\ p \notin {"idle", "retry"})
    BY DEF AtCursorPlaces, Planned, Unclaimed, FreePlaces, Place
  <2> QED BY <2>1
<1> QED BY <1>1, <1>2, <1>3, <1>4, <1>5

LEMMA IdleRunType == NoRun \in Run /\ NoRun.at = "idle"
<1>1. "idle" \in Place
  BY DEF Place
<1>2. 0 \in 0..MaxGeneration
  BY ConstantsAssumption
<1>3. NoJob \in Jobs \cup {NoJob} /\ {} \in SUBSET Day
  OBVIOUS
<1> QED BY <1>1, <1>2, <1>3 DEF NoRun, Run

(* A run that has taken a branch, seen a status, found a job, or begun     *)
(* again with another plan.                                                *)
Branches == {"claim", "request", "begin", "idle", "retry"}
Statuses == {"none", "done", "error"}
Branched(r, place, branch) == [r EXCEPT !.at = place, !.branch = branch]
Looked(r, place, status) == [r EXCEPT !.at = place, !.status = status]
Found(r, place, job, status) ==
  [r EXCEPT !.at = place, !.job = job, !.status = status]
Planning(place, generation, ds, next) ==
  [NoRun EXCEPT !.at = place, !.generation = generation, !.days = ds, !.next = next]

LEMMA BranchedRun ==
  ASSUME NEW r \in Run, NEW place \in Place,
         NEW branch \in Branches
  PROVE  /\ Branched(r, place, branch) \in Run
         /\ Branched(r, place, branch).at = place
BY DEF Branched, Branches, Run

LEMMA LookedRun ==
  ASSUME NEW r \in Run, NEW place \in Place, NEW status \in Statuses
  PROVE  /\ Looked(r, place, status) \in Run
         /\ Looked(r, place, status).at = place
         /\ Looked(r, place, status).generation = r.generation
         /\ Looked(r, place, status).days = r.days
         /\ Looked(r, place, status).next = r.next
         /\ Looked(r, place, status).job = r.job
         /\ Looked(r, place, status).status = status
BY DEF Looked, Statuses, Run

LEMMA FoundRun ==
  ASSUME NEW r \in Run, NEW place \in Place, NEW job \in Jobs,
         NEW status \in Statuses
  PROVE  /\ Found(r, place, job, status) \in Run
         /\ Found(r, place, job, status).at = place
         /\ Found(r, place, job, status).generation = r.generation
         /\ Found(r, place, job, status).days = r.days
         /\ Found(r, place, job, status).next = r.next
         /\ Found(r, place, job, status).job = job
         /\ Found(r, place, job, status).status = status
<1> DEFINE placed == [r EXCEPT !.at = place]
           holding == [placed EXCEPT !.job = job]
<1>1. /\ placed \in Run /\ placed.at = place /\ placed.generation = r.generation
      /\ placed.days = r.days /\ placed.next = r.next
  BY DEF Run
<1> HIDE DEF placed
<1>2. /\ holding \in Run /\ holding.at = place /\ holding.job = job
      /\ holding.generation = r.generation
      /\ holding.days = r.days /\ holding.next = r.next
  BY <1>1 DEF Run
<1>3. Found(r, place, job, status) = [holding EXCEPT !.status = status]
  BY DEF Found, placed
<1> HIDE DEF holding
<1> QED BY <1>2, <1>3 DEF Statuses, Run

LEMMA PlanningRun ==
  ASSUME NEW place \in Place, NEW generation \in 0..MaxGeneration,
         NEW ds \in SUBSET Day, NEW next \in Nat
  PROVE  /\ Planning(place, generation, ds, next) \in Run
         /\ Planning(place, generation, ds, next).at = place
         /\ Planning(place, generation, ds, next).generation = generation
         /\ Planning(place, generation, ds, next).days = ds
         /\ Planning(place, generation, ds, next).next = next
<1> DEFINE placed == [NoRun EXCEPT !.at = place]
           numbered == [placed EXCEPT !.generation = generation]
           dated == [numbered EXCEPT !.days = ds]
<1>1. placed \in Run /\ placed.at = place
  BY IdleRunType DEF Run
<1> HIDE DEF placed
<1>2. numbered \in Run /\ numbered.at = place /\ numbered.generation = generation
  BY <1>1 DEF Run
<1> HIDE DEF numbered
<1>3. /\ dated \in Run /\ dated.at = place /\ dated.generation = generation
      /\ dated.days = ds
  BY <1>2 DEF Run
<1>4. Planning(place, generation, ds, next) = [dated EXCEPT !.next = next]
  BY DEF Planning, dated, numbered, placed
<1> HIDE DEF dated
<1> QED BY <1>3, <1>4 DEF Run

(* The run of c goes on to a place with the plan it has. *)
SamePlan(c) ==
  /\ run'[c].generation = run[c].generation
  /\ run'[c].days = run[c].days /\ run'[c].next = run[c].next
OthersRest(c) == \A d \in Claims : d # c => run'[d] = run[d]

LEMMA GotoStep ==
  ASSUME run \in [Claims -> Run], NEW c \in Claims, NEW place \in Place,
         Goto(c, place)
  PROVE  /\ run' \in [Claims -> Run]
         /\ run'[c].at = place /\ SamePlan(c)
         /\ run'[c].job = run[c].job /\ run'[c].status = run[c].status
         /\ OthersRest(c)
BY DEF Goto, Run, SamePlan, OthersRest

LEMMA BecomesStep ==
  ASSUME run \in [Claims -> Run], NEW c \in Claims, NEW next \in Run,
         run' = [run EXCEPT ![c] = next]
  PROVE  /\ run' \in [Claims -> Run]
         /\ run'[c] = next
         /\ OthersRest(c)
BY DEF OthersRest

LEMMA AcknowledgeStep ==
  ASSUME run \in [Claims -> Run], NEW c \in Claims, Acknowledge(c)
  PROVE  run' \in [Claims -> Run] /\ run'[c].at = "idle" /\ OthersRest(c)
BY IdleRunType, BecomesStep DEF Acknowledge

(* Its reply was lost, or the call threw. *)
Caught(c) == run'[c].at \in {"failed", "retry"} /\ SamePlan(c)

LEMMA CaughtStep ==
  ASSUME run \in [Claims -> Run], NEW c \in Claims,
         Goto(c, IF run[c].caught THEN "retry" ELSE "failed")
  PROVE  run' \in [Claims -> Run] /\ Caught(c) /\ OthersRest(c)
<1>1. {"failed", "retry"} \subseteq Place
  BY DEF Place
<1>2. CASE run[c].caught
  BY <1>1, <1>2, GotoStep DEF Caught
<1>3. CASE ~run[c].caught
  BY <1>1, <1>3, GotoStep DEF Caught
<1> QED BY <1>2, <1>3

LEMMA ThrowsStep ==
  ASSUME run \in [Claims -> Run], NEW c \in Claims, Throws(c)
  PROVE  run' \in [Claims -> Run] /\ Caught(c) /\ OthersRest(c) /\ UNCHANGED faults
BY CaughtStep DEF Throws

LEMMA FaultyType ==
  ASSUME faults \in 0..MaxFaults, Faulty \/ UNCHANGED faults
  PROVE  faults' \in 0..MaxFaults
BY DEF Faulty

LEMMA CalledStep ==
  ASSUME run \in [Claims -> Run], faults \in 0..MaxFaults, NEW c \in Claims,
         NEW next \in Run, Called(c, next)
  PROVE  /\ run' \in [Claims -> Run] /\ OthersRest(c) /\ faults' \in 0..MaxFaults
         /\ run'[c] = next \/ Caught(c)
<1>1. CASE run' = [run EXCEPT ![c] = next] /\ UNCHANGED faults
  BY <1>1, BecomesStep
<1>2. CASE Goto(c, IF run[c].caught THEN "retry" ELSE "failed") /\ Faulty
  BY <1>2, CaughtStep, FaultyType
<1> QED BY <1>1, <1>2 DEF Called

LEMMA ThenStep ==
  ASSUME run \in [Claims -> Run], faults \in 0..MaxFaults, NEW c \in Claims,
         NEW place \in Place, Then(c, place)
  PROVE  /\ run' \in [Claims -> Run] /\ OthersRest(c) /\ faults' \in 0..MaxFaults
         /\ \/ /\ run'[c].at = place /\ SamePlan(c)
               /\ run'[c].job = run[c].job /\ run'[c].status = run[c].status
            \/ Caught(c)
<1> DEFINE next == [run[c] EXCEPT !.at = place]
<1>1. next \in Run
  BY DEF Run
<1>2. /\ next.at = place /\ next.generation = run[c].generation
      /\ next.days = run[c].days /\ next.next = run[c].next
      /\ next.job = run[c].job /\ next.status = run[c].status
  BY DEF Run
<1>3. Called(c, next)
  BY DEF Then
<1> HIDE DEF next
<1>4. /\ run' \in [Claims -> Run] /\ OthersRest(c) /\ faults' \in 0..MaxFaults
      /\ run'[c] = next \/ Caught(c)
  BY <1>1, <1>3, CalledStep
<1> QED BY <1>2, <1>4 DEF SamePlan

-----------------------------------------------------------------------------
(* What becomes of what a run relies on *)

PlanFrame(c) ==
  /\ progress'.claim = c => progress.claim = c
  /\ Owner(c)' => /\ Owner(c)
                  /\ gate'.generation = gate.generation
                  /\ snapshotDays' = snapshotDays
CursorFrame(c) == Owner(c)' => progress'.nextCopy = progress.nextCopy

(* At these places a run relies on its plan only. *)
LEMMA FreeMove ==
  ASSUME NEW c \in Claims, PlanSound(c), PlanFrame(c), run'[c].at \in FreePlaces,
         run'[c].at \notin {"idle", "retry"}
           => /\ run[c].at \in Planned
              /\ run'[c].generation = run[c].generation
              /\ run'[c].days = run[c].days
  PROVE  RunSound(c)'
<1>1. /\ run'[c].at \notin Unclaimed /\ run'[c].at \notin AtCursorPlaces
      /\ run'[c].at \in Planned => run'[c].at \notin {"idle", "retry"}
  BY DEF FreePlaces, Unclaimed, AtCursorPlaces, Planned
<1>2. PlanSound(c)'
  BY <1>1 DEF PlanSound, PlanFrame
<1>3. StartSound(c)' /\ FoundSound(c)' /\ PublishSound(c)'
  BY DEF FreePlaces, StartSound, FoundSound, PublishSound, At
<1> QED BY <1>2, <1>3 DEF RunSound

LEMMA CaughtSound ==
  ASSUME NEW c \in Claims, PlanSound(c), PlanFrame(c), Caught(c),
         run[c].at \in Planned
  PROVE  RunSound(c)'
BY FreeMove DEF Caught, SamePlan, FreePlaces

(* At these the cursor has not moved either, for the owner. *)
LEMMA CursorMove ==
  ASSUME NEW c \in Claims, PlanSound(c), PlanFrame(c), CursorFrame(c),
         run[c].at \in AtCursorPlaces, run'[c].at \in AtCursorPlaces, SamePlan(c)
  PROVE  PlanSound(c)'
<1>1. run'[c].at \notin Unclaimed /\ run[c].at \in Planned /\ run'[c].at \in Planned
  BY DEF Unclaimed, AtCursorPlaces, Planned
<1> QED BY <1>1 DEF PlanSound, PlanFrame, CursorFrame, SamePlan

LEMMA PlainSound ==
  ASSUME NEW c \in Claims, run'[c].at \in PlainPlaces, PlanSound(c)'
  PROVE  RunSound(c)'
<1>1. StartSound(c)' /\ FoundSound(c)' /\ PublishSound(c)'
  BY DEF PlainPlaces, StartSound, FoundSound, PublishSound, At
<1> QED BY <1>1 DEF RunSound

LEMMA PlainMove ==
  ASSUME NEW c \in Claims, PlanSound(c), PlanFrame(c), CursorFrame(c),
         run[c].at \in AtCursorPlaces, run'[c].at \in PlainPlaces, SamePlan(c)
  PROVE  RunSound(c)'
<1>1. run'[c].at \in AtCursorPlaces
  BY PlacesAre
<1> QED BY <1>1, CursorMove, PlainSound

(* What has been done stays done. *)
Forward ==
  /\ lastGeneration' >= lastGeneration
  /\ \/ /\ UNCHANGED <<snapshotDays>> /\ gate'.generation = gate.generation
        /\ progress'.nextCopy >= progress.nextCopy
     \/ gate'.generation \notin 1..lastGeneration

LEMMA SpentStays ==
  ASSUME TypedInv, TypeOK', Forward,
         NEW key, key.generation \in Nat \ {0}, Spent(key)
  PROVE  Spent(key)'
<1>1. /\ gate.generation # 0 => gate.generation = lastGeneration
      /\ gate.generation \in Nat /\ lastGeneration \in Nat
      /\ progress.nextCopy \in Nat
  BY DEF TypedInv, RunnerTypeOK, TypeOK, IInv, CaptureSound, Gate, Progress
<1>2. lastGeneration' \in Nat /\ progress'.nextCopy \in Nat
        /\ lastGeneration' >= lastGeneration
  BY DEF TypeOK, Progress, Forward
<1>3. CASE /\ UNCHANGED <<snapshotDays>> /\ gate'.generation = gate.generation
           /\ progress'.nextCopy >= progress.nextCopy
  <2>1. CASE key.generation <= lastGeneration /\ key.generation # gate.generation
    <3>1. key.generation <= lastGeneration' /\ key.generation # gate'.generation
      BY <1>1, <1>2, <1>3, <2>1
    <3> QED BY <3>1 DEF Spent
  <2>2. CASE /\ key.generation = gate.generation
             /\ \E copy \in 0..progress.nextCopy - 1 : Matches(key, CursorKey(copy))
    <3>1. PICK copy \in 0..progress.nextCopy - 1 : Matches(key, CursorKey(copy))
      BY <2>2
    <3>2. copy \in 0..progress'.nextCopy - 1
      BY <1>1, <1>2, <1>3
    <3>3. Matches(key, CursorKey(copy))'
      BY <1>3, <3>1 DEF CursorKey, Matches, KeyOf
    <3> QED BY <1>3, <2>2, <3>2, <3>3 DEF Spent
  <2> QED BY <2>1, <2>2 DEF Spent
<1>4. CASE gate'.generation \notin 1..lastGeneration
  <2>1. key.generation \in 1..lastGeneration
    BY <1>1 DEF Spent
  <2>2. key.generation <= lastGeneration' /\ key.generation # gate'.generation
    BY <1>1, <1>2, <1>4, <2>1
  <2> QED BY <2>2 DEF Spent
<1> QED BY <1>3, <1>4 DEF Forward

(* Jobs only end, and rows of the manifest are only added. *)
JobsGo ==
  /\ \A j \in jobs : \E k \in jobs' :
       /\ k.id = j.id /\ Matches(k, j)
       /\ k.status = j.status \/ j.status = "working"
  /\ manifests \subseteq manifests'

LEMMA CopiedStays ==
  ASSUME JobsGo, NEW generation, NEW captured, NEW count,
         Copied(generation, captured, count)
  PROVE  Copied(generation, captured, count)'
<1>1. SUFFICES ASSUME NEW copy \in 0..count - 1
      PROVE  \E k \in jobs' : /\ k.status = "done"
                              /\ Matches(k, KeyOf(generation, captured, copy))
  BY DEF Copied, Matches, KeyOf
<1>2. PICK j \in jobs :
        j.status = "done" /\ Matches(j, KeyOf(generation, captured, copy))
  BY DEF Copied
<1>3. PICK k \in jobs' :
        k.id = j.id /\ Matches(k, j) /\ (k.status = j.status \/ j.status = "working")
  BY DEF JobsGo
<1> QED BY <1>2, <1>3 DEF Matches

LEMMA FoundStays ==
  ASSUME RunnerTypeOK, NEW d \in Claims, FoundSound(d), run'[d] = run[d], JobsGo
  PROVE  FoundSound(d)'
<1>1. RunKey(d)' = RunKey(d)
  BY DEF RunKey, KeyOf
<1>2. ASSUME run[d].at \in {"attach", "reattach"}
      PROVE  \E k \in jobs' : k.id = run'[d].job /\ Matches(k, RunKey(d)')
  <2>1. PICK j \in jobs : j.id = run[d].job /\ Matches(j, RunKey(d))
    BY <1>2 DEF FoundSound
  <2>2. PICK k \in jobs' : k.id = j.id /\ Matches(k, j)
    BY DEF JobsGo
  <2> QED BY <1>1, <2>1, <2>2 DEF Matches
<1>3. ASSUME run[d].at \in {"reattach", "settle"}
      PROVE  \E k \in jobs' : k.id = run'[d].job /\ run'[d].status \in {"none", k.status}
  <2>1. PICK j \in jobs : j.id = run[d].job /\ run[d].status \in {"none", j.status}
    BY <1>3 DEF FoundSound
  <2>2. PICK k \in jobs' : k.id = j.id /\ (k.status = j.status \/ j.status = "working")
    BY DEF JobsGo
  <2>3. run[d].status # "working"
    BY DEF RunnerTypeOK, Run
  <2> QED BY <2>1, <2>2, <2>3
<1>4. At(d, "settle")' => run'[d].status # "none"
  BY DEF FoundSound, At
<1> QED BY <1>1, <1>2, <1>3, <1>4 DEF FoundSound, Matches

LEMMA PublishStays ==
  ASSUME NEW d \in Claims, PublishSound(d), run'[d] = run[d], JobsGo
  PROVE  PublishSound(d)'
<1>1. PICK r : r = run[d]
  OBVIOUS
<1>2. r = run'[d]
  BY <1>1
<1>3. r.at = "publish" =>
        Copied(r.generation, r.days, ChunksOf(r.days) * TargetCount)
  BY <1>1 DEF PublishSound, At
<1>4. r.at = "publish" =>
        Copied(r.generation, r.days, ChunksOf(r.days) * TargetCount)'
  BY <1>3, CopiedStays
<1>5. run'[d].at = "publish" =>
        Copied(run[d].generation, run[d].days,
               ChunksOf(run[d].days) * TargetCount)'
  BY <1>2, <1>4 DEF Copied, ChunksOf, Matches, KeyOf
<1>6. At(d, "finish")' =>
        [generation |-> run'[d].generation, days |-> run'[d].days] \in manifests'
  BY DEF PublishSound, At, JobsGo
<1> QED BY <1>5, <1>6 DEF PublishSound, At

(* A run stands still while something else happens. *)
RunKept(d) == run'[d] = run[d] /\ PlanFrame(d) /\ CursorFrame(d)
StartKept(d) ==
  /\ At(d, "start") => Pending(d)'
  /\ At(d, "reject") /\ Pending(d) => Pending(d)' \/ Spent(RunKey(d))'

LEMMA RestSound ==
  ASSUME TypedInv, TypeOK', NEW d \in Claims, RunSound(d), RunKept(d),
         Forward, JobsGo, StartKept(d)
  PROVE  RunSound(d)'
<1>1. PlanSound(d)'
  BY DEF RunSound, RunKept, PlanSound, PlanFrame, CursorFrame
<1>2. FoundSound(d)' /\ PublishSound(d)'
  BY FoundStays, PublishStays DEF RunSound, RunKept, TypedInv
<1>3. StartSound(d)'
  <2>1. SUFFICES ASSUME At(d, "reject"), Spent(RunKey(d))
                 PROVE  Spent(RunKey(d))'
    BY DEF RunSound, StartSound, StartKept, RunKept, At
  <2>2. PICK key : key = RunKey(d)
    OBVIOUS
  <2>3. key = RunKey(d)'
    BY <2>2 DEF RunKey, KeyOf, RunKept
  <2>4. key.generation \in Nat \ {0}
    <3>1. run[d].at \in Planned
      BY <2>1 DEF At, Planned, Unclaimed, Place
    <3>2. run[d].generation \in Nat
      BY DEF TypedInv, RunnerTypeOK, Run
    <3> QED BY <2>2, <3>1, <3>2 DEF RunSound, PlanSound, RunKey, KeyOf
  <2>5. Spent(key)'
    BY <2>1, <2>2, <2>4, SpentStays
  <2> QED BY <2>3, <2>5 DEF Spent, Matches
<1> QED BY <1>1, <1>2, <1>3 DEF RunSound

LEMMA AllSound ==
  ASSUME TypedInv, TypeOK', CopyInv, Forward, JobsGo,
         \A d \in Claims : RunSound(d)' \/ (RunKept(d) /\ StartKept(d))
  PROVE  \A d \in Claims : RunSound(d)'
BY RestSound DEF CopyInv

LEMMA OneStarterStays ==
  ASSUME OneStarter,
         \A d \in Claims : Starter(d)' /\ Pending(d)' => Starter(d) /\ Pending(d)
  PROVE  OneStarter'
BY DEF OneStarter

LEMMA PublishedStays ==
  ASSUME PublishedIsCopied, UNCHANGED <<jobs, manifests>>
  PROVE  PublishedIsCopied'
BY DEF PublishedIsCopied, KeysOf, KeyOf, Matches, ChunksOf

-----------------------------------------------------------------------------
(* Steps of the coordinator as the runs see them.  Each shape is defined   *)
(* by what it does to the generation, the cursor and the intents.          *)

OnlyCalls == UNCHANGED <<jobs, manifests>>

LEMMA OnlyCallsGo == OnlyCalls => JobsGo
BY DEF OnlyCalls, JobsGo, Matches

(* A job is matched by an intent, or its key is no longer asked for.       *)
Covered(j) == \E i \in intents : Matches(i, j)

(* The cursor stays; an intent may be attached to its job, or be settled   *)
(* by an erasure.                                                          *)
KeptStep ==
  /\ InSnapshot' = InSnapshot
  /\ gate'.generation = gate.generation
  /\ UNCHANGED <<snapshotDays, lastGeneration>>
  /\ progress'.nextCopy = progress.nextCopy
  /\ erasing => erasing'
  /\ \A i \in intents' : i.job = NoJob => i \in intents
  /\ \A i \in intents :
       i.job = NoJob /\ (\A j \in jobs : ~Matches(j, i)) => i \in intents'
  /\ \A j \in jobs :
       Covered(j) => Covered(j)' \/ (erasing' /\ j.status # "working")
  /\ IntentJobs'

(* Nothing the runs rely on changes but, perhaps, the claim. *)
SameStep ==
  /\ InSnapshot' = InSnapshot
  /\ gate'.generation = gate.generation
  /\ UNCHANGED <<snapshotDays, lastGeneration, intents>>
  /\ progress'.nextCopy = progress.nextCopy
  /\ erasing => erasing'

(* The runs either stand still or come to rest somewhere safe, and none    *)
(* comes to the start of a Copy.                                           *)
RunsRest ==
  \A d \in Claims : RunKept(d) \/ (RunSound(d)' /\ ~Starter(d)')

LEMMA SameIsKept ==
  ASSUME JobsSound, OnlyCalls, SameStep
  PROVE  KeptStep
<1>1. IntentJobs'
  BY DEF JobsSound, IntentJobs, OnlyCalls, SameStep, Matches
<1> QED BY <1>1 DEF SameStep, KeptStep, Covered, Matches

LEMMA KeptForward ==
  ASSUME TypedInv, KeptStep
  PROVE  Forward
<1>1. lastGeneration \in Nat /\ progress.nextCopy \in Nat
  BY DEF TypedInv, RunnerTypeOK, TypeOK, Progress
<1> QED BY <1>1 DEF KeptStep, Forward

LEMMA KeptStarts ==
  ASSUME KeptStep, OnlyCalls, NEW d \in Claims, run'[d] = run[d]
  PROVE  Pending(d)' <=> Pending(d)
<1>1. RunKey(d)' = RunKey(d)
  BY DEF RunKey, KeyOf
<1>2. ASSUME Pending(d)  PROVE  Pending(d)'
  <2>1. PICK i \in intents : i.job = NoJob /\ Matches(i, RunKey(d))
    BY <1>2 DEF Pending
  <2>2. \A j \in jobs : ~Matches(j, i)
    BY <1>2, <2>1 DEF Pending, Matches
  <2>3. i \in intents'
    BY <2>1, <2>2 DEF KeptStep
  <2> QED BY <1>1, <1>2, <2>1, <2>3 DEF Pending, OnlyCalls, Matches
<1>3. ASSUME Pending(d)'  PROVE  Pending(d)
  <2>1. PICK i \in intents' : i.job = NoJob /\ Matches(i, RunKey(d))
    BY <1>1, <1>3 DEF Pending, Matches
  <2>2. i \in intents
    BY <2>1 DEF KeptStep
  <2> QED BY <1>1, <1>3, <2>1, <2>2 DEF Pending, OnlyCalls, Matches
<1> QED BY <1>2, <1>3

LEMMA KeptSound ==
  ASSUME TypedInv, TypeOK', CopyInv, KeptStep, OnlyCalls, RunsRest
  PROVE  CopyInv'
<1>1. Forward /\ JobsGo
  BY KeptForward, OnlyCallsGo
<1>2. \A d \in Claims : RunSound(d)'
  <2>1. \A d \in Claims : RunSound(d)' \/ (RunKept(d) /\ StartKept(d))
    BY KeptStarts DEF RunsRest, RunKept, StartKept, CopyInv, RunSound, StartSound
  <2> QED BY <1>1, <2>1, AllSound
<1>3. OneStarter'
  <2>1. \A d \in Claims : Starter(d)' /\ Pending(d)' => Starter(d) /\ Pending(d)
    BY KeptStarts DEF RunsRest, RunKept, Starter
  <2> QED BY <2>1, OneStarterStays DEF CopyInv
<1>4. PublishedIsCopied'
  BY PublishedStays DEF CopyInv, OnlyCalls
<1>5. CursorCopied'
  <2>1. InSnapshot' =>
          Copied(gate'.generation, snapshotDays', progress'.nextCopy)
    BY DEF CopyInv, CursorCopied, KeptStep
  <2> QED BY <2>1 DEF CursorCopied, OnlyCalls, Copied, Matches, KeyOf, ChunksOf
<1>6. JobsSound'
  <2>1. UniqueIds' /\ OneJobPerKey'
    BY DEF CopyInv, JobsSound, OnlyCalls, UniqueIds, OneJobPerKey, Matches
  <2>2. \A j \in jobs : j.status = "working" => Covered(j)'
    BY DEF CopyInv, JobsSound, RunningCopyIsOwed, KeptStep, Covered
  <2>3. RunningCopyIsOwed'
    BY <2>2 DEF RunningCopyIsOwed, OnlyCalls, Covered, Matches
  <2>4. ASSUME NEW j \in jobs  PROVE  erasing' \/ Spent(j)' \/ Covered(j)'
    <3>1. CASE erasing
      BY <3>1 DEF KeptStep
    <3>2. CASE Spent(j)
      <4>1. j.generation \in Nat \ {0}
        BY DEF TypedInv, RunnerTypeOK, Job
      <4> QED BY <1>1, <3>2, <4>1, SpentStays
    <3>3. CASE Covered(j)
      BY <3>3 DEF KeptStep
    <3> QED BY <3>1, <3>2, <3>3 DEF CopyInv, JobsSound, JobsKnown, Covered
  <2>5. JobsKnown'
    BY <2>4 DEF JobsKnown, OnlyCalls, Covered, Matches
  <2> QED BY <2>1, <2>3, <2>5 DEF JobsSound, KeptStep
<1> QED BY <1>2, <1>3, <1>4, <1>5, <1>6 DEF CopyInv

(* The generation is over, and no Copy of it can still run or be started. *)
EndedStep ==
  /\ InSnapshot /\ ~InSnapshot'
  /\ gate'.generation = 0 /\ progress'.claim = NoClaim
  /\ intents' = {}
  /\ UNCHANGED lastGeneration
  /\ erasing => erasing'
  /\ \A j \in jobs : Covered(j) => j.status # "working"

LEMMA IntentFacts ==
  ASSUME TypedInv, NEW i \in intents
  PROVE  /\ InSnapshot /\ progress.nextCopy < CopyCount
         /\ Matches(i, CursorKey(progress.nextCopy))
         /\ i.generation = gate.generation
         /\ \A k \in intents : k = i
BY CursorKeyIs DEF TypedInv, IInv, OneIntentAtCursor, InSnapshot, AtCursor

LEMMA GenerationFacts ==
  ASSUME TypedInv
  PROVE  /\ gate.generation \in Nat /\ lastGeneration \in Nat
         /\ progress.nextCopy \in Nat
         /\ InSnapshot => gate.generation \in 1..MaxGeneration
                            /\ gate.generation = lastGeneration
         /\ ~InSnapshot => /\ gate.generation = 0 /\ snapshotDays = {}
                           /\ progress = NoProgress /\ intents = {}
         /\ snapshotDays \in SUBSET Day
BY DEF TypedInv, RunnerTypeOK, TypeOK, Gate, Progress, IInv, TypeInv,
       GenerationStarted, CaptureSound, OneIntentAtCursor, InSnapshot

LEMMA EndedSound ==
  ASSUME TypedInv, TypeOK', CopyInv, EndedStep, OnlyCalls,
         \A d \in Claims :
           RunSound(d)' \/ (run'[d] = run[d] /\ ~At(d, "start"))
  PROVE  CopyInv'
<1>1. Forward /\ JobsGo
  <2>1. gate'.generation \notin 1..lastGeneration
    BY DEF EndedStep
  <2>2. lastGeneration' >= lastGeneration
    BY GenerationFacts DEF EndedStep
  <2> QED BY <2>1, <2>2, OnlyCallsGo DEF Forward
<1>2. \A d \in Claims : ~Pending(d)'
  BY DEF Pending, EndedStep
<1>3. \A d \in Claims : RunSound(d)'
  <2>1. ASSUME NEW d \in Claims, run'[d] = run[d], ~At(d, "start")
        PROVE  RunKept(d) /\ StartKept(d)
    <3>1. RunKept(d)
      BY <2>1 DEF RunKept, PlanFrame, CursorFrame, Owner, EndedStep
    <3>2. ASSUME At(d, "reject"), Pending(d)  PROVE  Spent(RunKey(d))'
      <4>1. PICK i \in intents : i.job = NoJob /\ Matches(i, RunKey(d))
        BY <3>2 DEF Pending
      <4>2. i.generation = RunKey(d).generation /\ RunKey(d)' = RunKey(d)
        BY <2>1, <4>1 DEF Matches, RunKey, KeyOf
      <4>3. i.generation <= lastGeneration' /\ i.generation # gate'.generation
        <5>1. i.generation = lastGeneration /\ i.generation \in Nat \ {0}
          BY IntentFacts, GenerationFacts
        <5> QED BY <5>1 DEF EndedStep
      <4> QED BY <4>2, <4>3 DEF Spent
    <3> QED BY <2>1, <3>1, <3>2 DEF StartKept
  <2>2. \A d \in Claims : RunSound(d)' \/ (RunKept(d) /\ StartKept(d))
    BY <2>1
  <2> QED BY <1>1, <2>2, AllSound
<1>4. OneStarter'
  BY <1>2 DEF OneStarter
<1>5. PublishedIsCopied'
  BY PublishedStays DEF CopyInv, OnlyCalls
<1>6. CursorCopied'
  BY DEF CursorCopied, EndedStep
<1>7. JobsSound'
  <2>1. UniqueIds' /\ OneJobPerKey'
    BY DEF CopyInv, JobsSound, OnlyCalls, UniqueIds, OneJobPerKey, Matches
  <2>2. \A j \in jobs : j.status # "working"
    BY DEF CopyInv, JobsSound, RunningCopyIsOwed, EndedStep, Covered
  <2>3. RunningCopyIsOwed'
    BY <2>2 DEF RunningCopyIsOwed, OnlyCalls
  <2>4. ASSUME NEW j \in jobs  PROVE  erasing' \/ Spent(j)'
    <3>1. CASE erasing
      BY <3>1 DEF EndedStep
    <3>2. CASE Spent(j)
      <4>1. j.generation \in Nat \ {0}
        BY DEF TypedInv, RunnerTypeOK, Job
      <4> QED BY <1>1, <3>2, <4>1, SpentStays
    <3>3. CASE Covered(j)
      <4>1. PICK i \in intents : Matches(i, j)
        BY <3>3 DEF Covered
      <4>2. j.generation = i.generation
        BY <4>1 DEF Matches
      <4>3. i.generation = lastGeneration /\ i.generation \in Nat \ {0}
        BY IntentFacts, GenerationFacts
      <4> QED BY <4>2, <4>3 DEF Spent, EndedStep
    <3> QED BY <3>1, <3>2, <3>3 DEF CopyInv, JobsSound, JobsKnown, Covered
  <2>5. JobsKnown'
    BY <2>4 DEF JobsKnown, OnlyCalls
  <2>6. IntentJobs'
    BY DEF IntentJobs, EndedStep
  <2> QED BY <2>1, <2>3, <2>5, <2>6 DEF JobsSound
<1> QED BY <1>3, <1>4, <1>5, <1>6, <1>7 DEF CopyInv

(* A generation begins, for the run of c. *)
BegunStep(c) ==
  /\ ~InSnapshot /\ InSnapshot'
  /\ lastGeneration' = lastGeneration + 1
  /\ gate'.generation = lastGeneration + 1
  /\ progress'.claim = c /\ progress'.nextCopy = 0
  /\ UNCHANGED <<intents, erasing>>

LEMMA BegunSound ==
  ASSUME TypedInv, TypeOK', CopyInv, NEW c \in Claims, BegunStep(c), OnlyCalls,
         RunSound(c)', ~Starter(c)', OthersRest(c)
  PROVE  CopyInv'
<1>1. intents = {} /\ intents' = {}
  BY GenerationFacts DEF BegunStep
<1>2. Forward /\ JobsGo
  <2>1. lastGeneration' >= lastGeneration /\ gate'.generation \notin 1..lastGeneration
    BY GenerationFacts DEF BegunStep
  <2> QED BY <2>1, OnlyCallsGo DEF Forward
<1>3. \A d \in Claims : RunSound(d)'
  <2>1. ASSUME NEW d \in Claims, d # c  PROVE  RunKept(d) /\ StartKept(d)
    <3>1. RunKept(d)
      BY <2>1 DEF RunKept, PlanFrame, CursorFrame, Owner, BegunStep, OthersRest
    <3>2. ~Pending(d)
      BY <1>1 DEF Pending
    <3> QED BY <3>1, <3>2 DEF StartKept, CopyInv, RunSound, StartSound
  <2>2. \A d \in Claims : RunSound(d)' \/ (RunKept(d) /\ StartKept(d))
    BY <2>1
  <2> QED BY <1>2, <2>2, AllSound
<1>4. OneStarter'
  BY <1>1 DEF OneStarter, Pending
<1>5. PublishedIsCopied'
  BY PublishedStays DEF CopyInv, OnlyCalls
<1>6. CursorCopied'
  BY DEF CursorCopied, BegunStep, Copied
<1>7. JobsSound'
  <2>1. UniqueIds' /\ OneJobPerKey'
    BY DEF CopyInv, JobsSound, OnlyCalls, UniqueIds, OneJobPerKey, Matches
  <2>2. RunningCopyIsOwed' /\ IntentJobs'
    BY <1>1 DEF CopyInv, JobsSound, RunningCopyIsOwed, OnlyCalls, IntentJobs
  <2>3. ASSUME NEW j \in jobs  PROVE  erasing' \/ Spent(j)'
    <3>1. j.generation \in Nat \ {0}
      BY DEF TypedInv, RunnerTypeOK, Job
    <3>2. erasing \/ Spent(j)
      BY <1>1 DEF CopyInv, JobsSound, JobsKnown
    <3> QED BY <1>2, <3>1, <3>2, SpentStays DEF BegunStep
  <2>4. JobsKnown'
    BY <2>3 DEF JobsKnown, OnlyCalls
  <2> QED BY <2>1, <2>2, <2>4 DEF JobsSound
<1> QED BY <1>3, <1>4, <1>5, <1>6, <1>7 DEF CopyInv

(* The key at the cursor was not used before. *)
LEMMA FreshKey ==
  ASSUME TypedInv, InSnapshot, progress.nextCopy < CopyCount,
         NEW key, Matches(key, CursorKey(progress.nextCopy))
  PROVE  ~Spent(key)
<1>1. SUFFICES ASSUME Spent(key)  PROVE  FALSE
  OBVIOUS
<1>2. key.generation = gate.generation
  BY DEF Matches, CursorKey, KeyOf
<1>3. PICK copy \in 0..progress.nextCopy - 1 : Matches(key, CursorKey(copy))
  BY <1>1, <1>2 DEF Spent
<1>4. Matches(CursorKey(copy), CursorKey(progress.nextCopy))
  BY <1>3 DEF Matches
<1>5. progress.nextCopy \in Nat /\ gate.generation \in Nat
        /\ snapshotDays \in SUBSET Day
  BY GenerationFacts
<1>6. copy \in Nat /\ copy < progress.nextCopy
  BY <1>3, <1>5
<1>7. CopyCount \in Nat
  <2>1. ChunksOf(snapshotDays) \in Nat
    BY <1>5, ChunksType
  <2> QED BY <2>1, CopyCountIs
<1>8. /\ copy < ChunksOf(snapshotDays) * TargetCount
      /\ progress.nextCopy < ChunksOf(snapshotDays) * TargetCount
  BY <1>5, <1>6, <1>7, CopyCountIs
<1>9. copy = progress.nextCopy
  BY <1>4, <1>5, <1>6, <1>8, KeyInjective DEF CursorKey
<1> QED BY <1>6, <1>9

(* The owner of the generation, at its cursor, has the cursor's key. *)
LEMMA OwnerKey ==
  ASSUME NEW c \in Claims, PlanSound(c), Owner(c), run[c].at \in Planned,
         run[c].next = progress.nextCopy
  PROVE  RunKey(c) = CursorKey(progress.nextCopy)
BY DEF PlanSound, RunKey, CursorKey

(* The run of c records the Copy at the cursor. *)
RecordedStep(c) ==
  /\ ~erasing /\ Owner(c)
  /\ progress.nextCopy < CopyCount
  /\ \E i : /\ intents' = {i} /\ i.job = NoJob
            /\ Matches(i, CursorKey(progress.nextCopy))
  /\ intents = {}
  /\ gate' = gate /\ progress' = progress
  /\ UNCHANGED <<snapshotDays, lastGeneration, erasing>>

LEMMA RecordedSound ==
  ASSUME TypedInv, TypeOK', CopyInv, NEW c \in Claims, RecordedStep(c), OnlyCalls,
         OthersRest(c), SamePlan(c), At(c, "record"),
         At(c, "start")' \/ Caught(c)
  PROVE  CopyInv'
<1> DEFINE key == CursorKey(progress.nextCopy)
<1>1. Forward /\ JobsGo
  <2>1. lastGeneration' >= lastGeneration /\ progress'.nextCopy >= progress.nextCopy
    BY GenerationFacts DEF RecordedStep
  <2> QED BY <2>1, OnlyCallsGo DEF RecordedStep, Forward
<1>2. PlanSound(c) /\ PlanFrame(c) /\ CursorFrame(c) /\ run[c].at \in AtCursorPlaces
  BY DEF CopyInv, RunSound, PlanFrame, CursorFrame, RecordedStep, Owner,
         InSnapshot, At, AtCursorPlaces, Planned, Place, Unclaimed
<1>3. RunKey(c)' = key
  <2>1. RunKey(c) = key
    BY <1>2, OwnerKey, PlacesAre DEF RecordedStep, PlanSound
  <2> QED BY <2>1 DEF SamePlan, RunKey, KeyOf
<1>4. \A j \in jobs : ~Matches(j, key)
  <2>1. SUFFICES ASSUME NEW j \in jobs, Matches(j, key)  PROVE  FALSE
    OBVIOUS
  <2>2. ~Spent(j)
    BY <2>1, FreshKey DEF RecordedStep, Owner
  <2> QED BY <2>2 DEF CopyInv, JobsSound, JobsKnown, RecordedStep
<1>5. PICK i : intents' = {i} /\ i.job = NoJob /\ Matches(i, key)
  BY DEF RecordedStep
<1>6. Pending(c)'
  BY <1>3, <1>4, <1>5 DEF Pending, OnlyCalls, Matches
<1>7. \A d \in Claims : d # c => ~(Starter(d)' /\ Pending(d)')
  <2>1. SUFFICES ASSUME NEW d \in Claims, d # c, Starter(d)', Pending(d)'
                 PROVE  FALSE
    OBVIOUS
  <2>2. run'[d] = run[d] /\ RunKey(d)' = RunKey(d)
    BY <2>1 DEF OthersRest, RunKey, KeyOf
  <2>3. Matches(i, RunKey(d))
    BY <1>5, <2>1, <2>2 DEF Pending, Matches
  <2>4. Matches(RunKey(d), key)
    BY <1>5, <2>3 DEF Matches
  <2>5. ~Spent(RunKey(d))
    BY <2>4, FreshKey DEF RecordedStep, Owner
  <2>6. ~Pending(d)
    BY DEF Pending, RecordedStep
  <2> QED BY <2>1, <2>2, <2>5, <2>6 DEF CopyInv, RunSound, StartSound, Starter, At
<1>8. \A d \in Claims : RunSound(d)'
  <2>1. ASSUME NEW d \in Claims, d # c  PROVE  RunKept(d) /\ StartKept(d)
    <3>1. RunKept(d)
      BY <2>1 DEF RunKept, PlanFrame, CursorFrame, Owner, InSnapshot,
                  RecordedStep, OthersRest
    <3>2. ~Pending(d)
      BY DEF Pending, RecordedStep
    <3> QED BY <3>1, <3>2 DEF StartKept, CopyInv, RunSound, StartSound
  <2>2. RunSound(c)'
    <3>1. CASE At(c, "start")'
      <4>1. run'[c].at \in AtCursorPlaces
        BY <3>1, PlacesAre DEF At
      <4>2. PlanSound(c)'
        BY <1>2, <4>1, CursorMove
      <4>3. StartSound(c)' /\ FoundSound(c)' /\ PublishSound(c)'
        BY <1>6, <3>1 DEF StartSound, FoundSound, PublishSound, At
      <4> QED BY <4>2, <4>3 DEF RunSound
    <3>2. CASE Caught(c)
      BY <1>2, <3>2, CaughtSound, PlacesAre
    <3> QED BY <3>1, <3>2
  <2>3. \A d \in Claims : RunSound(d)' \/ (RunKept(d) /\ StartKept(d))
    BY <2>1, <2>2
  <2> QED BY <1>1, <2>3, AllSound
<1>9. OneStarter'
  BY <1>7 DEF OneStarter
<1>10. PublishedIsCopied'
  BY PublishedStays DEF CopyInv, OnlyCalls
<1>11. CursorCopied'
  BY DEF CopyInv, CursorCopied, RecordedStep, OnlyCalls, Copied, Matches, KeyOf,
         ChunksOf, InSnapshot
<1>12. JobsSound'
  <2>1. UniqueIds' /\ OneJobPerKey'
    BY DEF CopyInv, JobsSound, OnlyCalls, UniqueIds, OneJobPerKey, Matches
  <2>2. RunningCopyIsOwed' /\ IntentJobs'
    BY <1>5 DEF CopyInv, JobsSound, RunningCopyIsOwed, OnlyCalls, IntentJobs,
                RecordedStep
  <2>3. ASSUME NEW j \in jobs  PROVE  Spent(j)'
    <3>1. j.generation \in Nat \ {0}
      BY DEF TypedInv, RunnerTypeOK, Job
    <3>2. Spent(j)
      BY DEF CopyInv, JobsSound, JobsKnown, RecordedStep
    <3> QED BY <1>1, <3>1, <3>2, SpentStays
  <2>4. JobsKnown'
    BY <2>3 DEF JobsKnown, OnlyCalls
  <2> QED BY <2>1, <2>2, <2>4 DEF JobsSound
<1> QED BY <1>8, <1>9, <1>10, <1>11, <1>12 DEF CopyInv

(* The Copy at the cursor is done, and its owner moves the cursor on. *)
AdvancedStep(c) ==
  /\ Owner(c)
  /\ progress.nextCopy < CopyCount
  /\ intents # {} /\ intents' = {}
  /\ \A i \in intents : \E j \in jobs : Matches(j, i) /\ j.status = "done"
  /\ InSnapshot' /\ gate'.generation = gate.generation
  /\ progress'.claim = c /\ progress'.nextCopy = progress.nextCopy + 1
  /\ UNCHANGED <<snapshotDays, lastGeneration, erasing>>

LEMMA AdvancedSound ==
  ASSUME TypedInv, TypeOK', CopyInv, NEW c \in Claims, AdvancedStep(c), OnlyCalls,
         OthersRest(c), RunSound(c)', ~Starter(c)'
  PROVE  CopyInv'
<1> DEFINE key == CursorKey(progress.nextCopy)
<1>1. Forward /\ JobsGo
  <2>1. lastGeneration' >= lastGeneration /\ progress'.nextCopy >= progress.nextCopy
    BY GenerationFacts DEF AdvancedStep
  <2> QED BY <2>1, OnlyCallsGo DEF AdvancedStep, Forward
<1>2. PICK i \in intents : \A k \in intents : k = i
  BY IntentFacts DEF AdvancedStep
<1>3. Matches(i, key)
  BY IntentFacts
<1>4. PICK j \in jobs : Matches(j, i) /\ j.status = "done"
  BY DEF AdvancedStep
<1>5. \A d \in Claims : ~Pending(d)
  BY <1>2, <1>4 DEF Pending, Matches
<1>6. \A k \in jobs : Covered(k) => k = j
  BY <1>2, <1>4 DEF Covered, CopyInv, JobsSound, OneJobPerKey, Matches
<1>7. \A d \in Claims : RunSound(d)'
  <2>1. ASSUME NEW d \in Claims, d # c  PROVE  RunKept(d) /\ StartKept(d)
    <3>1. RunKept(d)
      BY <2>1 DEF RunKept, PlanFrame, CursorFrame, Owner, AdvancedStep, OthersRest
    <3> QED BY <1>5, <3>1 DEF StartKept, CopyInv, RunSound, StartSound
  <2>2. \A d \in Claims : RunSound(d)' \/ (RunKept(d) /\ StartKept(d))
    BY <2>1
  <2> QED BY <1>1, <2>2, AllSound
<1>8. OneStarter'
  BY DEF OneStarter, Pending, AdvancedStep
<1>9. PublishedIsCopied'
  BY PublishedStays DEF CopyInv, OnlyCalls
<1>10. CursorCopied'
  <2>1. SUFFICES ASSUME NEW copy \in 0..progress'.nextCopy - 1
        PROVE  \E k \in jobs : /\ k.status = "done"
                               /\ Matches(k, CursorKey(copy))
    BY DEF CursorCopied, Copied, OnlyCalls, Matches, CursorKey, KeyOf, ChunksOf,
           AdvancedStep
  <2>2. CASE copy = progress.nextCopy
    BY <1>3, <1>4, <2>2 DEF Matches
  <2>3. CASE copy # progress.nextCopy
    <3>1. copy \in 0..progress.nextCopy - 1
      BY <2>3, GenerationFacts DEF AdvancedStep
    <3> QED BY <3>1 DEF CopyInv, CursorCopied, Copied, CursorKey, AdvancedStep, Owner
  <2> QED BY <2>2, <2>3
<1>11. JobsSound'
  <2>1. UniqueIds' /\ OneJobPerKey'
    BY DEF CopyInv, JobsSound, OnlyCalls, UniqueIds, OneJobPerKey, Matches
  <2>2. \A k \in jobs : k.status # "working"
    BY <1>4, <1>6 DEF CopyInv, JobsSound, RunningCopyIsOwed, Covered
  <2>3. RunningCopyIsOwed' /\ IntentJobs'
    BY <2>2 DEF RunningCopyIsOwed, OnlyCalls, IntentJobs, AdvancedStep
  <2>4. ASSUME NEW k \in jobs  PROVE  erasing' \/ Spent(k)'
    <3>1. CASE erasing
      BY <3>1 DEF AdvancedStep
    <3>2. CASE Spent(k)
      <4>1. k.generation \in Nat \ {0}
        BY DEF TypedInv, RunnerTypeOK, Job
      <4> QED BY <1>1, <3>2, <4>1, SpentStays
    <3>3. CASE Covered(k)
      <4>1. Matches(k, key)
        BY <1>2, <1>3, <3>3 DEF Covered, Matches
      <4>2. progress.nextCopy \in 0..progress'.nextCopy - 1
        BY GenerationFacts DEF AdvancedStep
      <4> QED BY <4>1, <4>2 DEF Spent, AdvancedStep, Matches, CursorKey, KeyOf,
                                ChunksOf
    <3> QED BY <3>1, <3>2, <3>3 DEF CopyInv, JobsSound, JobsKnown, Covered
  <2>5. JobsKnown'
    BY <2>4 DEF JobsKnown, OnlyCalls
  <2> QED BY <2>1, <2>3, <2>5 DEF JobsSound
<1> QED BY <1>7, <1>8, <1>9, <1>10, <1>11 DEF CopyInv

-----------------------------------------------------------------------------
(* Steps the coordinator does not see *)

LEMMA UnseenFrame ==
  ASSUME TypedInv, UNCHANGED vars
  PROVE  /\ Forward /\ SameStep
         /\ \A d \in Claims : PlanFrame(d) /\ CursorFrame(d)
<1>1. lastGeneration \in Nat /\ progress.nextCopy \in Nat
  BY GenerationFacts
<1> QED BY <1>1 DEF vars, captureVars, copyVars, Forward, SameStep, PlanFrame,
                    CursorFrame, Owner, InSnapshot

(* Tinybird accepts the Copy of the run at start. *)
LEMMA AcceptedSound ==
  ASSUME TypedInv, RunnerTypeOK', CopyInv, UNCHANGED <<vars, manifests>>,
         NEW c \in Claims, At(c, "start"), NEW id \in Jobs, Accepted(c, id),
         OthersRest(c), SamePlan(c),
         (At(c, "attach")' /\ run'[c].job = id) \/ Caught(c)
  PROVE  CopyInv'
<1> DEFINE new == [id |-> id, status |-> "working",
                   generation |-> RunKey(c).generation,
                   target |-> RunKey(c).target, attempt |-> RunKey(c).attempt]
<1>1. Forward /\ SameStep /\ \A d \in Claims : PlanFrame(d) /\ CursorFrame(d)
  BY UnseenFrame
<1>2. /\ jobs' = jobs \cup {new} /\ \A j \in jobs : j.id # id
      /\ new.id = id /\ new.status = "working"
      /\ \A key : Matches(key, new) <=> Matches(key, RunKey(c))
      /\ \A key : Matches(new, key) <=> Matches(RunKey(c), key)
  BY DEF Accepted, Matches
<1> HIDE DEF new
<1>3. JobsGo
  BY <1>2 DEF JobsGo, Matches
<1>4. Pending(c)
  BY DEF CopyInv, RunSound, StartSound
<1>5. RunKey(c)' = RunKey(c)
  BY DEF SamePlan, RunKey, KeyOf
<1>6. \A d \in Claims : d # c /\ Starter(d) => ~Pending(d)
  BY <1>4 DEF CopyInv, OneStarter, Starter, At
<1>7. \A d \in Claims : RunSound(d)'
  <2>1. ASSUME NEW d \in Claims, d # c  PROVE  RunKept(d) /\ StartKept(d)
    <3>1. RunKept(d)
      BY <1>1, <2>1 DEF RunKept, OthersRest
    <3> QED BY <1>6, <2>1, <3>1 DEF StartKept, CopyInv, RunSound, StartSound,
                                    Starter, At
  <2>2. RunSound(c)'
    <3>1. PlanSound(c) /\ run[c].at \in AtCursorPlaces /\ run[c].at \in Planned
      BY PlacesAre DEF CopyInv, RunSound, At
    <3>2. CASE Caught(c)
      BY <1>1, <3>1, <3>2, CaughtSound
    <3>3. CASE At(c, "attach")' /\ run'[c].job = id
      <4>1. run'[c].at \in AtCursorPlaces
        BY <3>3, PlacesAre DEF At
      <4>2. PlanSound(c)'
        BY <1>1, <3>1, <4>1, CursorMove
      <4>3. Matches(new, RunKey(c))
        BY <1>2 DEF Matches
      <4>4. FoundSound(c)'
        BY <1>2, <1>5, <3>3, <4>3 DEF FoundSound, At, Matches
      <4>5. StartSound(c)' /\ PublishSound(c)'
        BY <3>3 DEF StartSound, PublishSound, At
      <4> QED BY <4>2, <4>4, <4>5 DEF RunSound
    <3> QED BY <3>2, <3>3
  <2>3. \A d \in Claims : RunSound(d)' \/ (RunKept(d) /\ StartKept(d))
    BY <2>1, <2>2
  <2> QED BY <1>1, <1>3, <2>3, AllSound DEF RunnerTypeOK
<1>8. OneStarter'
  <2>1. ASSUME NEW d \in Claims, Starter(d)', Pending(d)'
        PROVE  Starter(d) /\ Pending(d)
    <3>1. d # c
      BY <2>1 DEF Starter, Caught, At
    <3>2. run'[d] = run[d] /\ RunKey(d)' = RunKey(d)
      BY <3>1 DEF OthersRest, RunKey, KeyOf
    <3>3. Pending(d)
      BY <1>2, <2>1, <3>2 DEF Pending, vars, copyVars, Matches
    <3> QED BY <2>1, <3>2, <3>3 DEF Starter
  <2> QED BY <2>1, OneStarterStays DEF CopyInv
<1>9. PublishedIsCopied'
  BY <1>2 DEF CopyInv, PublishedIsCopied, KeysOf, KeyOf, Matches, ChunksOf
<1>10. CursorCopied'
  <2>1. InSnapshot => Copied(gate.generation, snapshotDays, progress.nextCopy)'
    BY <1>2 DEF CopyInv, CursorCopied, Copied, vars, captureVars, Matches, KeyOf,
                ChunksOf
  <2> QED BY <2>1 DEF CursorCopied, vars, captureVars, InSnapshot
<1>11. JobsSound'
  <2>1. UniqueIds'
    BY <1>2 DEF CopyInv, JobsSound, UniqueIds
  <2>2. \A j \in jobs : ~Matches(j, new) /\ ~Matches(new, j)
    BY <1>2, <1>4 DEF Pending, Matches
  <2>3. OneJobPerKey'
    BY <1>2, <2>2 DEF CopyInv, JobsSound, OneJobPerKey, Matches
  <2>4. PICK i \in intents : i.job = NoJob /\ Matches(i, new)
    BY <1>2, <1>4 DEF Pending
  <2>5. intents' = intents
    BY DEF vars, copyVars
  <2>6. RunningCopyIsOwed'
    BY <1>2, <2>4, <2>5 DEF CopyInv, JobsSound, RunningCopyIsOwed, Matches
  <2>7. JobsKnown'
    <3>1. ASSUME NEW j \in jobs
          PROVE  erasing' \/ Spent(j)' \/ \E k \in intents : Matches(k, j)
      <4>1. CASE Spent(j)
        <5>1. j.generation \in Nat \ {0}
          BY DEF TypedInv, RunnerTypeOK, Job
        <5> QED BY <1>1, <4>1, <5>1, SpentStays DEF RunnerTypeOK
      <4> QED BY <1>1, <4>1 DEF CopyInv, JobsSound, JobsKnown, SameStep
    <3> QED BY <1>2, <2>4, <2>5, <3>1 DEF JobsKnown, Matches
  <2>8. IntentJobs'
    BY <1>2, <2>5 DEF CopyInv, JobsSound, IntentJobs, Matches
  <2> QED BY <2>1, <2>3, <2>6, <2>7, <2>8 DEF JobsSound
<1> QED BY <1>7, <1>8, <1>9, <1>10, <1>11 DEF CopyInv

(* No job is new, and what is known of the jobs is kept. *)
JobsRemain ==
  /\ JobsGo
  /\ \A k \in jobs' : \E j \in jobs :
       k.id = j.id /\ Matches(j, k) /\ (k.status = "working" => j.status = "working")

LEMMA RemainStarts ==
  ASSUME UNCHANGED vars, JobsRemain, NEW d \in Claims, RunKey(d)' = RunKey(d)
  PROVE  Pending(d)' <=> Pending(d)
<1>1. intents' = intents
  BY DEF vars, copyVars
<1>2. (\A j \in jobs : ~Matches(j, RunKey(d))) <=> \A k \in jobs' : ~Matches(k, RunKey(d))
  BY DEF JobsRemain, JobsGo, Matches
<1> QED BY <1>1, <1>2 DEF Pending, Matches

LEMMA UnseenSound ==
  ASSUME TypedInv, RunnerTypeOK', CopyInv, UNCHANGED vars, JobsRemain,
         UniqueIds', OneJobPerKey', PublishedIsCopied',
         \A d \in Claims : \/ run'[d] = run[d]
                           \/ /\ RunSound(d)' /\ SamePlan(d)
                              /\ Starter(d)' => Starter(d)
                           \/ RunSound(d)' /\ ~Starter(d)'
  PROVE  CopyInv'
<1>1. Forward /\ \A d \in Claims : PlanFrame(d) /\ CursorFrame(d)
  BY UnseenFrame
<1>2. intents' = intents /\ erasing' = erasing
  BY DEF vars, copyVars
<1>3. \A d \in Claims : RunSound(d)'
  <2>1. ASSUME NEW d \in Claims, run'[d] = run[d]  PROVE  RunKept(d) /\ StartKept(d)
    <3>1. RunKept(d)
      BY <1>1, <2>1 DEF RunKept
    <3>2. Pending(d)' <=> Pending(d)
      BY <2>1, RemainStarts DEF RunKey, KeyOf
    <3> QED BY <3>1, <3>2 DEF StartKept, CopyInv, RunSound, StartSound
  <2>2. \A d \in Claims : RunSound(d)' \/ (RunKept(d) /\ StartKept(d))
    BY <2>1
  <2> QED BY <1>1, <2>2, AllSound DEF JobsRemain, RunnerTypeOK
<1>4. OneStarter'
  <2>1. ASSUME NEW d \in Claims, Starter(d)', Pending(d)'
        PROVE  Starter(d) /\ Pending(d)
    <3>1. RunKey(d)' = RunKey(d) /\ Starter(d)
      BY <2>1 DEF SamePlan, RunKey, KeyOf, Starter
    <3> QED BY <2>1, <3>1, RemainStarts
  <2> QED BY <2>1, OneStarterStays DEF CopyInv
<1>5. CursorCopied'
  <2>1. ASSUME InSnapshot
        PROVE  Copied(gate.generation, snapshotDays, progress.nextCopy)'
    <3>1. PICK g, ds, n : g = gate.generation /\ ds = snapshotDays
                            /\ n = progress.nextCopy
      OBVIOUS
    <3>2. Copied(g, ds, n)'
      BY <2>1, <3>1, CopiedStays DEF CopyInv, CursorCopied, JobsRemain
    <3> QED BY <3>1, <3>2 DEF Copied, KeyOf, Matches, ChunksOf, vars, captureVars
  <2> QED BY <2>1 DEF CursorCopied, vars, captureVars, InSnapshot
<1>6. JobsSound'
  <2>1. RunningCopyIsOwed'
    BY <1>2 DEF CopyInv, JobsSound, RunningCopyIsOwed, JobsRemain, Matches
  <2>2. JobsKnown'
    <3>1. SUFFICES ASSUME NEW k \in jobs'
          PROVE  erasing' \/ Spent(k)' \/ \E i \in intents : Matches(i, k)
      BY <1>2 DEF JobsKnown, Matches
    <3>2. PICK j \in jobs : Matches(j, k)
      BY DEF JobsRemain
    <3>3. CASE Spent(j)
      <4>1. j.generation \in Nat \ {0}
        BY DEF TypedInv, RunnerTypeOK, Job
      <4>2. Spent(k)
        BY <3>2, <3>3 DEF Spent, Matches
      <4>3. k.generation \in Nat \ {0}
        BY <3>2, <4>1 DEF Matches
      <4> QED BY <1>1, <4>2, <4>3, SpentStays DEF RunnerTypeOK
    <3>4. CASE erasing \/ \E i \in intents : Matches(i, j)
      BY <1>2, <3>2, <3>4 DEF Matches
    <3> QED BY <3>3, <3>4 DEF CopyInv, JobsSound, JobsKnown
  <2>3. IntentJobs'
    <3>1. SUFFICES ASSUME NEW i \in intents, i.job # NoJob
          PROVE  \E k \in jobs' : k.id = i.job /\ Matches(k, i)
      BY <1>2 DEF IntentJobs, Matches
    <3>2. PICK j \in jobs : j.id = i.job /\ Matches(j, i)
      BY <3>1 DEF CopyInv, JobsSound, IntentJobs
    <3>3. PICK k \in jobs' : k.id = j.id /\ Matches(k, j)
      BY DEF JobsRemain, JobsGo
    <3> QED BY <3>2, <3>3 DEF Matches
  <2> QED BY <2>1, <2>2, <2>3 DEF JobsSound
<1> QED BY <1>3, <1>4, <1>5, <1>6 DEF CopyInv

LEMMA SameJobsRemain ==
  ASSUME UNCHANGED jobs, manifests \subseteq manifests', CopyInv
  PROVE  JobsRemain /\ UniqueIds' /\ OneJobPerKey'
BY DEF JobsRemain, JobsGo, UniqueIds, OneJobPerKey, CopyInv, JobsSound, Matches

LEMMA StartCopySafe ==
  ASSUME TypedInv, RunnerTypeOK', CopyInv, NEW c \in Claims, StartCopy(c)
  PROVE  CopyInv'
<1>1. At(c, "start") /\ UNCHANGED <<vars, manifests>>
  BY DEF StartCopy
<1>2. /\ PlanSound(c) /\ PlanFrame(c) /\ CursorFrame(c)
      /\ run[c].at \in AtCursorPlaces /\ run[c].at \in Planned
  BY <1>1, UnseenFrame, PlacesAre DEF CopyInv, RunSound, At
<1>3. run \in [Claims -> Run] /\ faults \in 0..MaxFaults /\ run[c] \in Run
  BY DEF TypedInv, RunnerTypeOK
<1>4. ASSUME NEW id \in Jobs, Accepted(c, id),
             Called(c, [run[c] EXCEPT !.at = "attach", !.job = id])
      PROVE  CopyInv'
  <2> DEFINE next == [run[c] EXCEPT !.at = "attach", !.job = id]
  <2>1. /\ next \in Run /\ next.at = "attach" /\ next.job = id
        /\ next.generation = run[c].generation /\ next.days = run[c].days
        /\ next.next = run[c].next
    BY <1>3 DEF Run, Place
  <2>2. Called(c, next)
    BY <1>4
  <2> HIDE DEF next
  <2>3. OthersRest(c) /\ (run'[c] = next \/ Caught(c))
    BY <1>3, <2>1, <2>2, CalledStep
  <2>4. SamePlan(c) /\ ((At(c, "attach")' /\ run'[c].job = id) \/ Caught(c))
    BY <2>1, <2>3 DEF SamePlan, Caught, At
  <2> QED BY <1>1, <1>4, <2>3, <2>4, AcceptedSound
<1>5. ASSUME Goto(c, "reject"), UNCHANGED jobs
      PROVE  CopyInv'
  <2>1. run'[c].at = "reject" /\ SamePlan(c) /\ OthersRest(c)
    BY <1>3, <1>5, GotoStep DEF Place
  <2>2. JobsRemain /\ UniqueIds' /\ OneJobPerKey' /\ PublishedIsCopied'
    BY <1>1, <1>5, SameJobsRemain, PublishedStays DEF CopyInv
  <2>3. RunSound(c)'
    <3>1. PlanSound(c)'
      BY <1>2, <2>1, CursorMove, PlacesAre
    <3>2. RunKey(c)' = RunKey(c)
      BY <2>1 DEF SamePlan, RunKey, KeyOf
    <3>3. Pending(c)'
      BY <1>1, <2>2, <3>2, RemainStarts DEF CopyInv, RunSound, StartSound
    <3>4. StartSound(c)' /\ FoundSound(c)' /\ PublishSound(c)'
      BY <2>1, <3>3 DEF StartSound, FoundSound, PublishSound, At
    <3> QED BY <3>1, <3>4 DEF RunSound
  <2>4. Starter(c)
    BY <1>1 DEF Starter, At
  <2> QED BY <1>1, <2>1, <2>2, <2>3, <2>4, UnseenSound DEF OthersRest
<1>6. ASSUME Goto(c, "failed"), UNCHANGED jobs
      PROVE  CopyInv'
  <2>1. Caught(c) /\ OthersRest(c)
    BY <1>3, <1>6, GotoStep DEF Place, Caught
  <2>2. JobsRemain /\ UniqueIds' /\ OneJobPerKey' /\ PublishedIsCopied'
    BY <1>1, <1>6, SameJobsRemain, PublishedStays DEF CopyInv
  <2>3. RunSound(c)' /\ ~Starter(c)'
    BY <1>2, <2>1, CaughtSound DEF Caught, Starter
  <2> QED BY <1>1, <2>1, <2>2, <2>3, UnseenSound DEF OthersRest
<1> QED BY <1>4, <1>5, <1>6 DEF StartCopy

LEMMA PublishSafe ==
  ASSUME TypedInv, RunnerTypeOK', CopyInv, NEW c \in Claims, PublishManifest(c)
  PROVE  CopyInv'
<1> DEFINE row == [generation |-> run[c].generation, days |-> run[c].days]
<1>1. /\ At(c, "publish") /\ UNCHANGED <<vars, jobs>>
      /\ manifests' = manifests \cup {row} /\ Then(c, "finish")
  BY DEF PublishManifest
<1>2. /\ PlanSound(c) /\ PublishSound(c) /\ PlanFrame(c) /\ CursorFrame(c)
      /\ run[c].at \in AtCursorPlaces /\ run[c].at \in Planned
  BY <1>1, UnseenFrame, PlacesAre DEF CopyInv, RunSound, At
<1>3. /\ OthersRest(c)
      /\ (run'[c].at = "finish" /\ SamePlan(c)) \/ Caught(c)
  BY <1>1, ThenStep DEF Place, TypedInv, RunnerTypeOK
<1>4. JobsRemain /\ UniqueIds' /\ OneJobPerKey'
  BY <1>1, SameJobsRemain
<1>5. row.generation = run[c].generation /\ row.days = run[c].days
  OBVIOUS
<1>6. PublishedIsCopied'
  <2>1. SUFFICES ASSUME NEW m \in manifests', NEW key \in KeysOf(m.generation, m.days)
        PROVE  \E j \in jobs : Matches(j, key) /\ j.status = "done"
    BY <1>1 DEF PublishedIsCopied, KeysOf, KeyOf, ChunksOf, Matches
  <2>2. CASE m \in manifests
    BY <2>1, <2>2 DEF CopyInv, PublishedIsCopied
  <2>3. CASE m = row
    <3>1. PICK copy \in 0..ChunksOf(m.days) * TargetCount - 1 :
            key = KeyOf(m.generation, m.days, copy)
      BY <2>1 DEF KeysOf
    <3>2. Copied(m.generation, m.days, ChunksOf(m.days) * TargetCount)
      BY <1>1, <1>2, <1>5, <2>3 DEF PublishSound
    <3> QED BY <3>1, <3>2 DEF Copied
  <2> QED BY <1>1, <2>2, <2>3
<1>7. RunSound(c)' /\ ~Starter(c)'
  <2>1. CASE Caught(c)
    BY <1>2, <2>1, CaughtSound DEF Caught, Starter
  <2>2. CASE run'[c].at = "finish" /\ SamePlan(c)
    <3>1. PlanSound(c)'
      BY <1>2, <2>2, CursorMove, PlacesAre
    <3>2. PublishSound(c)'
      BY <1>1, <2>2 DEF PublishSound, At, SamePlan
    <3>3. StartSound(c)' /\ FoundSound(c)' /\ ~Starter(c)'
      BY <2>2 DEF StartSound, FoundSound, Starter, At
    <3> QED BY <3>1, <3>2, <3>3 DEF RunSound
  <2> QED BY <1>3, <2>1, <2>2
<1> HIDE DEF row
<1> QED BY <1>1, <1>3, <1>4, <1>6, <1>7, UnseenSound DEF OthersRest

LEMMA JobEndsSafe ==
  ASSUME TypedInv, RunnerTypeOK', CopyInv, JobEnds
  PROVE  CopyInv'
<1>1. PICK j \in jobs, outcome \in {"done", "error"} :
        /\ j.status = "working"
        /\ jobs' = (jobs \ {j}) \cup {[j EXCEPT !.status = outcome]}
  BY DEF JobEnds
<1> DEFINE ended == [j EXCEPT !.status = outcome]
<1>2. /\ ended.id = j.id /\ ended.status = outcome
      /\ \A key : Matches(ended, key) <=> Matches(j, key)
      /\ \A key : Matches(key, ended) <=> Matches(key, j)
  BY DEF Matches, TypedInv, RunnerTypeOK, Job
<1>3. jobs' = (jobs \ {j}) \cup {ended}
  BY <1>1
<1>4. outcome \in {"done", "error"}
  BY <1>1
<1> HIDE DEF ended
<1>5. UNCHANGED <<vars, run, manifests>>
  BY DEF JobEnds
<1>6. JobsRemain
  <2>1. JobsGo
    BY <1>1, <1>2, <1>3, <1>5 DEF JobsGo, Matches
  <2>2. \A k \in jobs' : \E i \in jobs :
           k.id = i.id /\ Matches(i, k) /\ (k.status = "working" => i.status = "working")
    BY <1>1, <1>2, <1>3, <1>4 DEF Matches
  <2> QED BY <2>1, <2>2 DEF JobsRemain
<1>7. UniqueIds' /\ OneJobPerKey'
  BY <1>2, <1>3 DEF CopyInv, JobsSound, UniqueIds, OneJobPerKey, Matches
<1>8. PublishedIsCopied'
  <2>1. SUFFICES ASSUME NEW m \in manifests, NEW key \in KeysOf(m.generation, m.days)
        PROVE  \E k \in jobs' : Matches(k, key) /\ k.status = "done"
    BY <1>5 DEF PublishedIsCopied, KeysOf, KeyOf, ChunksOf, Matches
  <2>2. PICK k \in jobs : Matches(k, key) /\ k.status = "done"
    BY <2>1 DEF CopyInv, PublishedIsCopied
  <2> QED BY <1>1, <1>3, <2>2
<1> QED BY <1>5, <1>6, <1>7, <1>8, UnseenSound

-----------------------------------------------------------------------------
(* Steps that leave the generation, the claim and the intents alone *)

QuietStep == SameStep /\ progress'.claim = progress.claim

LEMMA QuietVars == UNCHANGED vars => QuietStep
BY DEF vars, captureVars, copyVars, QuietStep, SameStep, InSnapshot

LEMMA QuietFrame ==
  ASSUME QuietStep, NEW d \in Claims
  PROVE  PlanFrame(d) /\ CursorFrame(d)
BY DEF QuietStep, SameStep, PlanFrame, CursorFrame, Owner

LEMMA QuietSound ==
  ASSUME TypedInv, TypeOK', CopyInv, QuietStep, OnlyCalls,
         NEW c \in Claims, OthersRest(c), RunSound(c)', ~Starter(c)'
  PROVE  CopyInv'
<1>1. KeptStep
  BY SameIsKept DEF QuietStep, CopyInv
<1>2. RunsRest
  BY QuietFrame DEF RunsRest, RunKept, OthersRest
<1> QED BY <1>1, <1>2, KeptSound

LEMMA QuietAlone ==
  ASSUME TypedInv, TypeOK', CopyInv, QuietStep, OnlyCalls, UNCHANGED run
  PROVE  CopyInv'
<1>1. KeptStep
  BY SameIsKept DEF QuietStep, CopyInv
<1>2. RunsRest
  BY QuietFrame DEF RunsRest, RunKept
<1> QED BY <1>1, <1>2, KeptSound

LEMMA QuietIdle ==
  ASSUME TypedInv, TypeOK', CopyInv, QuietStep, OnlyCalls,
         NEW c \in Claims, OthersRest(c), run'[c].at \in {"idle", "retry"}
  PROVE  CopyInv'
<1>1. RunSound(c)' /\ ~Starter(c)'
  BY QuietFrame, FreeMove DEF CopyInv, RunSound, FreePlaces, Starter
<1> QED BY <1>1, QuietSound

LEMMA QuietFree ==
  ASSUME TypedInv, TypeOK', CopyInv, QuietStep, OnlyCalls,
         NEW c \in Claims, OthersRest(c), SamePlan(c),
         run[c].at \in Planned, run'[c].at \in FreePlaces
  PROVE  CopyInv'
<1>1. RunSound(c)' /\ ~Starter(c)'
  BY QuietFrame, FreeMove DEF CopyInv, RunSound, FreePlaces, Starter, SamePlan
<1> QED BY <1>1, QuietSound

LEMMA QuietCaught ==
  ASSUME TypedInv, TypeOK', CopyInv, QuietStep, OnlyCalls,
         NEW c \in Claims, OthersRest(c), run[c].at \in Planned, Caught(c)
  PROVE  CopyInv'
BY QuietFree DEF Caught, FreePlaces

LEMMA QuietPlain ==
  ASSUME TypedInv, TypeOK', CopyInv, QuietStep, OnlyCalls,
         NEW c \in Claims, OthersRest(c), SamePlan(c),
         run[c].at \in AtCursorPlaces, run'[c].at \in PlainPlaces
  PROVE  CopyInv'
<1>1. RunSound(c)' /\ ~Starter(c)'
  BY QuietFrame, PlainMove DEF CopyInv, RunSound, PlainPlaces, Starter
<1> QED BY <1>1, QuietSound

(* The usual ends of a call: the next place, or the catch block. *)
LEMMA QuietThen ==
  ASSUME TypedInv, TypeOK', CopyInv, QuietStep, OnlyCalls,
         NEW c \in Claims, NEW place \in Place, Then(c, place),
         run[c].at \in AtCursorPlaces, place \in PlainPlaces \cup FreePlaces
  PROVE  CopyInv'
<1>1. /\ OthersRest(c)
      /\ (run'[c].at = place /\ SamePlan(c)) \/ Caught(c)
  BY ThenStep DEF TypedInv, RunnerTypeOK
<1>2. run[c].at \in Planned
  BY PlacesAre
<1> QED BY <1>1, <1>2, QuietFree, QuietPlain, QuietCaught

LEMMA QuietThrows ==
  ASSUME TypedInv, TypeOK', CopyInv, QuietStep, OnlyCalls,
         NEW c \in Claims, Throws(c), run[c].at \in Planned
  PROVE  CopyInv'
BY ThrowsStep, QuietCaught DEF TypedInv, RunnerTypeOK

LEMMA QuietGoto ==
  ASSUME TypedInv, TypeOK', CopyInv, QuietStep, OnlyCalls,
         NEW c \in Claims, NEW place \in Place, Goto(c, place),
         \/ place \in {"idle", "retry"}
         \/ run[c].at \in Planned /\ place \in FreePlaces
         \/ run[c].at \in AtCursorPlaces /\ place \in PlainPlaces
  PROVE  CopyInv'
<1>1. run'[c].at = place /\ SamePlan(c) /\ OthersRest(c)
  BY GotoStep DEF TypedInv, RunnerTypeOK
<1> QED BY <1>1, QuietIdle, QuietFree, QuietPlain

-----------------------------------------------------------------------------
(* The coordinator's calls, by their shape *)

LEMMA HousekeepQuiet ==
  ASSUME TypedInv, Housekeep, UNCHANGED <<lastGeneration, progress, intents, erasing>>
  PROVE  QuietStep
<1>1. CASE DrainLapsed
  <2>1. ~InSnapshot /\ gate'.phase = "open" /\ gate'.generation = 0
          /\ snapshotDays' = {}
    BY <1>1 DEF DrainLapsed, InSnapshot, Housekeep, RecoveredGate, RecoveredDays,
                OpenGate
  <2> QED BY <2>1, GenerationFacts DEF QuietStep, SameStep, InSnapshot
<1>2. CASE ~DrainLapsed
  BY <1>2 DEF Housekeep, RecoveredGate, RecoveredDays, QuietStep, SameStep,
              InSnapshot
<1> QED BY <1>1, <1>2

LEMMA GetStatsQuiet ==
  ASSUME TypedInv, GetStats
  PROVE  QuietStep
BY HousekeepQuiet DEF GetStats, copyVars

LEMMA RecoveredIdle ==
  ASSUME TypedInv, RecoveredGate.phase # "snapshot"
  PROVE  ~InSnapshot /\ RecoveredDays = {} /\ RecoveredGate.generation = 0
<1>1. ~InSnapshot
  BY DEF RecoveredGate, DrainLapsed, InSnapshot
<1> QED BY <1>1, GenerationFacts DEF RecoveredDays, RecoveredGate, OpenGate

LEMMA IdleQuiet ==
  ASSUME TypedInv, ~InSnapshot, ~InSnapshot', gate'.generation = 0,
         snapshotDays' = {}, UNCHANGED <<lastGeneration, progress, intents, erasing>>
  PROVE  QuietStep
BY GenerationFacts DEF QuietStep, SameStep, InSnapshot

LEMMA RequestQuiet ==
  ASSUME TypedInv, RequestSnapshot
  PROVE  QuietStep
<1>1. ~InSnapshot /\ RecoveredDays = {} /\ RecoveredGate.generation = 0
  BY RecoveredIdle DEF RequestSnapshot
<1>2. gate'.phase # "snapshot" /\ gate'.generation = 0
  BY <1>1 DEF RequestSnapshot
<1> QED BY <1>1, <1>2, IdleQuiet DEF RequestSnapshot, copyVars, InSnapshot

LEMMA BeginEmptyQuiet ==
  ASSUME TypedInv, BeginEmptySnapshot
  PROVE  QuietStep
<1>1. ~InSnapshot /\ RecoveredDays = {}
  BY RecoveredIdle DEF BeginEmptySnapshot
<1> QED BY <1>1, IdleQuiet
        DEF BeginEmptySnapshot, copyVars, OpenGate, InSnapshot

LEMMA CallsQuiet ==
  ASSUME TypedInv, NEW c, NEW recovery,
         \/ ScheduleSnapshotContinuation \/ ReleaseSnapshotClaim(c)
         \/ PrepareManifest(c) \/ PrepareCheck(c, recovery) \/ RequireRecovery(c)
         \/ ResumeFailed \/ ResumeBlocked \/ ResumeInterrupted \/ Midnight
         \/ (\E ds \in SUBSET Day : ResolveIncompleteDays(ds))
  PROVE  QuietStep
<1>1. gate \in Gate /\ progress \in Progress
  BY DEF TypedInv, RunnerTypeOK, TypeOK
<1> USE DEF QuietStep, SameStep, InSnapshot, captureVars, copyVars
<1>2. CASE ReleaseSnapshotClaim(c)
  BY <1>1, <1>2 DEF ReleaseSnapshotClaim, SetLease, Gate
<1>3. CASE PrepareManifest(c)
  BY <1>1, <1>3 DEF PrepareManifest, Progress
<1>4. CASE ScheduleSnapshotContinuation \/ PrepareCheck(c, recovery)
             \/ RequireRecovery(c) \/ ResumeFailed \/ ResumeBlocked
             \/ ResumeInterrupted \/ Midnight
  BY <1>4 DEF ScheduleSnapshotContinuation, PrepareCheck, RequireRecovery,
              ResumeFailed, ResumeBlocked, ResumeInterrupted, ResumeChecks, Midnight
<1>5. CASE \E ds \in SUBSET Day : ResolveIncompleteDays(ds)
  BY <1>5 DEF ResolveIncompleteDays
<1> QED BY <1>2, <1>3, <1>4, <1>5

LEMMA TickQuiet ==
  ASSUME TypedInv, Tick
  PROVE  QuietStep
<1>1. gate \in Gate
  BY DEF TypedInv, RunnerTypeOK, TypeOK
<1> QED BY <1>1 DEF Tick, Gate, QuietStep, SameStep, InSnapshot

LEMMA AlarmQuiet ==
  ASSUME TypedInv, Alarm
  PROVE  QuietStep
BY HousekeepQuiet DEF Alarm, copyVars

LEMMA DeliveryQuiet ==
  ASSUME TypedInv, NEW d \in Deliveries, NEW ds, NEW age, NEW held,
         \/ Reserve(d, ds, age) \/ FinishDelivery(d, ds, held) \/ Complete(d)
         \/ ScheduleSnapshot \/ Expire(d)
  PROVE  QuietStep
<1>1. CASE Reserve(d, ds, age)
  BY <1>1, HousekeepQuiet DEF Reserve, copyVars
<1>2. CASE FinishDelivery(d, ds, held) \/ Complete(d) \/ ScheduleSnapshot \/ Expire(d)
  BY <1>2 DEF FinishDelivery, Complete, ScheduleSnapshot, Expire, captureVars,
              copyVars, QuietStep, SameStep, InSnapshot
<1> QED BY <1>1, <1>2

LEMMA ClaimKept ==
  ASSUME TypedInv, JobsSound, NEW c \in Claims, ClaimSnapshot(c), OnlyCalls
  PROVE  KeptStep /\ InSnapshot' /\ progress'.claim = c
<1>1. gate \in Gate /\ progress \in Progress
  BY DEF TypedInv, RunnerTypeOK, TypeOK
<1>2. /\ InSnapshot /\ InSnapshot' /\ gate'.generation = gate.generation
      /\ progress'.nextCopy = progress.nextCopy /\ progress'.claim = c
  BY <1>1 DEF ClaimSnapshot, SetLease, Gate, Progress, InSnapshot
<1>3. SameStep
  BY <1>2 DEF SameStep, ClaimSnapshot, copyVars
<1> QED BY <1>2, <1>3, SameIsKept

LEMMA BeginIsBegun ==
  ASSUME TypedInv, NEW c \in Claims, BeginSnapshot(c)
  PROVE  BegunStep(c)
<1>1. ~InSnapshot
  BY RecoveredIdle DEF BeginSnapshot
<1>2. progress'.claim = c /\ progress'.nextCopy = 0
  BY DEF BeginSnapshot, NoProgress
<1>3. gate'.phase = "snapshot" /\ gate'.generation = lastGeneration + 1
  BY DEF BeginSnapshot
<1> QED BY <1>1, <1>2, <1>3 DEF BeginSnapshot, BegunStep, InSnapshot, copyVars

LEMMA OpenedEnds ==
  ASSUME TypedInv, InSnapshot, gate' = OpenGate, progress' = NoProgress,
         intents' = {}, UNCHANGED <<lastGeneration, erasing>>,
         \A j \in jobs : Covered(j) => j.status # "working"
  PROVE  EndedStep
BY DEF OpenGate, NoProgress, EndedStep, InSnapshot

LEMMA FailEnds ==
  ASSUME TypedInv, NEW c \in Claims, NEW recorded,
         FailSnapshot(c, recorded) \/ FinishSnapshot(c)
  PROVE  EndedStep /\ intents = {}
<1>1. /\ InSnapshot /\ gate' = OpenGate /\ progress' = NoProgress
      /\ intents = {} /\ UNCHANGED <<intents, lastGeneration, erasing>>
  BY DEF FailSnapshot, FinishSnapshot, HoldsClaim, NoCopyOwed, AbandonGeneration,
         InSnapshot
<1> QED BY <1>1, OpenedEnds DEF Covered

(* A failing Copy was the only one owed. *)
LEMMA FailedEnds ==
  ASSUME TypedInv, NEW i \in intents, intents' = intents \ {i}, FailGeneration,
         \A j \in jobs : Matches(i, j) => j.status # "working"
  PROVE  EndedStep
<1>1. InSnapshot /\ intents = {i}
  BY IntentFacts
<1>2. /\ gate' = OpenGate /\ progress' = NoProgress
      /\ UNCHANGED <<lastGeneration, erasing>>
  BY DEF FailGeneration, AbandonGeneration
<1>3. \A j \in jobs : Covered(j) => j.status # "working"
  BY <1>1 DEF Covered
<1> QED BY <1>1, <1>2, <1>3, OpenedEnds

LEMMA RecordIsRecorded ==
  ASSUME TypedInv, NEW c \in Claims, RecordCopyIntent(c)
  PROVE  RecordedStep(c)
<1> DEFINE i == [generation |-> gate.generation,
                 target |-> CopyKey(progress.nextCopy).target,
                 attempt |-> CopyKey(progress.nextCopy).attempt, job |-> NoJob]
<1>1. intents = {}
  BY IntentFacts, CursorKeyIs DEF RecordCopyIntent
<1>2. AtCursor(i) /\ i.job = NoJob
  BY DEF AtCursor
<1>3. intents' = intents \cup {i}
  BY DEF RecordCopyIntent
<1> HIDE DEF i
<1>4. Matches(i, CursorKey(progress.nextCopy)) /\ intents' = {i}
  BY <1>1, <1>2, <1>3, CursorKeyIs
<1>5. Owner(c) /\ ~erasing /\ progress.nextCopy < CopyCount
  BY DEF RecordCopyIntent, HoldsCursor, HoldsClaim, Owner, InSnapshot, NotErasing
<1> QED BY <1>1, <1>2, <1>4, <1>5
        DEF RecordedStep, RecordCopyIntent, captureVars

(* An intent is attached to a job that has its key. *)
LEMMA AttachKept ==
  ASSUME TypedInv, CopyInv, OnlyCalls, NEW i \in intents, NEW j \in jobs,
         Matches(j, i), i.job \in {j.id, NoJob}, intents' = Attached(i, j.id),
         UNCHANGED <<captureVars, erasing>>
  PROVE  KeptStep
<1> DEFINE known == [i EXCEPT !.job = j.id]
<1>1. i \in Intent
  BY DEF TypedInv, RunnerTypeOK, TypeOK
<1>2. /\ known.job = j.id
      /\ \A key : Matches(known, key) <=> Matches(i, key)
      /\ \A key : Matches(key, known) <=> Matches(key, i)
  BY <1>1 DEF Intent, Matches
<1>3. intents' = (intents \ {i}) \cup {known}
  BY DEF Attached
<1> HIDE DEF known
<1>4. j.id # NoJob
  BY DEF TypedInv, RunnerTypeOK, Job
<1>5. IntentJobs'
  BY <1>2, <1>3 DEF CopyInv, JobsSound, IntentJobs, OnlyCalls, Matches
<1>6. \A k \in jobs : Covered(k) => Covered(k)'
  BY <1>2, <1>3 DEF Covered, Matches
<1>7. \A k \in intents' : k.job = NoJob => k \in intents
  BY <1>2, <1>3, <1>4
<1>8. \A k \in intents :
        k.job = NoJob /\ (\A b \in jobs : ~Matches(b, k)) => k \in intents'
  BY <1>3
<1> QED BY <1>5, <1>6, <1>7, <1>8 DEF KeptStep, captureVars, InSnapshot

-----------------------------------------------------------------------------
(* Quiet steps of a run, with the types *)

Safe == RunnerTypeOK' /\ CopyInv'

(* What every call of a run may use. *)
QuietCall == /\ TypedInv /\ TypeOK' /\ CopyInv /\ QuietStep
             /\ UNCHANGED <<jobs, manifests, owing, repaired>>

LEMMA CallTypes ==
  ASSUME RunnerTypeOK, TypeOK', UNCHANGED <<jobs, manifests, owing, repaired>>,
         run' \in [Claims -> Run], faults' \in 0..MaxFaults
  PROVE  RunnerTypeOK'
BY DEF RunnerTypeOK

LEMMA RunTypes ==
  ASSUME TypedInv
  PROVE  /\ run \in [Claims -> Run] /\ faults \in 0..MaxFaults
         /\ \A c \in Claims : run[c] \in Run
BY DEF TypedInv, RunnerTypeOK

LEMMA ThenSafe ==
  ASSUME QuietCall, NEW c \in Claims, NEW place \in Place, Then(c, place),
         run[c].at \in AtCursorPlaces, place \in PlainPlaces \cup FreePlaces
  PROVE  Safe
<1>1. run' \in [Claims -> Run] /\ faults' \in 0..MaxFaults
  BY RunTypes, ThenStep DEF QuietCall
<1> QED BY <1>1, CallTypes, QuietThen DEF QuietCall, TypedInv, OnlyCalls, Safe

LEMMA FreeThenSafe ==
  ASSUME QuietCall, NEW c \in Claims, NEW place \in FreePlaces, Then(c, place),
         run[c].at \in Planned
  PROVE  Safe
<1>1. /\ run' \in [Claims -> Run] /\ faults' \in 0..MaxFaults /\ OthersRest(c)
      /\ (run'[c].at = place /\ SamePlan(c)) \/ Caught(c)
  BY RunTypes, ThenStep, PlacesAre DEF QuietCall
<1>2. CopyInv'
  BY <1>1, QuietFree, QuietCaught DEF QuietCall, OnlyCalls
<1> QED BY <1>1, <1>2, CallTypes DEF QuietCall, TypedInv, Safe

LEMMA GotoSafe ==
  ASSUME QuietCall, NEW c \in Claims, NEW place \in Place, Goto(c, place),
         Faulty \/ UNCHANGED faults,
         \/ place \in {"idle", "retry"}
         \/ run[c].at \in Planned /\ place \in FreePlaces
         \/ run[c].at \in AtCursorPlaces /\ place \in PlainPlaces
  PROVE  Safe
<1>1. run' \in [Claims -> Run] /\ faults' \in 0..MaxFaults
  BY RunTypes, GotoStep, FaultyType DEF QuietCall
<1> QED BY <1>1, CallTypes, QuietGoto DEF QuietCall, TypedInv, OnlyCalls, Safe

LEMMA ThrowsSafe ==
  ASSUME QuietCall, NEW c \in Claims, Throws(c), run[c].at \in Planned
  PROVE  Safe
<1>1. run' \in [Claims -> Run] /\ faults' \in 0..MaxFaults
  BY RunTypes, ThrowsStep DEF QuietCall
<1> QED BY <1>1, CallTypes, QuietThrows DEF QuietCall, TypedInv, OnlyCalls, Safe

LEMMA AcknowledgeSafe ==
  ASSUME QuietCall, NEW c \in Claims, Acknowledge(c), Faulty \/ UNCHANGED faults
  PROVE  Safe
<1>1. /\ run' \in [Claims -> Run] /\ faults' \in 0..MaxFaults
      /\ OthersRest(c) /\ run'[c].at = "idle"
  BY RunTypes, AcknowledgeStep, FaultyType DEF QuietCall
<1> QED BY <1>1, CallTypes, QuietIdle DEF QuietCall, TypedInv, OnlyCalls, Safe

(* The call is executed and the run becomes next, or it is caught. *)
LEMMA CalledSafe ==
  ASSUME QuietCall, NEW c \in Claims, NEW next \in Run, Called(c, next),
         run[c].at \in Planned,
         run' \in [Claims -> Run] /\ run'[c] = next
           => RunSound(c)' /\ ~Starter(c)'
  PROVE  Safe
<1>1. /\ run' \in [Claims -> Run] /\ faults' \in 0..MaxFaults
      /\ OthersRest(c) /\ (run'[c] = next \/ Caught(c))
  BY RunTypes, CalledStep DEF QuietCall
<1>2. CopyInv'
  <2>1. CASE run'[c] = next
    BY <1>1, <2>1, QuietSound DEF QuietCall, OnlyCalls
  <2>2. CASE Caught(c)
    BY <1>1, <2>2, QuietCaught DEF QuietCall, OnlyCalls
  <2> QED BY <1>1, <2>1, <2>2
<1> QED BY <1>1, <1>2, CallTypes DEF QuietCall, TypedInv, Safe

LEMMA BecomesSafe ==
  ASSUME QuietCall, NEW c \in Claims, NEW next \in Run,
         run' = [run EXCEPT ![c] = next], Faulty \/ UNCHANGED faults,
         run'[c] = next => RunSound(c)' /\ ~Starter(c)'
  PROVE  Safe
<1>1. /\ run' \in [Claims -> Run] /\ faults' \in 0..MaxFaults
      /\ OthersRest(c) /\ run'[c] = next
  BY RunTypes, BecomesStep, FaultyType DEF QuietCall
<1> QED BY <1>1, CallTypes, QuietSound DEF QuietCall, TypedInv, OnlyCalls, Safe

(* A run that does not own a generation yet. *)
LEMMA UnclaimedSound ==
  ASSUME NEW c \in Claims, run'[c].at \in Unclaimed, progress'.claim # c
  PROVE  RunSound(c)' /\ ~Starter(c)'
<1>1. run'[c].at \notin Planned /\ run'[c].at \notin AtCursorPlaces
  BY DEF Planned, AtCursorPlaces
<1>2. PlanSound(c)'
  BY <1>1 DEF PlanSound
<1>3. StartSound(c)' /\ FoundSound(c)' /\ PublishSound(c)' /\ ~Starter(c)'
  BY DEF Unclaimed, StartSound, FoundSound, PublishSound, Starter, At
<1> QED BY <1>2, <1>3 DEF RunSound

LEMMA RestingSound ==
  ASSUME NEW c \in Claims, run'[c].at \in {"idle", "retry"}
  PROVE  RunSound(c)' /\ ~Starter(c)'
<1>1. run'[c].at \notin Planned /\ run'[c].at \notin AtCursorPlaces
        /\ run'[c].at \notin Unclaimed
  BY DEF Planned, AtCursorPlaces, Unclaimed
<1>2. PlanSound(c)'
  BY <1>1 DEF PlanSound
<1>3. StartSound(c)' /\ FoundSound(c)' /\ PublishSound(c)' /\ ~Starter(c)'
  BY DEF StartSound, FoundSound, PublishSound, Starter, At
<1> QED BY <1>2, <1>3 DEF RunSound

(* The plan of a run is read from the generation it claimed. *)
LEMMA PlannedSound ==
  ASSUME NEW c \in Claims, TypedInv, InSnapshot', gate'.generation # 0,
         run'[c] = Plan(c)
  PROVE  RunSound(c)' /\ ~Starter(c)'
<1>1. /\ run'[c].at = "arm" /\ run'[c].generation = gate'.generation
      /\ run'[c].days = snapshotDays' /\ run'[c].next = progress'.nextCopy
  BY DEF Plan, NoRun
<1>2. run'[c].at \notin Unclaimed
  BY <1>1 DEF Unclaimed
<1>3. PlanSound(c)'
  BY <1>1, <1>2 DEF PlanSound, Owner
<1>4. StartSound(c)' /\ FoundSound(c)' /\ PublishSound(c)' /\ ~Starter(c)'
  BY <1>1 DEF StartSound, FoundSound, PublishSound, Starter, At
<1> QED BY <1>3, <1>4 DEF RunSound

LEMMA PlanType ==
  ASSUME TypeOK', NEW c \in Claims
  PROVE  Plan(c) \in Run
<1>1. gate'.generation \in 0..MaxGeneration /\ snapshotDays' \in SUBSET Day
        /\ progress'.nextCopy \in Nat
  BY DEF TypeOK, Gate, Progress
<1> QED BY <1>1 DEF Plan, NoRun, Run, Place

LEMMA QuietIs ==
  ASSUME TypedInv, TypeOK', CopyInv, QuietStep, NoJobs
  PROVE  QuietCall
BY DEF QuietCall, NoJobs

LEMMA UnseenIs ==
  ASSUME TypedInv, TypeOK', CopyInv, OnlyRun
  PROVE  QuietCall
BY QuietVars DEF QuietCall, OnlyRun

LEMMA AtPlain ==
  ASSUME NEW c, NEW place \in PlainPlaces, At(c, place)
  PROVE  run[c].at \in AtCursorPlaces /\ run[c].at \in Planned
BY PlacesAre DEF At

LEMMA AtFree ==
  ASSUME NEW c, NEW place \in FreePlaces \ {"idle", "retry"}, At(c, place)
  PROVE  run[c].at \in Planned
BY PlacesAre DEF At

LEMMA AtLater ==
  ASSUME NEW c, NEW place \in {"start", "attach", "reject", "reattach", "settle",
                               "publish", "finish"}, At(c, place)
  PROVE  run[c].at \in AtCursorPlaces /\ run[c].at \in Planned
BY PlacesAre DEF At

-----------------------------------------------------------------------------
(* One lemma per action of a run *)

LEMMA StartRunSafe ==
  ASSUME TypedInv, TypeOK', CopyInv, NEW c \in Claims, StartRun(c)
  PROVE  Safe
<1>1. QuietStep
  BY DEF StartRun, QuietStep, SameStep, InSnapshot, captureVars, copyVars
<1>2. /\ NoJobs /\ Goto(c, "stats") /\ (Faulty \/ UNCHANGED faults)
      /\ progress'.claim # c
  BY DEF StartRun, NoJobs, Goto, captureVars
<1>3. "stats" \in Place /\ "stats" \in Unclaimed
  BY DEF Place, Unclaimed
<1>4. run' \in [Claims -> Run] /\ run'[c].at \in Unclaimed /\ OthersRest(c)
  BY <1>2, <1>3, RunTypes, GotoStep
<1>5. RunSound(c)' /\ ~Starter(c)'
  BY <1>2, <1>4, UnclaimedSound
<1>6. CopyInv'
  BY <1>1, <1>2, <1>4, <1>5, QuietSound DEF OnlyCalls, NoJobs
<1>7. RunnerTypeOK'
  BY <1>2, <1>4, RunTypes, FaultyType, CallTypes DEF NoJobs, TypedInv
<1> QED BY <1>6, <1>7 DEF Safe

LEMMA RetrySafe ==
  ASSUME TypedInv, TypeOK', CopyInv, NEW c \in Claims, Retry(c)
  PROVE  Safe
<1>1. QuietStep
  BY DEF Retry, QuietStep, SameStep, InSnapshot, captureVars, copyVars
<1>2. NoJobs /\ Acknowledge(c) /\ (Faulty \/ UNCHANGED faults)
  BY DEF Retry
<1> QED BY <1>1, <1>2, QuietIs, AcknowledgeSafe

LEMMA StatsSafe ==
  ASSUME TypedInv, TypeOK', CopyInv, NEW c \in Claims, Stats(c)
  PROVE  Safe
<1>1. At(c, "stats") /\ GetStats /\ NoJobs /\ UNCHANGED faults
  BY DEF Stats
<1>2. QuietCall
  BY <1>1, GetStatsQuiet, QuietIs
<1>3. CASE erasing
  BY <1>1, <1>2, <1>3, AcknowledgeSafe DEF Stats
<1>4. CASE ~erasing
  <2>1. PICK branch : /\ branch \in {"claim", "request", "begin", "idle", "retry"}
                      /\ run' = [run EXCEPT ![c].at = "schedule", ![c].branch = branch]
    <3> DEFINE chosen == Branch(gate'.phase, Active # {},
                                Cardinality(dirty') > Cardinality(incomplete'))
    <3>1. chosen \in {"claim", "request", "begin", "idle", "retry"}
      BY DEF Branch
    <3> QED BY <1>4, <3>1 DEF Stats
  <2> DEFINE next == [run[c] EXCEPT !.at = "schedule", !.branch = branch]
  <2>2. run[c] \in Run /\ "schedule" \in Place
    BY RunTypes DEF Place
  <2>0. next = Branched(run[c], "schedule", branch)
    BY DEF Branched
  <2>3. next \in Run /\ next.at = "schedule"
    <3> HIDE DEF next
    <3>1. branch \in Branches
      BY <2>1 DEF Branches
    <3> QED BY <2>0, <2>2, <3>1, BranchedRun
  <2>4. run' = [run EXCEPT ![c] = next]
    BY <2>1
  <2> HIDE DEF next
  <2>5. progress'.claim # c
    <3>1. run[c].at \in Unclaimed /\ PlanSound(c)
      BY <1>1 DEF At, Unclaimed, CopyInv, RunSound
    <3> QED BY <3>1, <1>2 DEF PlanSound, QuietCall, QuietStep
  <2>6. run'[c] = next => RunSound(c)' /\ ~Starter(c)'
    BY <2>3, <2>5, UnclaimedSound DEF Unclaimed
  <2> QED BY <1>1, <1>2, <2>3, <2>4, <2>6, BecomesSafe
<1> QED BY <1>3, <1>4

LEMMA ScheduleSafe ==
  ASSUME TypedInv, TypeOK', CopyInv, NEW c \in Claims, Schedule(c)
  PROVE  Safe
<1>1. At(c, "schedule") /\ OnlyRun /\ UNCHANGED faults
  BY DEF Schedule
<1>2. QuietCall
  BY <1>1, UnseenIs
<1>3. CASE Acknowledge(c)
  BY <1>1, <1>2, <1>3, AcknowledgeSafe
<1>4. CASE run[c].branch # "idle" /\ Goto(c, run[c].branch)
  <2>1. run[c].branch \in Unclaimed \cup {"retry"}
    BY <1>4, RunTypes DEF Run, Unclaimed
  <2>2. run[c].branch \in Place
    BY <2>1 DEF Unclaimed, Place
  <2>3. /\ run' \in [Claims -> Run] /\ OthersRest(c)
        /\ run'[c].at = run[c].branch
    BY <1>4, <2>2, RunTypes, GotoStep
  <2>4. progress'.claim # c
    <3>1. run[c].at \in Unclaimed /\ PlanSound(c)
      BY <1>1 DEF At, Unclaimed, CopyInv, RunSound
    <3> QED BY <3>1, <1>2 DEF PlanSound, QuietCall, QuietStep
  <2>5. RunSound(c)' /\ ~Starter(c)'
    BY <2>1, <2>3, <2>4, UnclaimedSound, RestingSound
  <2>6. CopyInv'
    BY <1>2, <2>3, <2>5, QuietSound DEF OnlyCalls, QuietCall
  <2>7. RunnerTypeOK'
    BY <1>1, <1>2, <2>3, RunTypes, CallTypes DEF QuietCall, TypedInv
  <2> QED BY <2>6, <2>7 DEF Safe
<1> QED BY <1>1, <1>3, <1>4 DEF Schedule

(* The plan is taken, or the run waits for its message. *)
LEMMA EarlyStep ==
  ASSUME TypedInv, TypeOK', NEW c \in Claims, Early(c, Plan(c))
  PROVE  /\ run' \in [Claims -> Run] /\ OthersRest(c) /\ faults' \in 0..MaxFaults
         /\ run'[c] = Plan(c) \/ run'[c].at = "retry"
<1>1. Plan(c) \in Run
  BY PlanType
<1>2. CASE run' = [run EXCEPT ![c] = Plan(c)] /\ UNCHANGED faults
  BY <1>1, <1>2, RunTypes, BecomesStep
<1>3. CASE Goto(c, "retry") /\ Faulty
  <2>1. "retry" \in Place
    BY DEF Place
  <2> QED BY <1>3, <2>1, RunTypes, GotoStep, FaultyType
<1> QED BY <1>2, <1>3 DEF Early

LEMMA ClaimSafe ==
  ASSUME TypedInv, TypeOK', CopyInv, NEW c \in Claims, Claim(c)
  PROVE  Safe
<1>1. NoJobs /\ At(c, "claim")
  BY DEF Claim
<1>2. CASE ClaimSnapshot(c) /\ Early(c, Plan(c))
  <2>1. KeptStep /\ InSnapshot' /\ progress'.claim = c
    BY <1>1, <1>2, ClaimKept DEF CopyInv, OnlyCalls, NoJobs
  <2>2. /\ run' \in [Claims -> Run] /\ OthersRest(c) /\ faults' \in 0..MaxFaults
        /\ run'[c] = Plan(c) \/ run'[c].at = "retry"
    BY <1>2, EarlyStep
  <2>3. gate'.generation # 0
    BY <2>1, GenerationFacts DEF KeptStep
  <2>4. RunSound(c)' /\ ~Starter(c)'
    BY <2>1, <2>2, <2>3, PlannedSound, RestingSound
  <2>5. ASSUME NEW d \in Claims, d # c
        PROVE  RunKept(d)
    BY <2>1, <2>2, <2>5 DEF RunKept, OthersRest, PlanFrame, CursorFrame, Owner,
                            KeptStep
  <2>6. CopyInv'
    BY <1>1, <2>1, <2>4, <2>5, KeptSound DEF RunsRest, OnlyCalls, NoJobs
  <2>7. RunnerTypeOK'
    BY <1>1, <2>2, CallTypes DEF NoJobs, TypedInv
  <2> QED BY <2>6, <2>7 DEF Safe
<1>3. CASE Goto(c, "retry") /\ UNCHANGED <<vars, faults>>
  <2>1. QuietCall
    BY <1>1, <1>3, QuietVars, QuietIs
  <2> QED BY <1>3, <2>1, GotoSafe DEF Place
<1> QED BY <1>2, <1>3 DEF Claim

LEMMA RequestSafe ==
  ASSUME TypedInv, TypeOK', CopyInv, NEW c \in Claims, Request(c)
  PROVE  Safe
<1>1. At(c, "request") /\ NoJobs /\ UNCHANGED faults
  BY DEF Request
<1>2. CASE RequestSnapshot /\ Goto(c, IF Active = {} THEN "begin" ELSE "retry")
  <2>1. QuietCall
    BY <1>1, <1>2, RequestQuiet, QuietIs
  <2>2. PICK place \in {"begin", "retry"} : Goto(c, place)
    BY <1>2
  <2>3. place \in Place
    BY DEF Place
  <2>4. run' \in [Claims -> Run] /\ OthersRest(c) /\ run'[c].at = place
    BY <2>2, <2>3, RunTypes, GotoStep
  <2>5. progress'.claim # c
    <3>1. run[c].at \in Unclaimed /\ PlanSound(c)
      BY <1>1 DEF At, Unclaimed, CopyInv, RunSound
    <3> QED BY <3>1, <2>1 DEF PlanSound, QuietCall, QuietStep
  <2>6. RunSound(c)' /\ ~Starter(c)'
    BY <2>4, <2>5, UnclaimedSound, RestingSound DEF Unclaimed
  <2>7. CopyInv'
    BY <2>1, <2>4, <2>6, QuietSound DEF OnlyCalls, QuietCall
  <2>8. RunnerTypeOK'
    BY <1>1, <2>1, <2>4, RunTypes, CallTypes DEF QuietCall, TypedInv
  <2> QED BY <2>7, <2>8 DEF Safe
<1>3. CASE GetStats /\ Goto(c, "retry")
  <2>1. QuietCall
    BY <1>1, <1>3, GetStatsQuiet, QuietIs
  <2> QED BY <1>1, <1>3, <2>1, GotoSafe DEF Place
<1> QED BY <1>2, <1>3 DEF Request

LEMMA BeginRunSafe ==
  ASSUME TypedInv, TypeOK', CopyInv, NEW c \in Claims, BeginRun(c)
  PROVE  Safe
<1>1. NoJobs /\ At(c, "begin")
  BY DEF BeginRun
<1>2. CASE BeginSnapshot(c) /\ Early(c, Plan(c))
  <2>1. BegunStep(c)
    BY <1>2, BeginIsBegun
  <2>2. /\ run' \in [Claims -> Run] /\ OthersRest(c) /\ faults' \in 0..MaxFaults
        /\ run'[c] = Plan(c) \/ run'[c].at = "retry"
    BY <1>2, EarlyStep
  <2>3. gate'.generation # 0 /\ InSnapshot'
    BY <2>1, GenerationFacts DEF BegunStep
  <2>4. RunSound(c)' /\ ~Starter(c)'
    BY <2>2, <2>3, PlannedSound, RestingSound
  <2>6. CopyInv'
    BY <1>1, <2>1, <2>2, <2>4, BegunSound DEF OnlyCalls, NoJobs
  <2>7. RunnerTypeOK'
    BY <1>1, <2>2, CallTypes DEF NoJobs, TypedInv
  <2> QED BY <2>6, <2>7 DEF Safe
<1>3. CASE /\ BeginEmptySnapshot \/ GetStats
           /\ Acknowledge(c) \/ Goto(c, "retry")
           /\ UNCHANGED faults
  <2>1. QuietCall
    BY <1>1, <1>3, BeginEmptyQuiet, GetStatsQuiet, QuietIs
  <2>2. CASE Acknowledge(c)
    BY <1>3, <2>1, <2>2, AcknowledgeSafe
  <2>3. CASE Goto(c, "retry")
    BY <1>3, <2>1, <2>3, GotoSafe DEF Place
  <2> QED BY <1>3, <2>2, <2>3
<1> QED BY <1>2, <1>3 DEF BeginRun

LEMMA ArmSafe ==
  ASSUME TypedInv, TypeOK', CopyInv, NEW c \in Claims, Arm(c)
  PROVE  Safe
<1>1. At(c, "arm") /\ NoJobs /\ UNCHANGED faults
  BY DEF Arm
<1>2. run[c].at \in AtCursorPlaces
  BY <1>1, AtPlain DEF PlainPlaces
<1>3. QuietStep
  BY CallsQuiet, QuietVars DEF Arm
<1>4. Goto(c, "acquire") \/ Goto(c, "retry")
  BY DEF Arm
<1> QED BY <1>1, <1>2, <1>3, <1>4, QuietIs, GotoSafe DEF Place, PlainPlaces

LEMMA AcquireSafe ==
  ASSUME TypedInv, TypeOK', CopyInv, NEW c \in Claims, Acquire(c)
  PROVE  Safe
<1>1. At(c, "acquire") /\ QuietCall
  BY UnseenIs DEF Acquire
<1>2. run[c].at \in AtCursorPlaces /\ run[c].at \in Planned
  BY <1>1, AtPlain DEF PlainPlaces
<1>3. CASE Then(c, "loop")
  BY <1>1, <1>2, <1>3, ThenSafe DEF Place, PlainPlaces
<1>4. CASE (Goto(c, "refused") \/ Goto(c, "continue")) /\ Faulty
  BY <1>1, <1>2, <1>4, GotoSafe DEF Place, PlainPlaces, FreePlaces
<1> QED BY <1>3, <1>4 DEF Acquire

LEMMA NoClaimNoFrame ==
  ASSUME EndedStep, NEW d \in Claims
  PROVE  PlanFrame(d)
BY DEF EndedStep, PlanFrame, Owner

(* The owner ended the generation while no other run is about to submit. *)
LEMMA EndedSafe ==
  ASSUME TypedInv, TypeOK', CopyInv, EndedStep, NoJobs, NEW c \in Claims,
         run' \in [Claims -> Run], faults' \in 0..MaxFaults, OthersRest(c),
         run[c].at \in Planned, SamePlan(c), run'[c].at \in FreePlaces,
         \A d \in Claims : At(d, "start") => d = c
  PROVE  Safe
<1>1. RunSound(c)'
  BY NoClaimNoFrame, FreeMove DEF CopyInv, RunSound, SamePlan
<1>2. CopyInv'
  BY <1>1, EndedSound DEF OnlyCalls, NoJobs, OthersRest
<1>3. RunnerTypeOK'
  BY CallTypes DEF NoJobs, TypedInv
<1> QED BY <1>2, <1>3 DEF Safe

LEMMA NoneStarts ==
  ASSUME CopyInv, intents = {}, NEW d \in Claims
  PROVE  ~At(d, "start")
BY DEF CopyInv, RunSound, StartSound, Pending

LEMMA RefusedSafe ==
  ASSUME TypedInv, TypeOK', CopyInv, NEW c \in Claims, Refused(c)
  PROVE  Safe
<1>1. At(c, "refused") /\ NoJobs
  BY DEF Refused
<1>2. run[c].at \in AtCursorPlaces /\ run[c].at \in Planned
  BY <1>1, AtPlain DEF PlainPlaces
<1>3. CASE FailSnapshot(c, FALSE) /\ Then(c, "reschedule")
  <2>1. EndedStep /\ intents = {}
    BY <1>3, FailEnds
  <2>2. "reschedule" \in Place
    BY DEF Place
  <2>3. /\ run' \in [Claims -> Run] /\ OthersRest(c) /\ faults' \in 0..MaxFaults
        /\ SamePlan(c) /\ run'[c].at \in FreePlaces
    BY <1>3, <2>2, RunTypes, ThenStep DEF Caught, FreePlaces
  <2> QED BY <1>1, <1>2, <2>1, <2>3, NoneStarts, EndedSafe
<1>4. CASE Throws(c) /\ UNCHANGED vars
  BY <1>1, <1>2, <1>4, QuietVars, QuietIs, ThrowsSafe
<1> QED BY <1>3, <1>4 DEF Refused

LEMMA LoopSafe ==
  ASSUME TypedInv, TypeOK', CopyInv, NEW c \in Claims, Loop(c)
  PROVE  Safe
<1>1. At(c, "loop") /\ QuietCall
  BY UnseenIs DEF Loop
<1>2. run[c].at \in AtCursorPlaces /\ run[c].at \in Planned
  BY <1>1, AtPlain DEF PlainPlaces
<1>3. CASE /\ Goto(c, "intents") \/ Goto(c, "last check") \/ Goto(c, "continue")
           /\ Faulty \/ UNCHANGED faults
  BY <1>1, <1>2, <1>3, GotoSafe DEF Place, PlainPlaces, FreePlaces
<1>4. CASE /\ run' = [run EXCEPT ![c].at = "failed", ![c].expired = TRUE]
           /\ UNCHANGED faults
  <2> DEFINE next == [run[c] EXCEPT !.at = "failed", !.expired = TRUE]
  <2>1. run[c] \in Run
    BY RunTypes
  <2>2. /\ next \in Run /\ next.at = "failed" /\ next.generation = run[c].generation
        /\ next.days = run[c].days /\ next.next = run[c].next
    BY <2>1 DEF Run, Place
  <2>3. run' = [run EXCEPT ![c] = next]
    BY <1>4
  <2> HIDE DEF next
  <2>4. run' \in [Claims -> Run] /\ OthersRest(c) /\ Caught(c)
    BY <2>2, <2>3, RunTypes, BecomesStep DEF Caught, SamePlan
  <2>5. CopyInv'
    BY <1>1, <1>2, <2>4, QuietCaught DEF OnlyCalls, QuietCall
  <2>6. RunnerTypeOK'
    BY <1>1, <1>4, <2>4, RunTypes, CallTypes DEF QuietCall, TypedInv
  <2> QED BY <2>5, <2>6 DEF Safe
<1> QED BY <1>3, <1>4 DEF Loop

(* The run goes on with the plan it has. *)
LEMMA CalledPlainSafe ==
  ASSUME QuietCall, NEW c \in Claims, NEW next \in Run, Called(c, next),
         run[c].at \in AtCursorPlaces,
         next.at \in PlainPlaces \cup FreePlaces,
         next.generation = run[c].generation,
         next.days = run[c].days, next.next = run[c].next
  PROVE  Safe
<1>1. run[c].at \in Planned
  BY PlacesAre
<1>2. ASSUME run' \in [Claims -> Run], run'[c] = next
      PROVE  RunSound(c)' /\ ~Starter(c)'
  <2>1. PlanSound(c) /\ PlanFrame(c) /\ CursorFrame(c)
    BY QuietFrame DEF QuietCall, CopyInv, RunSound
  <2>2. SamePlan(c)
    BY <1>2 DEF SamePlan
  <2>3. RunSound(c)'
    BY <1>1, <1>2, <2>1, <2>2, FreeMove, PlainMove DEF SamePlan
  <2> QED BY <1>2, <2>3 DEF Starter, PlainPlaces, FreePlaces
<1> QED BY <1>1, <1>2, CalledSafe

LEMMA ReadIntentsSafe ==
  ASSUME TypedInv, TypeOK', CopyInv, NEW c \in Claims, ReadIntents(c)
  PROVE  Safe
<1>1. At(c, "intents") /\ QuietCall
  BY UnseenIs DEF ReadIntents
<1>2. run[c].at \in AtCursorPlaces /\ run[c].at \in Planned
  BY <1>1, AtPlain DEF PlainPlaces
<1>3. CASE Then(c, "active")
  BY <1>1, <1>2, <1>3, ThenSafe DEF Place, PlainPlaces
<1>4. ASSUME NEW i \in intents, Called(c, [run[c] EXCEPT !.at = "due", !.job = i.job])
      PROVE  Safe
  <2> DEFINE next == [run[c] EXCEPT !.at = "due", !.job = i.job]
  <2>1. run[c] \in Run /\ i.job \in Jobs \cup {NoJob}
    BY RunTypes DEF TypedInv, RunnerTypeOK, TypeOK, Intent
  <2>2. /\ next \in Run /\ next.at = "due" /\ next.generation = run[c].generation
        /\ next.days = run[c].days /\ next.next = run[c].next
    BY <2>1 DEF Run, Place
  <2> HIDE DEF next
  <2>3. Called(c, next)
    BY <1>4 DEF next
  <2> QED BY <1>1, <1>2, <2>2, <2>3, CalledPlainSafe DEF PlainPlaces
<1>5. CASE Throws(c)
  BY <1>1, <1>2, <1>5, ThrowsSafe
<1> QED BY <1>3, <1>4, <1>5 DEF ReadIntents

LEMMA AssertActiveSafe ==
  ASSUME TypedInv, TypeOK', CopyInv, NEW c \in Claims, AssertActive(c)
  PROVE  Safe
<1>1. At(c, "active") /\ QuietCall
  BY UnseenIs DEF AssertActive
<1>2. run[c].at \in AtCursorPlaces /\ run[c].at \in Planned
  BY <1>1, AtPlain DEF PlainPlaces
<1>3. CASE Then(c, "record")
  BY <1>1, <1>2, <1>3, ThenSafe DEF Place, PlainPlaces
<1>4. CASE Throws(c)
  BY <1>1, <1>2, <1>4, ThrowsSafe
<1> QED BY <1>3, <1>4 DEF AssertActive

LEMMA RecordSafe ==
  ASSUME TypedInv, TypeOK', CopyInv, NEW c \in Claims, Record(c)
  PROVE  Safe
<1>1. At(c, "record") /\ NoJobs
  BY DEF Record
<1>2. run[c].at \in AtCursorPlaces /\ run[c].at \in Planned
  BY <1>1, AtPlain DEF PlainPlaces
<1>3. CASE RecordCopyIntent(c) /\ Then(c, "start")
  <2>1. "start" \in Place
    BY DEF Place
  <2>2. /\ run' \in [Claims -> Run] /\ OthersRest(c) /\ faults' \in 0..MaxFaults
        /\ SamePlan(c) /\ (At(c, "start")' \/ Caught(c))
    BY <1>3, <2>1, RunTypes, ThenStep DEF Caught, At
  <2>3. RecordedStep(c)
    BY <1>3, RecordIsRecorded
  <2>4. CopyInv'
    BY <1>1, <2>2, <2>3, RecordedSound DEF OnlyCalls, NoJobs
  <2>5. RunnerTypeOK'
    BY <1>1, <2>2, CallTypes DEF NoJobs, TypedInv
  <2> QED BY <2>4, <2>5 DEF Safe
<1>4. CASE Throws(c) /\ UNCHANGED vars
  BY <1>1, <1>2, <1>4, QuietVars, QuietIs, ThrowsSafe
<1> QED BY <1>3, <1>4 DEF Record

(* The cursor, the generation and the claim stay. *)
LEMMA KeptSafe ==
  ASSUME TypedInv, TypeOK', CopyInv, KeptStep, NoJobs,
         progress'.claim = progress.claim, NEW c \in Claims,
         run' \in [Claims -> Run], faults' \in 0..MaxFaults, OthersRest(c),
         RunSound(c)', ~Starter(c)'
  PROVE  Safe
<1>1. ASSUME NEW d \in Claims, d # c
      PROVE  RunKept(d)
  BY <1>1 DEF RunKept, OthersRest, PlanFrame, CursorFrame, Owner, KeptStep
<1>2. CopyInv'
  BY <1>1, KeptSound DEF RunsRest, OnlyCalls, NoJobs
<1>3. RunnerTypeOK'
  BY CallTypes DEF NoJobs, TypedInv
<1> QED BY <1>2, <1>3 DEF Safe

LEMMA KeptFrame ==
  ASSUME KeptStep, progress'.claim = progress.claim, NEW c \in Claims
  PROVE  PlanFrame(c) /\ CursorFrame(c)
BY DEF PlanFrame, CursorFrame, Owner, KeptStep

(* The owner's position is the cursor's. *)
LEMMA OwnsKey ==
  ASSUME CopyInv, NEW c \in Claims, OwnsCursor(c), run[c].at \in Planned
  PROVE  RunKey(c) = CursorKey(progress.nextCopy)
BY OwnerKey DEF OwnsCursor, HoldsCursor, HoldsClaim, Owner, InSnapshot, CopyInv,
                RunSound

(* The job of the run becomes the receipt of the intent at the cursor. *)
LEMMA ReceiptKept ==
  ASSUME TypedInv, CopyInv, NoJobs, NEW c \in Claims, OwnsCursor(c),
         run[c].at \in {"attach", "reattach"}, AttachCopyJob(c, run[c].job)
  PROVE  KeptStep /\ progress'.claim = progress.claim
<1>1. run[c].at \in Planned
  BY PlacesAre
<1>2. PICK j \in jobs : j.id = run[c].job /\ Matches(j, RunKey(c))
  BY DEF CopyInv, RunSound, FoundSound
<1>3. PICK i \in intents : /\ AtCursor(i) /\ i.job \in {run[c].job, NoJob}
                           /\ intents' = Attached(i, run[c].job)
  BY DEF AttachCopyJob
<1>4. Matches(j, i)
  BY <1>1, <1>2, <1>3, OwnsKey, CursorKeyIs DEF Matches
<1>5. UNCHANGED <<captureVars, erasing>>
  BY DEF AttachCopyJob
<1>6. KeptStep
  BY <1>2, <1>3, <1>4, <1>5, AttachKept DEF OnlyCalls, NoJobs
<1> QED BY <1>5, <1>6 DEF captureVars

LEMMA AttachSafe ==
  ASSUME TypedInv, TypeOK', CopyInv, NEW c \in Claims, Attach(c)
  PROVE  Safe
<1>1. At(c, "attach") /\ NoJobs
  BY DEF Attach
<1>2. run[c].at \in AtCursorPlaces /\ run[c].at \in Planned
  BY <1>1, AtLater
<1>3. CASE MayAttach(c) /\ AttachCopyJob(c, run[c].job) /\ Then(c, "continue")
  <2>1. KeptStep /\ progress'.claim = progress.claim
    BY <1>1, <1>3, ReceiptKept DEF MayAttach, At
  <2>2. "continue" \in Place
    BY DEF Place
  <2>3. /\ run' \in [Claims -> Run] /\ OthersRest(c) /\ faults' \in 0..MaxFaults
        /\ SamePlan(c) /\ run'[c].at \in FreePlaces
    BY <1>3, <2>2, RunTypes, ThenStep DEF Caught, FreePlaces
  <2>4. RunSound(c)' /\ ~Starter(c)'
    BY <1>2, <2>1, <2>3, KeptFrame, FreeMove
       DEF CopyInv, RunSound, SamePlan, Starter, FreePlaces
  <2> QED BY <1>1, <2>1, <2>3, <2>4, KeptSafe
<1>4. CASE Throws(c) /\ UNCHANGED vars
  BY <1>1, <1>2, <1>4, QuietVars, QuietIs, ThrowsSafe
<1> QED BY <1>3, <1>4 DEF Attach

(* A refused Copy was not submitted, neither by this run nor by another. *)
LEMMA RejectSafe ==
  ASSUME TypedInv, TypeOK', CopyInv, NEW c \in Claims, Reject(c)
  PROVE  Safe
<1>1. At(c, "reject") /\ NoJobs /\ Throws(c)
  BY DEF Reject
<1>2. run[c].at \in AtCursorPlaces /\ run[c].at \in Planned
  BY <1>1, AtLater
<1>3. CASE OwnsCursor(c) /\ RejectCopyIntent(c)
  <2>1. PICK i \in intents : /\ AtCursor(i) /\ i.job = NoJob
                             /\ intents' = intents \ {i}
    BY <1>3 DEF RejectCopyIntent
  <2>2. FailGeneration
    BY <1>3 DEF RejectCopyIntent
  <2>3. RunKey(c) = CursorKey(progress.nextCopy) /\ Matches(i, RunKey(c))
    BY <1>2, <1>3, <2>1, OwnsKey, CursorKeyIs
  <2>4. Pending(c)
    <3>1. Matches(RunKey(c), CursorKey(progress.nextCopy))
      BY <2>3 DEF Matches
    <3>2. InSnapshot /\ progress.nextCopy < CopyCount
      BY <1>3 DEF OwnsCursor, HoldsCursor, HoldsClaim, InSnapshot
    <3>3. PICK key : key = RunKey(c)
      OBVIOUS
    <3>4. ~Spent(key)
      BY <3>1, <3>2, <3>3, FreshKey
    <3>5. Pending(c) \/ Spent(key)
      BY <1>1, <3>3 DEF CopyInv, RunSound, StartSound
    <3> QED BY <3>4, <3>5
  <2>5. \A j \in jobs : Matches(i, j) => j.status # "working"
    BY <2>3, <2>4 DEF Pending, Matches
  <2>6. EndedStep
    BY <2>1, <2>2, <2>5, FailedEnds
  <2>7. \A d \in Claims : At(d, "start") => d = c
    BY <1>1, <2>4 DEF CopyInv, OneStarter, RunSound, StartSound, Starter, At
  <2>8. /\ run' \in [Claims -> Run] /\ OthersRest(c) /\ faults' \in 0..MaxFaults
        /\ SamePlan(c) /\ run'[c].at \in FreePlaces
    BY <1>1, RunTypes, ThrowsStep DEF Caught, FreePlaces
  <2> QED BY <1>1, <1>2, <2>6, <2>7, <2>8, EndedSafe
<1>4. CASE UNCHANGED vars
  BY <1>1, <1>2, <1>4, QuietVars, QuietIs, ThrowsSafe
<1> QED BY <1>3, <1>4 DEF Reject

LEMMA ReadDueSafe ==
  ASSUME TypedInv, TypeOK', CopyInv, NEW c \in Claims, ReadDue(c)
  PROVE  Safe
<1>1. At(c, "due") /\ QuietCall
  BY UnseenIs DEF ReadDue
<1>2. run[c].at \in AtCursorPlaces
  BY <1>1, AtPlain DEF PlainPlaces
<1> DEFINE searched == run[c].job = NoJob \/ check.required
           next == [run[c] EXCEPT !.at = "check", !.recovery = searched]
<1>3. searched \in BOOLEAN
  BY DEF TypedInv, RunnerTypeOK, TypeOK, Check
<1>4. run[c] \in Run
  BY RunTypes
<1>5. Called(c, next)
  BY DEF ReadDue
<1> HIDE DEF searched
<1>6. /\ next \in Run /\ next.at = "check" /\ next.generation = run[c].generation
      /\ next.days = run[c].days /\ next.next = run[c].next
  BY <1>3, <1>4 DEF Run, Place
<1> HIDE DEF next
<1> QED BY <1>1, <1>2, <1>5, <1>6, CalledPlainSafe DEF PlainPlaces

LEMMA CheckCopySafe ==
  ASSUME TypedInv, TypeOK', CopyInv, NEW c \in Claims, CheckCopy(c)
  PROVE  Safe
<1>1. At(c, "check") /\ NoJobs
  BY DEF CheckCopy
<1>2. run[c].at \in AtCursorPlaces /\ run[c].at \in Planned
  BY <1>1, AtPlain DEF PlainPlaces
<1>3. CASE /\ PrepareCheck(c, run[c].recovery)
           /\ Then(c, "observe") \/ Then(c, "continue")
  <2>1. QuietCall
    BY <1>1, <1>3, CallsQuiet, QuietIs
  <2> QED BY <1>2, <1>3, <2>1, ThenSafe DEF Place, PlainPlaces, FreePlaces
<1>4. CASE Throws(c) /\ UNCHANGED vars
  BY <1>1, <1>2, <1>4, QuietVars, QuietIs, ThrowsSafe
<1> QED BY <1>3, <1>4 DEF CheckCopy

LEMMA LastCheckSafe ==
  ASSUME TypedInv, TypeOK', CopyInv, NEW c \in Claims, LastCheck(c)
  PROVE  Safe
<1>1. At(c, "last check") /\ NoJobs
  BY DEF LastCheck
<1>2. run[c].at \in AtCursorPlaces /\ run[c].at \in Planned
  BY <1>1, AtPlain DEF PlainPlaces
<1>3. CASE PrepareCheck(c, FALSE) /\ (Then(c, "prepare") \/ Then(c, "continue"))
  <2>1. QuietCall
    BY <1>1, <1>3, CallsQuiet, QuietIs
  <2> QED BY <1>2, <1>3, <2>1, ThenSafe DEF Place, PlainPlaces, FreePlaces
<1>4. CASE Throws(c) /\ UNCHANGED vars
  BY <1>1, <1>2, <1>4, QuietVars, QuietIs, ThrowsSafe
<1> QED BY <1>3, <1>4 DEF LastCheck

LEMMA RequireSafe ==
  ASSUME TypedInv, TypeOK', CopyInv, NEW c \in Claims, Require(c)
  PROVE  Safe
<1>1. At(c, "require") /\ NoJobs
  BY DEF Require
<1>2. run[c].at \in AtCursorPlaces /\ run[c].at \in Planned
  BY <1>1, AtPlain DEF PlainPlaces
<1>3. QuietCall
  BY <1>1, CallsQuiet, QuietVars, QuietIs DEF Require
<1>4. CASE Then(c, "continue")
  BY <1>2, <1>3, <1>4, ThenSafe DEF Place, FreePlaces
<1>5. CASE Throws(c)
  BY <1>2, <1>3, <1>5, ThrowsSafe
<1> QED BY <1>4, <1>5 DEF Require

(* The job a run observes is the one it goes on with. *)
LEMMA ObservedSafe ==
  ASSUME QuietCall, NEW c \in Claims, At(c, "observe"), NEW j \in jobs,
         NEW next \in Run, Called(c, next),
         next.generation = run[c].generation,
         next.days = run[c].days, next.next = run[c].next,
         next.job = j.id, next.status = Status(j),
         \/ next.at = "reattach" /\ Matches(j, RunKey(c))
         \/ next.at = "settle" /\ j.status # "working"
         \/ next.at = "continue"
  PROVE  Safe
<1>1. run[c].at \in AtCursorPlaces /\ run[c].at \in Planned
  BY AtPlain DEF PlainPlaces
<1>2. CASE next.at = "continue"
  BY <1>1, <1>2, CalledPlainSafe DEF FreePlaces
<1>3. ASSUME run' \in [Claims -> Run], run'[c] = next, next.at # "continue"
      PROVE  RunSound(c)' /\ ~Starter(c)'
  <2>1. PlanSound(c) /\ PlanFrame(c) /\ CursorFrame(c)
    BY QuietFrame DEF QuietCall, CopyInv, RunSound
  <2>2. SamePlan(c) /\ run'[c].at \in {"reattach", "settle"}
    BY <1>3 DEF SamePlan
  <2>3. PlanSound(c)'
    BY <1>1, <2>1, <2>2, PlacesAre, CursorMove
  <2>4. j \in jobs' /\ RunKey(c)' = RunKey(c)
    BY <2>2 DEF QuietCall, RunKey, SamePlan, KeyOf, ChunksOf
  <2>5. j.status \in {"working", "done", "error"}
    BY DEF QuietCall, TypedInv, RunnerTypeOK, Job
  <2>6. FoundSound(c)'
    BY <1>3, <2>4, <2>5 DEF FoundSound, Status, At, Matches
  <2>7. StartSound(c)' /\ PublishSound(c)' /\ ~Starter(c)'
    BY <2>2 DEF StartSound, PublishSound, Starter, At
  <2> QED BY <2>3, <2>6, <2>7 DEF RunSound
<1>4. CASE next.at # "continue"
  BY <1>1, <1>3, <1>4, CalledSafe
<1> QED BY <1>2, <1>4

LEMMA DiscoverSafe ==
  ASSUME TypedInv, TypeOK', CopyInv, NEW c \in Claims, Discover(c)
  PROVE  Safe
<1>1. At(c, "observe") /\ QuietCall
  BY UnseenIs DEF Discover
<1>2. run[c].at \in AtCursorPlaces /\ run[c].at \in Planned
  BY <1>1, AtPlain DEF PlainPlaces
<1>3. CASE Then(c, "continue")
  BY <1>1, <1>2, <1>3, ThenSafe DEF Place, FreePlaces
<1>4. CASE Goto(c, "continue") /\ Faulty
  BY <1>1, <1>2, <1>4, GotoSafe DEF Place, FreePlaces
<1>5. ASSUME NEW j \in Discovered(c),
             Called(c, [run[c] EXCEPT !.at = "reattach", !.job = j.id,
                                      !.status = Status(j)])
      PROVE  Safe
  <2> DEFINE next == [run[c] EXCEPT !.at = "reattach", !.job = j.id,
                                    !.status = Status(j)]
  <2>1. run[c] \in Run /\ j \in jobs /\ Matches(j, RunKey(c))
    BY RunTypes DEF Discovered
  <2>2. j.id \in Jobs /\ Status(j) \in Statuses /\ "reattach" \in Place
    BY <2>1 DEF TypedInv, RunnerTypeOK, Job, Status, Statuses, Place
  <2>0. next = Found(run[c], "reattach", j.id, Status(j))
    BY DEF Found
  <2>3. /\ next \in Run /\ next.at = "reattach" /\ next.generation = run[c].generation
        /\ next.days = run[c].days /\ next.next = run[c].next
        /\ next.job = j.id /\ next.status = Status(j)
    <3> HIDE DEF next
    <3> QED BY <2>0, <2>1, <2>2, FoundRun
  <2> HIDE DEF next
  <2>4. Called(c, next)
    BY <1>5 DEF next
  <2> QED BY <1>1, <2>1, <2>3, <2>4, ObservedSafe
<1>6. CASE Throws(c)
  BY <1>1, <1>2, <1>6, ThrowsSafe
<1> QED BY <1>3, <1>4, <1>5, <1>6 DEF Discover

LEMMA ReadStatusSafe ==
  ASSUME TypedInv, TypeOK', CopyInv, NEW c \in Claims, ReadStatus(c)
  PROVE  Safe
<1>1. At(c, "observe") /\ QuietCall
  BY UnseenIs DEF ReadStatus
<1>2. run[c].at \in AtCursorPlaces /\ run[c].at \in Planned
  BY <1>1, AtPlain DEF PlainPlaces
<1>3. ASSUME NEW j \in jobs, j.id = run[c].job,
             Called(c, [run[c] EXCEPT
                          !.at = IF j.status = "working" THEN "continue" ELSE "settle",
                          !.status = Status(j)])
      PROVE  Safe
  <2> DEFINE next == [run[c] EXCEPT
                        !.at = IF j.status = "working" THEN "continue" ELSE "settle",
                        !.status = Status(j)]
  <2>1. run[c] \in Run /\ "continue" \in Place /\ "settle" \in Place
    BY RunTypes DEF Place
  <2>2. Status(j) \in Statuses
    BY DEF TypedInv, RunnerTypeOK, Job, Status, Statuses
  <2>5. PICK place \in Place :
          place = IF j.status = "working" THEN "continue" ELSE "settle"
    BY <2>1
  <2>0. next = Looked(run[c], place, Status(j))
    BY <2>5 DEF Looked
  <2>3. /\ next \in Run /\ next.generation = run[c].generation
        /\ next.at = IF j.status = "working" THEN "continue" ELSE "settle"
        /\ next.days = run[c].days /\ next.next = run[c].next
        /\ next.job = j.id /\ next.status = Status(j)
    <3> HIDE DEF next
    <3>1. run[c].job = j.id
      BY <1>3
    <3>2. /\ next \in Run /\ next.at = place /\ next.generation = run[c].generation
          /\ next.days = run[c].days /\ next.next = run[c].next
          /\ next.job = run[c].job /\ next.status = Status(j)
      BY <2>0, <2>1, <2>2, LookedRun
    <3> QED BY <2>5, <3>1, <3>2
  <2> HIDE DEF next
  <2>4. Called(c, next)
    BY <1>3 DEF next
  <2> QED BY <1>1, <2>3, <2>4, ObservedSafe
<1>4. CASE Goto(c, "require") /\ Faulty
  BY <1>1, <1>2, <1>4, GotoSafe DEF Place, PlainPlaces
<1> QED BY <1>3, <1>4 DEF ReadStatus

LEMMA ReattachSafe ==
  ASSUME TypedInv, TypeOK', CopyInv, NEW c \in Claims, Reattach(c)
  PROVE  Safe
<1>1. At(c, "reattach") /\ NoJobs
  BY DEF Reattach
<1>2. run[c].at \in AtCursorPlaces /\ run[c].at \in Planned
  BY <1>1, AtLater
<1>3. CASE /\ MayAttach(c) /\ AttachCopyJob(c, run[c].job)
           /\ Then(c, IF run[c].status = "none" THEN "continue" ELSE "settle")
  <2>1. KeptStep /\ progress'.claim = progress.claim
    BY <1>1, <1>3, ReceiptKept DEF MayAttach, At
  <2>2. PICK place \in {"continue", "settle"} :
          /\ Then(c, place) /\ (place = "settle" => run[c].status # "none")
    BY <1>3
  <2>3. place \in Place
    BY DEF Place
  <2>4. /\ run' \in [Claims -> Run] /\ OthersRest(c) /\ faults' \in 0..MaxFaults
        /\ \/ /\ run'[c].at = place /\ SamePlan(c)
              /\ run'[c].job = run[c].job /\ run'[c].status = run[c].status
           \/ Caught(c)
    BY <2>2, <2>3, RunTypes, ThenStep
  <2>5. PlanSound(c) /\ FoundSound(c)
    BY DEF CopyInv, RunSound
  <2>6. PlanFrame(c) /\ CursorFrame(c)
    BY <2>1, KeptFrame
  <2>7. CASE SamePlan(c) /\ run'[c].at \in FreePlaces
    <3>1. RunSound(c)' /\ ~Starter(c)'
      BY <1>2, <2>5, <2>6, <2>7, FreeMove DEF SamePlan, Starter, FreePlaces
    <3> QED BY <1>1, <2>1, <2>4, <3>1, KeptSafe
  <2>8. CASE /\ run'[c].at = "settle" /\ SamePlan(c) /\ place = "settle"
             /\ run'[c].job = run[c].job /\ run'[c].status = run[c].status
    <3>1. PlanSound(c)'
      BY <1>2, <2>5, <2>6, <2>8, PlacesAre, CursorMove
    <3>2. PICK j \in jobs : j.id = run[c].job /\ run[c].status \in {"none", j.status}
      BY <1>1, <2>5 DEF FoundSound, At
    <3>3. FoundSound(c)'
      BY <1>1, <2>2, <2>8, <3>2 DEF FoundSound, At, NoJobs
    <3>4. StartSound(c)' /\ PublishSound(c)' /\ ~Starter(c)'
      BY <2>8 DEF StartSound, PublishSound, Starter, At
    <3>5. RunSound(c)'
      BY <3>1, <3>3, <3>4 DEF RunSound
    <3> QED BY <1>1, <2>1, <2>4, <3>4, <3>5, KeptSafe
  <2> QED BY <2>4, <2>7, <2>8 DEF Caught, FreePlaces
<1>4. CASE Throws(c) /\ UNCHANGED vars
  BY <1>1, <1>2, <1>4, QuietVars, QuietIs, ThrowsSafe
<1> QED BY <1>3, <1>4 DEF Reattach

(* The job a run settles is the one that has the key of the intent. *)
LEMMA SettledJob ==
  ASSUME TypedInv, CopyInv, NEW c \in Claims, At(c, "settle"), OwnsCursor(c),
         NEW i \in intents, AtCursor(i), i.job = run[c].job
  PROVE  \E j \in jobs : Matches(j, i) /\ j.status = run[c].status
<1>1. PICK j \in jobs : j.id = run[c].job /\ run[c].status = j.status
  BY DEF CopyInv, RunSound, FoundSound, At
<1>2. j.id # NoJob
  BY DEF TypedInv, RunnerTypeOK, Job
<1>3. PICK k \in jobs : k.id = i.job /\ Matches(k, i)
  BY <1>1, <1>2 DEF CopyInv, JobsSound, IntentJobs
<1>4. k = j
  BY <1>1, <1>3 DEF CopyInv, JobsSound, UniqueIds
<1> QED BY <1>1, <1>3, <1>4

LEMMA SettleDoneSafe ==
  ASSUME TypedInv, TypeOK', CopyInv, NEW c \in Claims, At(c, "settle"), NoJobs,
         run[c].status = "done", OwnsCursor(c), SettleCopyDone(c, run[c].job),
         Then(c, "reread")
  PROVE  Safe
<1>1. PICK i \in intents : /\ AtCursor(i) /\ i.job = run[c].job
                           /\ intents' = intents \ {i}
  BY DEF SettleCopyDone
<1>2. \A k \in intents : k = i
  BY <1>1, IntentFacts
<1>3. \A k \in intents : \E j \in jobs : Matches(j, k) /\ j.status = "done"
  BY <1>1, <1>2, SettledJob
<1>4. InSnapshot /\ Owner(c) /\ progress.nextCopy < CopyCount
  BY DEF OwnsCursor, HoldsCursor, HoldsClaim, Owner, InSnapshot
<1>5. /\ progress' = [progress EXCEPT !.nextCopy = @ + 1]
      /\ UNCHANGED <<gate, snapshotDays, lastGeneration, erasing>>
  BY DEF SettleCopyDone
<1>6. progress \in Progress
  BY DEF TypedInv, RunnerTypeOK, TypeOK
<1>7. progress'.claim = c /\ progress'.nextCopy = progress.nextCopy + 1
  BY <1>4, <1>5, <1>6 DEF Progress, Owner
<1>8. AdvancedStep(c)
  BY <1>1, <1>2, <1>3, <1>4, <1>5, <1>7 DEF AdvancedStep, InSnapshot
<1>9. "reread" \in Place
  BY DEF Place
<1>10. /\ run' \in [Claims -> Run] /\ OthersRest(c) /\ faults' \in 0..MaxFaults
       /\ SamePlan(c) /\ run'[c].at \in FreePlaces
  BY <1>9, RunTypes, ThenStep DEF Caught, FreePlaces
<1>11. run[c].at \in Planned
  BY AtLater
<1>12. PlanFrame(c)
  BY <1>4, <1>5, <1>7 DEF PlanFrame, Owner, InSnapshot
<1>13. RunSound(c)' /\ ~Starter(c)'
  BY <1>10, <1>11, <1>12, FreeMove DEF CopyInv, RunSound, SamePlan, Starter, FreePlaces
<1>14. CopyInv'
  BY <1>8, <1>10, <1>13, AdvancedSound DEF OnlyCalls, NoJobs
<1>15. RunnerTypeOK'
  BY <1>10, CallTypes DEF NoJobs, TypedInv
<1> QED BY <1>14, <1>15 DEF Safe

LEMMA SettleErrorSafe ==
  ASSUME TypedInv, TypeOK', CopyInv, NEW c \in Claims, At(c, "settle"), NoJobs,
         run[c].status = "error", OwnsCursor(c), SettleCopyError(c, run[c].job),
         Throws(c)
  PROVE  Safe
<1>1. PICK i \in intents : /\ AtCursor(i) /\ i.job = run[c].job
                           /\ intents' = intents \ {i}
  BY DEF SettleCopyError
<1>2. \A k \in intents : k = i
  BY <1>1, IntentFacts
<1>3. PICK j \in jobs : Matches(j, i) /\ j.status = "error"
  BY <1>1, SettledJob
<1>4. \A k \in jobs : Matches(i, k) => k.status # "working"
  BY <1>3 DEF CopyInv, JobsSound, OneJobPerKey, Matches
<1>5. EndedStep
  BY <1>1, <1>4, FailedEnds DEF SettleCopyError
<1>6. \A d \in Claims : ~At(d, "start")
  BY <1>2, <1>3 DEF CopyInv, RunSound, StartSound, Pending, Matches
<1>7. /\ run' \in [Claims -> Run] /\ OthersRest(c) /\ faults' \in 0..MaxFaults
      /\ SamePlan(c) /\ run'[c].at \in FreePlaces
  BY RunTypes, ThrowsStep DEF Caught, FreePlaces
<1>8. run[c].at \in Planned
  BY AtLater
<1> QED BY <1>5, <1>6, <1>7, <1>8, EndedSafe

LEMMA SettleSafe ==
  ASSUME TypedInv, TypeOK', CopyInv, NEW c \in Claims, Settle(c)
  PROVE  Safe
<1>1. At(c, "settle") /\ NoJobs
  BY DEF Settle
<1>2. run[c].at \in Planned
  BY <1>1, AtLater
<1>3. CASE /\ Outcome(c) = "done" /\ OwnsCursor(c)
           /\ SettleCopyDone(c, run[c].job) /\ Then(c, "reread")
  BY <1>1, <1>3, SettleDoneSafe DEF Outcome
<1>4. CASE /\ Outcome(c) = "error" /\ OwnsCursor(c)
           /\ SettleCopyError(c, run[c].job) /\ Throws(c)
  BY <1>1, <1>4, SettleErrorSafe DEF Outcome
<1>5. CASE Throws(c) /\ UNCHANGED vars
  BY <1>1, <1>2, <1>5, QuietVars, QuietIs, ThrowsSafe
<1> QED BY <1>3, <1>4, <1>5 DEF Settle

LEMMA RereadSafe ==
  ASSUME TypedInv, TypeOK', CopyInv, NEW c \in Claims, Reread(c)
  PROVE  Safe
<1>1. At(c, "reread") /\ QuietCall
  BY UnseenIs DEF Reread
<1>2. run[c].at \in Planned
  BY <1>1, AtFree DEF FreePlaces
<1>3. CASE Throws(c)
  BY <1>1, <1>2, <1>3, ThrowsSafe
<1> DEFINE next == [NoRun EXCEPT !.at = "loop", !.generation = run[c].generation,
                                 !.days = run[c].days,
                                 !.next = progress.nextCopy]
<1>4. CASE Called(c, next)
  <2>1. run[c] \in Run /\ progress.nextCopy \in Nat
    BY RunTypes, GenerationFacts
  <2>4. /\ run[c].generation \in 0..MaxGeneration /\ run[c].days \in SUBSET Day
        /\ "loop" \in Place
    BY <2>1 DEF Run, Place
  <2>0. next = Planning("loop", run[c].generation, run[c].days, progress.nextCopy)
    BY DEF Planning
  <2>2. /\ next \in Run /\ next.at = "loop" /\ next.generation = run[c].generation
        /\ next.days = run[c].days /\ next.next = progress.nextCopy
    <3> HIDE DEF next
    <3> QED BY <2>0, <2>1, <2>4, PlanningRun
  <2> HIDE DEF next
  <2>3. ASSUME run' \in [Claims -> Run], run'[c] = next
        PROVE  RunSound(c)' /\ ~Starter(c)'
    <3>1. PlanSound(c) /\ PlanFrame(c) /\ CursorFrame(c)
      BY <1>1, QuietFrame DEF QuietCall, CopyInv, RunSound
    <3>2. progress'.nextCopy = progress.nextCopy
      BY <1>1 DEF QuietCall, QuietStep, SameStep
    <3>3. run'[c].at \in PlainPlaces /\ run'[c].at \in Planned /\ run'[c].at \notin Unclaimed
      BY <2>2, <2>3, PlacesAre DEF PlainPlaces, Unclaimed
    <3>4. PlanSound(c)'
      BY <1>2, <2>2, <2>3, <3>1, <3>2, <3>3 DEF PlanSound, PlanFrame
    <3>5. RunSound(c)'
      BY <3>3, <3>4, PlainSound
    <3> QED BY <3>5, <2>2, <2>3 DEF Starter
  <2> QED BY <1>1, <1>2, <1>4, <2>2, <2>3, CalledSafe
<1> QED BY <1>3, <1>4 DEF Reread

LEMMA PrepareSafe ==
  ASSUME TypedInv, TypeOK', CopyInv, NEW c \in Claims, Prepare(c)
  PROVE  Safe
<1>1. At(c, "prepare") /\ NoJobs
  BY DEF Prepare
<1>2. run[c].at \in AtCursorPlaces /\ run[c].at \in Planned
  BY <1>1, AtPlain DEF PlainPlaces
<1>3. CASE PrepareManifest(c) /\ Then(c, "publish")
  <2>1. QuietCall
    BY <1>1, <1>3, CallsQuiet, QuietIs
  <2>2. "publish" \in Place
    BY DEF Place
  <2>3. /\ run' \in [Claims -> Run] /\ OthersRest(c) /\ faults' \in 0..MaxFaults
        /\ (run'[c].at = "publish" /\ SamePlan(c)) \/ Caught(c)
    BY <1>3, <2>2, RunTypes, ThenStep
  <2>4. CASE Caught(c)
    <3>1. CopyInv'
      BY <1>2, <2>1, <2>3, <2>4, QuietCaught DEF QuietCall, OnlyCalls
    <3>2. RunnerTypeOK'
      BY <2>1, <2>3, CallTypes DEF QuietCall, TypedInv
    <3> QED BY <3>1, <3>2 DEF Safe
  <2>5. CASE run'[c].at = "publish" /\ SamePlan(c)
    <3>1. PlanSound(c) /\ PlanFrame(c) /\ CursorFrame(c)
      BY <2>1, QuietFrame DEF QuietCall, CopyInv, RunSound
    <3>2. PlanSound(c)'
      BY <1>2, <2>5, <3>1, PlacesAre, CursorMove
    <3>3. Owner(c) /\ CopiesComplete
      BY <1>3 DEF PrepareManifest, HoldsClaim, Owner, InSnapshot
    <3>4. run[c].generation = gate.generation /\ run[c].days = snapshotDays
      BY <1>2, <3>1, <3>3 DEF PlanSound
    <3>5. Copied(run[c].generation, run[c].days, ChunksOf(run[c].days) * TargetCount)
      BY <3>3, <3>4, CopyCountIs DEF CopyInv, CursorCopied, CopiesComplete, Owner
    <3>6. PublishSound(c)'
      BY <2>5, <3>5, <1>1 DEF PublishSound, At, SamePlan, Copied, NoJobs, ChunksOf
    <3>7. StartSound(c)' /\ FoundSound(c)' /\ ~Starter(c)'
      BY <2>5 DEF StartSound, FoundSound, Starter, At
    <3>8. RunSound(c)'
      BY <3>2, <3>6, <3>7 DEF RunSound
    <3>9. CopyInv'
      BY <2>1, <2>3, <3>7, <3>8, QuietSound DEF QuietCall, OnlyCalls
    <3>10. RunnerTypeOK'
      BY <2>1, <2>3, CallTypes DEF QuietCall, TypedInv
    <3> QED BY <3>9, <3>10 DEF Safe
  <2> QED BY <2>3, <2>4, <2>5
<1>4. CASE Throws(c) /\ UNCHANGED vars
  BY <1>1, <1>2, <1>4, QuietVars, QuietIs, ThrowsSafe
<1> QED BY <1>3, <1>4 DEF Prepare

LEMMA FinishSafe ==
  ASSUME TypedInv, TypeOK', CopyInv, NEW c \in Claims, Finish(c)
  PROVE  Safe
<1>1. At(c, "finish") /\ NoJobs
  BY DEF Finish
<1>2. run[c].at \in AtCursorPlaces /\ run[c].at \in Planned
  BY <1>1, AtLater
<1>3. CASE FinishSnapshot(c) /\ Then(c, "final")
  <2>1. EndedStep /\ intents = {}
    BY <1>3, FailEnds
  <2>2. "final" \in Place
    BY DEF Place
  <2>3. /\ run' \in [Claims -> Run] /\ OthersRest(c) /\ faults' \in 0..MaxFaults
        /\ SamePlan(c) /\ run'[c].at \in FreePlaces
    BY <1>3, <2>2, RunTypes, ThenStep DEF Caught, FreePlaces
  <2> QED BY <1>1, <1>2, <2>1, <2>3, NoneStarts, EndedSafe
<1>4. CASE Throws(c) /\ UNCHANGED vars
  BY <1>1, <1>2, <1>4, QuietVars, QuietIs, ThrowsSafe
<1> QED BY <1>3, <1>4 DEF Finish

LEMMA FailSafe ==
  ASSUME TypedInv, TypeOK', CopyInv, NEW c \in Claims, Fail(c)
  PROVE  Safe
<1>1. At(c, "fail") /\ NoJobs
  BY DEF Fail
<1>2. run[c].at \in Planned
  BY <1>1, AtFree DEF FreePlaces
<1>3. CASE FailSnapshot(c, TRUE) /\ Then(c, "reschedule")
  <2>1. EndedStep /\ intents = {}
    BY <1>3, FailEnds
  <2>2. "reschedule" \in Place
    BY DEF Place
  <2>3. /\ run' \in [Claims -> Run] /\ OthersRest(c) /\ faults' \in 0..MaxFaults
        /\ SamePlan(c) /\ run'[c].at \in FreePlaces
    BY <1>3, <2>2, RunTypes, ThenStep DEF Caught, FreePlaces
  <2> QED BY <1>1, <1>2, <2>1, <2>3, NoneStarts, EndedSafe
<1>4. CASE Throws(c) /\ UNCHANGED vars
  BY <1>1, <1>2, <1>4, QuietVars, QuietIs, ThrowsSafe
<1> QED BY <1>3, <1>4 DEF Fail

LEMMA FinalSafe ==
  ASSUME TypedInv, TypeOK', CopyInv, NEW c \in Claims, Final(c)
  PROVE  Safe
<1>1. At(c, "final") /\ GetStats /\ NoJobs /\ UNCHANGED faults
  BY DEF Final
<1>2. QuietCall /\ run[c].at \in Planned
  BY <1>1, GetStatsQuiet, QuietIs, AtFree DEF FreePlaces
<1>3. CASE Goto(c, "reschedule")
  BY <1>1, <1>2, <1>3, GotoSafe DEF Place, FreePlaces
<1>4. CASE Acknowledge(c)
  BY <1>1, <1>2, <1>4, AcknowledgeSafe
<1> QED BY <1>3, <1>4 DEF Final

LEMMA RescheduleSafe ==
  ASSUME TypedInv, TypeOK', CopyInv, NEW c \in Claims,
         Reschedule(c) \/ ContinueLater(c)
  PROVE  Safe
<1>1. /\ NoJobs /\ UNCHANGED faults
      /\ ScheduleSnapshotContinuation \/ UNCHANGED vars
      /\ Goto(c, "retry") \/ Acknowledge(c)
  BY DEF Reschedule, ContinueLater
<1>2. QuietCall
  BY <1>1, CallsQuiet, QuietVars, QuietIs
<1> QED BY <1>1, <1>2, GotoSafe, AcknowledgeSafe DEF Place

LEMMA ContinueSafe ==
  ASSUME TypedInv, TypeOK', CopyInv, NEW c \in Claims, Continue(c)
  PROVE  Safe
<1>1. At(c, "continue") /\ NoJobs
  BY DEF Continue
<1>2. QuietCall /\ run[c].at \in Planned
  BY <1>1, CallsQuiet, QuietVars, QuietIs, AtFree DEF FreePlaces, Continue
<1>3. CASE Then(c, "release")
  BY <1>2, <1>3, FreeThenSafe DEF Place, FreePlaces
<1>4. CASE Throws(c)
  BY <1>2, <1>4, ThrowsSafe
<1> QED BY <1>3, <1>4 DEF Continue

LEMMA CatchSafe ==
  ASSUME TypedInv, TypeOK', CopyInv, NEW c \in Claims, Catch(c)
  PROVE  Safe
<1>1. At(c, "failed") /\ QuietCall /\ UNCHANGED faults
  BY UnseenIs DEF Catch
<1>2. run[c].at \in Planned
  BY <1>1, AtFree DEF FreePlaces
<1>3. PICK place \in {"reschedule", "reassess"} :
        run' = [run EXCEPT ![c].caught = TRUE, ![c].at = place]
  BY DEF Catch
<1> DEFINE next == [run[c] EXCEPT !.caught = TRUE, !.at = place]
<1>4. run[c] \in Run
  BY RunTypes
<1>5. /\ next \in Run /\ next.at = place /\ next.generation = run[c].generation
      /\ next.days = run[c].days /\ next.next = run[c].next
  BY <1>4 DEF Run, Place
<1>6. run' = [run EXCEPT ![c] = next]
  BY <1>3
<1> HIDE DEF next
<1>7. /\ run' \in [Claims -> Run] /\ OthersRest(c) /\ SamePlan(c)
      /\ run'[c].at \in FreePlaces
  BY <1>5, <1>6, RunTypes, BecomesStep DEF SamePlan, FreePlaces
<1>8. CopyInv'
  BY <1>1, <1>2, <1>7, QuietFree DEF OnlyCalls, QuietCall
<1>9. RunnerTypeOK'
  BY <1>1, <1>7, RunTypes, CallTypes DEF QuietCall, TypedInv
<1> QED BY <1>8, <1>9 DEF Safe

LEMMA ReassessSafe ==
  ASSUME TypedInv, TypeOK', CopyInv, NEW c \in Claims, Reassess(c)
  PROVE  Safe
<1>1. At(c, "reassess") /\ QuietCall
  BY UnseenIs DEF Reassess
<1>2. run[c].at \in Planned
  BY <1>1, AtFree DEF FreePlaces
<1>3. CASE Then(c, "continue") \/ Then(c, "fail")
  BY <1>1, <1>2, <1>3, FreeThenSafe DEF Place, FreePlaces
<1>4. CASE Throws(c)
  BY <1>1, <1>2, <1>4, ThrowsSafe
<1> QED BY <1>3, <1>4 DEF Reassess

LEMMA CrashSafe ==
  ASSUME TypedInv, TypeOK', CopyInv, NEW c \in Claims, Crash(c)
  PROVE  Safe
<1>1. QuietCall /\ Goto(c, "retry") /\ Faulty
  BY UnseenIs DEF Crash
<1> QED BY <1>1, GotoSafe DEF Place

LEMMA StartCopyTyped ==
  ASSUME TypedInv, TypeOK', CopyInv, NEW c \in Claims, StartCopy(c)
  PROVE  Safe
<1>1. At(c, "start") /\ UNCHANGED <<vars, manifests, owing, repaired>>
  BY DEF StartCopy
<1>2. RunnerTypeOK /\ run[c] \in Run
  BY RunTypes DEF TypedInv
<1>3. ASSUME NEW id \in Jobs, Accepted(c, id),
             Called(c, [run[c] EXCEPT !.at = "attach", !.job = id])
      PROVE  RunnerTypeOK'
  <2> DEFINE next == [run[c] EXCEPT !.at = "attach", !.job = id]
  <2>1. next \in Run
    BY <1>2 DEF Run, Place
  <2>2. Called(c, next)
    BY <1>3
  <2> HIDE DEF next
  <2>3. run' \in [Claims -> Run] /\ faults' \in 0..MaxFaults
    BY <2>1, <2>2, RunTypes, CalledStep
  <2>4. run[c].at \in Planned
    BY <1>1, AtLater
  <2>5. run[c].generation \in 1..MaxGeneration /\ run[c].next \in Nat
        /\ run[c].days \in SUBSET Day
    BY <1>2, <2>4 DEF CopyInv, RunSound, PlanSound, Run
  <2>6. /\ RunKey(c).generation = run[c].generation
        /\ RunKey(c).target \in 0..TargetCount - 1
        /\ RunKey(c).attempt \in Nat
    BY <2>5, KeyType DEF RunKey
  <2> DEFINE job == [id |-> id, status |-> "working",
                     generation |-> RunKey(c).generation,
                     target |-> RunKey(c).target, attempt |-> RunKey(c).attempt]
  <2>7. job \in Job
    BY <2>5, <2>6 DEF Job
  <2>8. jobs' = jobs \cup {job}
    BY <1>3 DEF Accepted
  <2> HIDE DEF job
  <2> QED BY <1>1, <1>2, <2>3, <2>7, <2>8 DEF RunnerTypeOK
<1>4. ASSUME (Goto(c, "reject") \/ Goto(c, "failed")) /\ Faulty /\ UNCHANGED jobs
      PROVE  RunnerTypeOK'
  <2>1. "reject" \in Place /\ "failed" \in Place
    BY DEF Place
  <2>2. run' \in [Claims -> Run]
    BY <1>4, <2>1, RunTypes, GotoStep
  <2>3. faults' \in 0..MaxFaults
    BY <1>4, RunTypes, FaultyType
  <2>4. UNCHANGED <<jobs, manifests, owing, repaired>>
    BY <1>1, <1>4
  <2> QED BY <1>2, <2>2, <2>3, <2>4, CallTypes
<1>5. RunnerTypeOK'
  BY <1>3, <1>4 DEF StartCopy
<1> QED BY <1>5, StartCopySafe DEF Safe

LEMMA PublishTyped ==
  ASSUME TypedInv, TypeOK', CopyInv, NEW c \in Claims, PublishManifest(c)
  PROVE  Safe
<1>1. /\ At(c, "publish") /\ UNCHANGED <<vars, jobs, owing, repaired>>
      /\ Then(c, "finish")
      /\ manifests' = manifests \cup
           {[generation |-> run[c].generation, days |-> run[c].days]}
  BY DEF PublishManifest
<1>2. RunnerTypeOK /\ run[c] \in Run
  BY RunTypes DEF TypedInv
<1>3. "finish" \in Place
  BY DEF Place
<1>4. run' \in [Claims -> Run] /\ faults' \in 0..MaxFaults
  BY <1>1, <1>3, RunTypes, ThenStep
<1>5. run[c].at \in Planned
  BY <1>1, AtLater
<1>6. run[c].generation \in 1..MaxGeneration /\ run[c].days \in SUBSET Day
  BY <1>2, <1>5 DEF CopyInv, RunSound, PlanSound, Run
<1>7. [generation |-> run[c].generation, days |-> run[c].days] \in Manifest
  BY <1>6 DEF Manifest
<1>8. RunnerTypeOK'
  BY <1>1, <1>2, <1>4, <1>7 DEF RunnerTypeOK
<1> QED BY <1>8, PublishSafe DEF Safe

-----------------------------------------------------------------------------
(* A step of the composition is a step of the coordinator, or only the     *)
(* queue's message comes or goes.                                          *)

OnlyWakeups ==
  /\ wakeups' \in BOOLEAN
  /\ UNCHANGED <<today, deliveryVars, dayVars, captureVars, copyVars, erasing,
                 alarm, wake>>

(* Only the end of a published generation drops retained days. *)
KeepsRetained == \A d \in dirty \ dirty' : ~InWindow(d)
Finishing == \E c \in Claims : At(c, "finish") /\ FinishSnapshot(c)

CoordinatorStep ==
  /\ [Next]_vars \/ OnlyWakeups
  /\ KeepsRetained \/ Finishing
  /\ UNCHANGED erasing

LEMMA CoordinatorSafe ==
  ASSUME IInv, CoordinatorStep
  PROVE  IInv' /\ TypeOK'
<1>1. CASE [Next]_vars
  BY <1>1, NextSafe DEF IInv, TypeInv
<1>2. CASE OnlyWakeups
  <2>1. TypeInv'
    BY <1>2 DEF OnlyWakeups, IInv, TypeInv, TypeOK, GenerationStarted, deliveryVars,
                dayVars, captureVars, copyVars
  <2>2. SafetyInv'
    BY <1>2, ScheduleOnlyStep DEF OnlyWakeups
  <2>3. (IInv <=> TypeInv /\ SafetyInv)'
    BY IInvParts, PTL
  <2> QED BY <2>1, <2>2, <2>3 DEF TypeInv
<1> QED BY <1>1, <1>2 DEF CoordinatorStep

LEMMA PruneRetains ==
  ASSUME NEW D, NEW I, NEW C, dirty \subseteq D, Prune(D, I, C)
  PROVE  KeepsRetained
BY PruneKeepsRetained DEF KeepsRetained

LEMMA SameDirtyRetains == UNCHANGED dirty => KeepsRetained
BY DEF KeepsRetained

LEMMA WakeupStep == OnlyWakeups => CoordinatorStep
BY SameDirtyRetains DEF OnlyWakeups, CoordinatorStep, dayVars

LEMMA ClaimSteps ==
  ASSUME NEW c \in Claims, NEW recovery \in BOOLEAN, NEW recorded \in BOOLEAN,
         NEW job,
         \/ BeginSnapshot(c) \/ ClaimSnapshot(c) \/ ReleaseSnapshotClaim(c)
         \/ PrepareManifest(c) \/ FailSnapshot(c, recorded)
         \/ FinishSnapshot(c) /\ At(c, "finish")
         \/ RecordCopyIntent(c) \/ RejectCopyIntent(c) \/ RequireRecovery(c)
         \/ PrepareCheck(c, recovery)
         \/ /\ job \in Jobs
            /\ \/ AttachCopyJob(c, job) \/ SettleCopyDone(c, job)
               \/ SettleCopyError(c, job)
  PROVE  CoordinatorStep
<1>1. Next
  BY DEF Next, ClaimStep
<1>2. UNCHANGED erasing
  BY DEF BeginSnapshot, ClaimSnapshot, ReleaseSnapshotClaim, PrepareManifest,
         FailSnapshot, FinishSnapshot, RecordCopyIntent, RejectCopyIntent,
         RequireRecovery, PrepareCheck, AttachCopyJob, SettleCopyDone,
         SettleCopyError, FailGeneration
<1>3. KeepsRetained \/ Finishing
  <2>1. ASSUME AbandonGeneration  PROVE  KeepsRetained
    BY <2>1, PruneRetains DEF AbandonGeneration
  <2>2. ASSUME BeginSnapshot(c)  PROVE  KeepsRetained
    BY <2>2, PruneRetains DEF BeginSnapshot
  <2> QED BY <2>1, <2>2, SameDirtyRetains
          DEF ClaimSnapshot, ReleaseSnapshotClaim, PrepareManifest, FailSnapshot,
              RecordCopyIntent, RejectCopyIntent, RequireRecovery, PrepareCheck,
              AttachCopyJob, SettleCopyDone, SettleCopyError, FailGeneration,
              dayVars, Finishing
<1> QED BY <1>1, <1>2, <1>3 DEF CoordinatorStep

LEMMA OtherSteps ==
  ASSUME \/ GetStats \/ RequestSnapshot \/ BeginEmptySnapshot
         \/ ScheduleSnapshot \/ ScheduleSnapshotContinuation \/ Alarm
         \/ Tick \/ Midnight \/ OperatorStep \/ DeliveryStep \/ UNCHANGED vars
  PROVE  CoordinatorStep
<1> USE DEF dayVars
<1>1. [Next]_vars
  BY DEF Next, ScheduleStep
<1>2. CASE GetStats \/ Alarm
  BY <1>1, <1>2, PruneRetains DEF GetStats, Alarm, Housekeep, CoordinatorStep
<1>3. CASE RequestSnapshot \/ BeginEmptySnapshot
  BY <1>1, <1>3, PruneRetains DEF RequestSnapshot, BeginEmptySnapshot, CoordinatorStep
<1>4. CASE \/ ScheduleSnapshot \/ ScheduleSnapshotContinuation \/ Tick \/ Midnight
           \/ UNCHANGED vars
  BY <1>1, <1>4, SameDirtyRetains
     DEF ScheduleSnapshot, ScheduleSnapshotContinuation, Tick, Midnight, vars,
         CoordinatorStep
<1>5. CASE OperatorStep
  <2>1. UNCHANGED erasing
    BY <1>5 DEF OperatorStep, ResolveIncompleteDays, AbandonUnstartedCopy,
                FailGeneration, ResumeFailed, ResumeBlocked, ResumeInterrupted,
                ResumeChecks
  <2>2. ASSUME AbandonGeneration  PROVE  KeepsRetained
    BY <2>2, PruneRetains DEF AbandonGeneration
  <2>3. KeepsRetained
    BY <1>5, <2>2, SameDirtyRetains
       DEF OperatorStep, ResolveIncompleteDays, AbandonUnstartedCopy,
           FailGeneration, ResumeFailed, ResumeBlocked, ResumeInterrupted,
           ResumeChecks
  <2> QED BY <1>1, <2>1, <2>3 DEF CoordinatorStep
<1>6. CASE DeliveryStep
  <2>1. UNCHANGED erasing
    BY <1>6 DEF DeliveryStep, Reserve, PlanWrite, FinishDelivery, Complete, Expire
  <2>2. ASSUME NEW d \in Deliveries, CompleteEffect(d) \/ Expire(d) \/ Housekeep
        PROVE  KeepsRetained
    BY <2>2, PruneRetains DEF CompleteEffect, Expire, Housekeep
  <2>3. KeepsRetained
    BY <1>6, <2>2, SameDirtyRetains
       DEF DeliveryStep, Reserve, PlanWrite, FinishDelivery, Complete
  <2> QED BY <1>1, <2>1, <2>3 DEF CoordinatorStep
<1> QED BY <1>2, <1>3, <1>4, <1>5, <1>6

(* The runs call the coordinator with jobs Tinybird accepted. *)
LEMMA FoundJobsExist ==
  ASSUME TypedInv, CopyInv, NEW c \in Claims,
         run[c].at \in {"attach", "reattach", "settle"}
  PROVE  run[c].job \in Jobs
<1>1. \E j \in jobs : j.id = run[c].job
  BY DEF CopyInv, RunSound, FoundSound, At
<1> QED BY <1>1 DEF TypedInv, RunnerTypeOK, Job

LEMMA EarlySteps ==
  ASSUME NEW c \in Claims,
         \/ StartRun(c) \/ Stats(c) \/ Schedule(c) \/ Claim(c) \/ Request(c)
         \/ BeginRun(c) \/ Arm(c) \/ Acquire(c) \/ Refused(c) \/ Loop(c)
         \/ ReadIntents(c) \/ AssertActive(c) \/ Record(c) \/ StartCopy(c)
  PROVE  CoordinatorStep
<1>1. CASE StartRun(c)
  BY <1>1, WakeupStep DEF StartRun, OnlyWakeups
<1>2. CASE Stats(c) \/ Request(c)
  BY <1>2, OtherSteps DEF Stats, Request
<1>3. CASE Claim(c) \/ BeginRun(c)
  BY <1>3, OtherSteps, ClaimSteps DEF Claim, BeginRun
<1>4. CASE Schedule(c) \/ Arm(c) \/ Acquire(c) \/ Loop(c)
  BY <1>4, OtherSteps DEF Schedule, Arm, Acquire, Loop, OnlyRun
<1>5. CASE ReadIntents(c) \/ AssertActive(c) \/ StartCopy(c)
  BY <1>5, OtherSteps DEF ReadIntents, AssertActive, StartCopy, OnlyRun
<1>6. CASE Record(c) \/ Refused(c)
  BY <1>6, OtherSteps, ClaimSteps DEF Record, Refused
<1> QED BY <1>1, <1>2, <1>3, <1>4, <1>5, <1>6

LEMMA LaterSteps ==
  ASSUME TypedInv, CopyInv, NEW c \in Claims,
         \/ Attach(c) \/ Reject(c) \/ ReadDue(c) \/ CheckCopy(c) \/ Discover(c)
         \/ ReadStatus(c) \/ Require(c) \/ Reattach(c) \/ Settle(c) \/ Reread(c)
  PROVE  CoordinatorStep
<1>1. CASE Attach(c) \/ Reattach(c)
  <2>1. run[c].job \in Jobs
    BY <1>1, FoundJobsExist DEF Attach, Reattach, At
  <2> QED BY <1>1, <2>1, OtherSteps, ClaimSteps DEF Attach, Reattach
<1>2. CASE Settle(c)
  <2>1. run[c].job \in Jobs
    BY <1>2, FoundJobsExist DEF Settle, At
  <2> QED BY <1>2, <2>1, OtherSteps, ClaimSteps DEF Settle
<1>3. CASE Reject(c) \/ Require(c)
  BY <1>3, OtherSteps, ClaimSteps DEF Reject, Require
<1>4. CASE CheckCopy(c)
  <2>1. run[c].recovery \in BOOLEAN
    BY RunTypes DEF Run
  <2> QED BY <1>4, <2>1, OtherSteps, ClaimSteps DEF CheckCopy
<1>5. CASE ReadDue(c) \/ Discover(c) \/ ReadStatus(c) \/ Reread(c)
  BY <1>5, OtherSteps DEF ReadDue, Discover, ReadStatus, Reread, OnlyRun
<1> QED BY <1>1, <1>2, <1>3, <1>4, <1>5

LEMMA LastSteps ==
  ASSUME TypedInv, NEW c \in Claims,
         \/ LastCheck(c) \/ Prepare(c) \/ PublishManifest(c) \/ Finish(c)
         \/ Final(c) \/ Reschedule(c) \/ Continue(c) \/ ContinueLater(c)
         \/ Catch(c) \/ Reassess(c) \/ Fail(c) \/ Retry(c) \/ Crash(c)
  PROVE  CoordinatorStep
<1>1. CASE LastCheck(c) \/ Prepare(c) \/ Finish(c) \/ Continue(c) \/ Fail(c)
  BY <1>1, OtherSteps, ClaimSteps DEF LastCheck, Prepare, Finish, Continue, Fail
<1>2. CASE Final(c) \/ Reschedule(c) \/ ContinueLater(c)
  BY <1>2, OtherSteps DEF Final, Reschedule, ContinueLater
<1>3. CASE PublishManifest(c) \/ Catch(c) \/ Reassess(c) \/ Crash(c)
  BY <1>3, OtherSteps DEF PublishManifest, Catch, Reassess, Crash, OnlyRun
<1>4. CASE Retry(c)
  BY <1>4, WakeupStep DEF Retry, OnlyWakeups, TypedInv, RunnerTypeOK, TypeOK
<1> QED BY <1>1, <1>2, <1>3, <1>4

LEMMA AroundSteps ==
  ASSUME TypedInv,
         \/ \E d \in Deliveries : Delivery(d)
         \/ Operator \/ AlarmFires \/ JobEnds \/ TimePasses \/ NextDay
  PROVE  CoordinatorStep
<1>1. ASSUME NEW d \in Deliveries, Delivery(d)  PROVE  CoordinatorStep
  <2>1. Window \subseteq Day /\ days[d] \in SUBSET Day
    BY DEF Window, TypedInv, RunnerTypeOK, TypeOK
  <2>2. DeliveryRetention \in 1..DeliveryRetention
    OBVIOUS
  <2>3. DeliveryStep \/ ScheduleSnapshot
    BY <1>1, <2>1, <2>2 DEF Delivery, DeliveryStep
  <2> QED BY <2>3, OtherSteps
<1>2. CASE Operator
  BY <1>2, OtherSteps DEF Operator, OperatorStep
<1>3. CASE AlarmFires \/ JobEnds \/ TimePasses \/ NextDay
  BY <1>3, OtherSteps DEF AlarmFires, JobEnds, TimePasses, NextDay
<1> QED BY <1>1, <1>2, <1>3

(* What goes on around the runs. *)
LEMMA AroundQuiet ==
  ASSUME TypedInv, TypeOK', CopyInv, QuietStep,
         UNCHANGED <<run, jobs, manifests>>, owing' \subseteq Deliveries,
         repaired' \in BOOLEAN, faults' \in 0..MaxFaults
  PROVE  Safe
<1>1. CopyInv'
  BY QuietAlone DEF OnlyCalls
<1>2. RunnerTypeOK'
  BY DEF RunnerTypeOK, TypedInv
<1> QED BY <1>1, <1>2 DEF Safe

LEMMA DeliverySafe2 ==
  ASSUME TypedInv, TypeOK', CopyInv, NEW d \in Deliveries, Delivery(d)
  PROVE  Safe
<1>1. QuietStep
  BY DeliveryQuiet DEF Delivery
<1>2. /\ UNCHANGED <<run, jobs, manifests>>
      /\ owing' \subseteq Deliveries /\ repaired' \in BOOLEAN
      /\ Faulty \/ UNCHANGED faults
  BY DEF Delivery, Answered, TypedInv, RunnerTypeOK
<1>3. faults' \in 0..MaxFaults
  BY <1>2, RunTypes, FaultyType
<1> QED BY <1>1, <1>2, <1>3, AroundQuiet

(* An abandoned Copy was not submitted, nor is any run about to.            *)
LEMMA AbandonSafe ==
  ASSUME TypedInv, TypeOK', CopyInv, NeverSubmitted, AbandonUnstartedCopy,
         UNCHANGED <<run, jobs, manifests, owing, faults, repaired>>
  PROVE  Safe
<1>1. PICK i \in intents : intents = {i} /\ intents' = {}
  BY DEF AbandonUnstartedCopy
<1>2. intents' = intents \ {i}
  BY <1>1
<1>3. \A j \in jobs : Matches(i, j) => j.status # "working"
  BY DEF NeverSubmitted, Matches
<1>4. EndedStep
  BY <1>2, <1>3, FailedEnds DEF AbandonUnstartedCopy
<1>5. \A d \in Claims : run'[d] = run[d] /\ ~At(d, "start")
  BY <1>1 DEF NeverSubmitted
<1>6. CopyInv'
  BY <1>4, <1>5, EndedSound DEF OnlyCalls
<1>7. RunnerTypeOK'
  BY DEF RunnerTypeOK, TypedInv
<1> QED BY <1>6, <1>7 DEF Safe

LEMMA OperatorSafe ==
  ASSUME TypedInv, TypeOK', CopyInv, Operator
  PROVE  Safe
<1>1. UNCHANGED <<run, jobs, manifests, owing>>
  BY DEF Operator
<1>2. owing' \subseteq Deliveries /\ repaired' \in BOOLEAN /\ (Faulty \/ UNCHANGED faults)
  BY DEF Operator, TypedInv, RunnerTypeOK
<1>3. faults' \in 0..MaxFaults
  BY <1>2, RunTypes, FaultyType
<1>4. CASE ResumeFailed \/ ResumeBlocked \/ ResumeInterrupted
  <2>1. QuietStep
    BY <1>4, CallsQuiet
  <2> QED BY <1>1, <1>2, <1>3, <2>1, AroundQuiet
<1>5. CASE NeverSubmitted /\ AbandonUnstartedCopy /\ UNCHANGED <<repaired, faults>>
  BY <1>1, <1>5, AbandonSafe
<1>6. CASE \E ds \in SUBSET Day : ResolveIncompleteDays(ds)
  <2>1. QuietStep
    BY <1>6 DEF ResolveIncompleteDays, QuietStep, SameStep, InSnapshot, captureVars, copyVars
  <2> QED BY <1>1, <1>2, <1>3, <2>1, AroundQuiet
<1> QED BY <1>4, <1>5, <1>6 DEF Operator

LEMMA TimeSafe ==
  ASSUME TypedInv, TypeOK', CopyInv, AlarmFires \/ TimePasses \/ NextDay
  PROVE  Safe
<1>1. QuietStep
  BY AlarmQuiet, TickQuiet
     DEF AlarmFires, TimePasses, NextDay, Midnight, QuietStep, SameStep, InSnapshot,
         captureVars, copyVars
<1>2. UNCHANGED <<run, jobs, manifests, owing, repaired>> /\ (Faulty \/ UNCHANGED faults)
  BY DEF AlarmFires, TimePasses, NextDay
<1>3. faults' \in 0..MaxFaults
  BY <1>2, RunTypes, FaultyType
<1> QED BY <1>1, <1>2, <1>3, AroundQuiet DEF TypedInv, RunnerTypeOK

LEMMA JobEndsTyped ==
  ASSUME TypedInv, TypeOK', CopyInv, JobEnds
  PROVE  Safe
<1>1. PICK j \in jobs, outcome \in {"done", "error"} :
         /\ jobs' = (jobs \ {j}) \cup {[j EXCEPT !.status = outcome]}
         /\ Faulty \/ UNCHANGED faults
  BY DEF JobEnds
<1>2. UNCHANGED <<vars, run, manifests, owing, repaired>>
  BY DEF JobEnds
<1>3. j \in Job /\ [j EXCEPT !.status = outcome] \in Job
  BY DEF TypedInv, RunnerTypeOK, Job
<1>4. faults' \in 0..MaxFaults
  BY <1>1, RunTypes, FaultyType
<1>5. RunnerTypeOK'
  BY <1>1, <1>2, <1>3, <1>4 DEF TypedInv, RunnerTypeOK
<1> QED BY <1>5, JobEndsSafe DEF Safe

-----------------------------------------------------------------------------
(* All together *)

LEMMA ProceedSafe ==
  ASSUME TypedInv, TypeOK', CopyInv, NEW c \in Claims, Proceed(c)
  PROVE  Safe
BY StatsSafe, ScheduleSafe, ClaimSafe, RequestSafe, BeginRunSafe, ArmSafe,
   AcquireSafe, RefusedSafe, LoopSafe, ReadIntentsSafe, AssertActiveSafe,
   RecordSafe, StartCopyTyped, AttachSafe, RejectSafe, ReadDueSafe, CheckCopySafe,
   DiscoverSafe, ReadStatusSafe, RequireSafe, ReattachSafe, SettleSafe, RereadSafe,
   LastCheckSafe, PrepareSafe, PublishTyped, FinishSafe, FinalSafe, RescheduleSafe,
   ContinueSafe, CatchSafe, ReassessSafe, FailSafe, RetrySafe
   DEF Proceed

LEMMA StepIsCoordinators ==
  ASSUME TypedInv, CopyInv, RunnerNext
  PROVE  CoordinatorStep
BY EarlySteps, LaterSteps, LastSteps, AroundSteps DEF RunnerNext, Proceed

LEMMA RunnerSafe ==
  ASSUME RunnerInv, [RunnerNext]_runnerVars
  PROVE  RunnerInv'
<1>1. TypedInv /\ CopyInv
  BY DEF RunnerInv
<1>2. CASE UNCHANGED runnerVars
  <2>1. CoordinatorStep /\ QuietStep
    BY <1>2, OtherSteps, QuietVars DEF runnerVars
  <2>2. IInv' /\ TypeOK'
    BY <1>1, <2>1, CoordinatorSafe DEF TypedInv
  <2>3. Safe
    BY <1>1, <1>2, <2>1, <2>2, AroundQuiet DEF runnerVars, TypedInv, RunnerTypeOK
  <2> QED BY <2>2, <2>3 DEF RunnerInv, TypedInv, Safe
<1>3. CASE RunnerNext
  <2>1. IInv' /\ TypeOK'
    BY <1>1, <1>3, StepIsCoordinators, CoordinatorSafe DEF TypedInv
  <2>2. Safe
    BY <1>1, <1>3, <2>1, StartRunSafe, ProceedSafe, CrashSafe, DeliverySafe2,
       OperatorSafe, TimeSafe, JobEndsTyped DEF RunnerNext
  <2> QED BY <2>1, <2>2 DEF RunnerInv, TypedInv, Safe
<1> QED BY <1>2, <1>3

LEMMA RunnerInitSafe == RunnerInit => RunnerInv
<1> SUFFICES ASSUME RunnerInit  PROVE  RunnerInv
  OBVIOUS
<1>1. /\ IInv /\ gate.phase = "open" /\ progress.claim = NoClaim /\ intents = {}
      /\ jobs = {} /\ manifests = {} /\ owing = {} /\ repaired = FALSE
      /\ faults = 0
      /\ run = [c \in Claims |-> NoRun]
  <2>1. Init
    BY DEF RunnerInit
  <2>2. IInv
    BY <2>1, InitSafe
  <2>3. gate.phase = "open" /\ progress.claim = NoClaim /\ intents = {}
    BY <2>1 DEF Init, OpenGate, NoProgress
  <2>4. /\ jobs = {} /\ manifests = {} /\ owing = {} /\ repaired = FALSE
      /\ faults = 0
        /\ run = [c \in Claims |-> NoRun]
    BY Zenon DEF RunnerInit
  <2> QED BY <2>2, <2>3, <2>4
<1>2. RunnerTypeOK
  <2>1. run \in [Claims -> Run] /\ faults \in 0..MaxFaults
    BY <1>1, IdleRunType
  <2>2. TypeOK
    BY <1>1 DEF IInv, TypeInv
  <2>3. jobs \subseteq Job /\ manifests \subseteq Manifest
    BY <1>1
  <2>4. owing \subseteq Deliveries /\ repaired \in BOOLEAN
    BY <1>1
  <2> QED BY <2>1, <2>2, <2>3, <2>4 DEF RunnerTypeOK
<1>3. \A c \in Claims : run[c].at = "idle"
  BY <1>1, IdleRunType
<1>4. \A c \in Claims : RunSound(c)
  BY <1>3, PlacesAre
     DEF RunSound, PlanSound, StartSound, FoundSound, PublishSound, At, Unclaimed,
         Planned, AtCursorPlaces
<1>5. OneStarter
  BY <1>3 DEF OneStarter, Starter
<1>6. JobsSound /\ CursorCopied /\ PublishedIsCopied
  BY <1>1 DEF JobsSound, UniqueIds, OneJobPerKey, RunningCopyIsOwed, JobsKnown,
              IntentJobs, CursorCopied, InSnapshot, PublishedIsCopied
<1> QED BY <1>1, <1>2, <1>4, <1>5, <1>6 DEF RunnerInv, TypedInv, CopyInv

(* The inductive invariant holds, for any number of overlapping runs.      *)
THEOREM RunnerInvariance == RunnerSpec => []RunnerInv
<1>1. RunnerInit => RunnerInv
  BY RunnerInitSafe
<1>2. RunnerInv /\ [RunnerNext]_runnerVars => RunnerInv'
  BY RunnerSafe
<1> QED BY <1>1, <1>2, PTL DEF RunnerSpec

(* No Copy is submitted twice, and none that may still run is given up,    *)
(* wherever the runs overlap, crash or lose a reply.                       *)
THEOREM CopiesAreSound == RunnerSpec => []CopiesSound
<1>1. RunnerInv => CopiesSound
  BY DEF RunnerInv, TypedInv, CopyInv, JobsSound, CopiesSound
<1> QED BY RunnerInvariance, <1>1, PTL

(* A manifest row names only days that were copied completely, also when   *)
(* the run that writes it has long lost its claim.                         *)
THEOREM PublishedAreCopied == RunnerSpec => []PublishedIsCopied
<1>1. RunnerInv => PublishedIsCopied
  BY DEF RunnerInv, CopyInv
<1> QED BY RunnerInvariance, <1>1, PTL

-----------------------------------------------------------------------------
(* The coordinator keeps its promises under its real callers *)

(* A step of a composition, as the coordinator sees it. *)
CallStep == [Next]_vars \/ OnlyWakeups

LEMMA WakeupsKeepPromises ==
  ASSUME OnlyWakeups
  PROVE  StepPromises
<1>1. UNCHANGED <<today, lastSequence, sequence, days, ttl, dirty, incomplete, links,
                  lastGeneration, gate, snapshotDays, progress, intents, check,
                  failure, erasing>>
  BY DEF OnlyWakeups, deliveryVars, dayVars, captureVars, copyVars
<1>2. ForgetsNoUnpublishedDay
  BY <1>1 DEF ForgetsNoUnpublishedDay
<1>3. ErasureReady => ErasureReady'
  BY <1>1 DEF ErasureReady, Drained, RecoveredGate, DrainLapsed, Active
<1>4. [Abstract!Next]_LifecycleSeen
  BY <1>1 DEF LifecycleSeen
<1> QED BY <1>2, <1>3, <1>4 DEF StepPromises

LEMMA CallsKeepPromises ==
  ASSUME IInv, IInv', CallStep
  PROVE  StepPromises
BY StepsKeepPromises, WakeupsKeepPromises DEF CallStep

LEMMA RunnerStepIsCall ==
  ASSUME RunnerInv, [RunnerNext]_runnerVars
  PROVE  CallStep
BY StepIsCoordinators DEF RunnerInv, CoordinatorStep, CallStep, runnerVars, vars

(* The coordinator was proved for callers that may call anything at any    *)
(* time.  The runs, the deliveries' calls and the operator of the          *)
(* composition are such callers: dirty days survive, captures hold still,  *)
(* tables agree and the others see a lifecycle, also while runs crash,     *)
(* stall and lose replies.                                                 *)
THEOREM RunsKeepTheCoordinator ==
  RunnerSpec => /\ [](StableInput /\ CaptureSafe /\ TablesAgree)
                /\ DirtyDaySurvives /\ ImplementsLifecycle
<1>1. RunnerInv => StableInput /\ CaptureSafe /\ TablesAgree
  BY InvariantPromises DEF RunnerInv, TypedInv, StatePromises
<1>2. RunnerInv /\ RunnerInv' /\ [RunnerNext]_runnerVars => StepPromises
  BY RunnerStepIsCall, CallsKeepPromises DEF RunnerInv, TypedInv
<1>3. StepPromises => /\ [ForgetsNoUnpublishedDay]_vars
                      /\ [Abstract!Next]_LifecycleSeen
  BY DEF StepPromises
<1>4. RunnerInit => Abstract!Init
  BY InitLife DEF RunnerInit
<1> QED BY RunnerInvariance, <1>1, <1>2, <1>3, <1>4, PTL
        DEF RunnerSpec, DirtyDaySurvives, ImplementsLifecycle,
             Abstract!Spec

-----------------------------------------------------------------------------
(* The claim fences the generation *)

(* As long as nobody took its claim over, a run's plan is the generation's *)
(* and its position is the cursor, however stale the runs are that call    *)
(* beside it.                                                              *)
THEOREM OwnersAreCurrent == RunnerSpec => []OwnerIsCurrent
<1>1. RunnerInv => OwnerIsCurrent
  BY DEF RunnerInv, CopyInv, RunSound, PlanSound, Owner, InSnapshot, OwnerIsCurrent
<1> QED BY RunnerInvariance, <1>1, PTL

(* A run that heard of its call, or that it failed, has moved on. *)
LEMMA RunMovesOn ==
  ASSUME TypedInv, NEW c \in Claims, NEW place \in Place,
         Then(c, place) \/ Throws(c), run[c].at \notin {place, "failed", "retry"}
  PROVE  run'[c] # run[c]
<1>1. run \in [Claims -> Run] /\ faults \in 0..MaxFaults
  BY RunTypes
<1>2. CASE Then(c, place)
  BY <1>1, <1>2, ThenStep DEF Caught
<1>3. CASE Throws(c)
  BY <1>1, <1>3, ThrowsStep DEF Caught
<1> QED BY <1>2, <1>3

LEMMA HolderMoves ==
  ASSUME NEW c, HoldsClaim(c), run'[c] # run[c]
  PROVE  OnlyHolderMoves
BY DEF HoldsClaim, OnlyHolderMoves

LEMMA NothingMoves == UNCHANGED generationVars => OnlyHolderMoves
BY DEF OnlyHolderMoves

LEMMA NoSnapshotMoves == ~InSnapshot => OnlyHolderMoves
BY DEF OnlyHolderMoves, InSnapshot

LEMMA SameCopiesMove == UNCHANGED <<captureVars, copyVars>> => OnlyHolderMoves
BY NothingMoves DEF captureVars, copyVars, generationVars

LEMMA SameVarsMove == UNCHANGED vars => OnlyHolderMoves
BY SameCopiesMove DEF vars

(* Tidying up leaves a snapshot's gate and captured days as they are. *)
LEMMA HousekeepMoves ==
  ASSUME Housekeep, UNCHANGED <<progress, copyVars>>
  PROVE  OnlyHolderMoves
<1>1. CASE InSnapshot
  <2>1. UNCHANGED <<gate, snapshotDays>>
    BY <1>1 DEF Housekeep, RecoveredGate, RecoveredDays, DrainLapsed, InSnapshot
  <2> QED BY <2>1, NothingMoves DEF copyVars, generationVars
<1> QED BY <1>1, NoSnapshotMoves

LEMMA LooksMove ==
  ASSUME TypedInv,
         GetStats \/ RequestSnapshot \/ BeginEmptySnapshot
           \/ \E c \in Claims : BeginSnapshot(c)
  PROVE  OnlyHolderMoves
<1>1. CASE GetStats
  BY <1>1, HousekeepMoves DEF GetStats
<1>2. CASE RecoveredGate.phase # "snapshot"
  BY <1>2, RecoveredIdle, NoSnapshotMoves
<1> QED BY <1>1, <1>2 DEF RequestSnapshot, BeginEmptySnapshot, BeginSnapshot

(* A claim changes hands only when the lease is out: a run that tries to   *)
(* claim does not hold the claim already.                                  *)
LEMMA TakeoverMoves ==
  ASSUME TypedInv, CopyInv, NEW c \in Claims, At(c, "claim"), ClaimSnapshot(c)
  PROVE  OnlyHolderMoves
<1>1. progress.claim # c
  BY DEF CopyInv, RunSound, PlanSound, Unclaimed, At
<1>2. gate.lease = 0
  BY <1>1 DEF ClaimSnapshot, MayClaim
<1>3. progress \in Progress
  BY DEF TypedInv, RunnerTypeOK, TypeOK
<1>4. progress' = [progress EXCEPT !.claim = progress'.claim]
  BY <1>3 DEF ClaimSnapshot, Progress
<1>5. /\ gate' = [gate EXCEPT !.lease = SnapshotLease]
      /\ UNCHANGED <<snapshotDays, intents, check>>
  BY DEF ClaimSnapshot, SetLease, copyVars
<1> QED BY <1>2, <1>4, <1>5 DEF OnlyHolderMoves

(* The places where a run calls the coordinator in the name of its claim. *)
LEMMA ClaimCallsMove ==
  ASSUME TypedInv, NEW c \in Claims,
         \/ Refused(c) \/ Record(c) \/ Attach(c) \/ Reject(c) \/ CheckCopy(c)
         \/ Require(c) \/ Reattach(c) \/ Settle(c) \/ LastCheck(c) \/ Prepare(c)
         \/ Finish(c) \/ Continue(c) \/ Fail(c)
  PROVE  OnlyHolderMoves
<1>1. /\ "reschedule" \in Place /\ "start" \in Place /\ "continue" \in Place
      /\ "observe" \in Place /\ "settle" \in Place /\ "reread" \in Place
      /\ "prepare" \in Place /\ "publish" \in Place /\ "final" \in Place
      /\ "release" \in Place
  BY DEF Place
<1>2. ASSUME run'[c] = run[c]  PROVE  FALSE
  <2>1. CASE Refused(c) \/ Record(c) \/ Attach(c) \/ Reject(c)
    BY <1>1, <1>2, <2>1, RunMovesOn DEF Refused, Record, Attach, Reject, At
  <2>2. CASE CheckCopy(c) \/ LastCheck(c)
    BY <1>1, <1>2, <2>2, RunMovesOn DEF CheckCopy, LastCheck, At
  <2>3. CASE Require(c) \/ Reattach(c) \/ Settle(c)
    BY <1>1, <1>2, <2>3, RunMovesOn DEF Require, Reattach, Settle, At
  <2>4. CASE Prepare(c) \/ Finish(c) \/ Continue(c) \/ Fail(c)
    BY <1>1, <1>2, <2>4, RunMovesOn DEF Prepare, Finish, Continue, Fail, At
  <2> QED BY <2>1, <2>2, <2>3, <2>4
<1>3. HoldsClaim(c) \/ UNCHANGED vars
  BY DEF Refused, Record, Attach, Reject, CheckCopy, Require, Reattach, Settle,
         LastCheck, Prepare, Finish, Continue, Fail, FailSnapshot, MayAttach,
         OwnsCursor, HoldsCursor, MayCheck, PrepareManifest, FinishSnapshot,
         ReleaseSnapshotClaim
<1> QED BY <1>2, <1>3, HolderMoves, SameVarsMove

LEMMA OtherCallsMove ==
  ASSUME TypedInv, CopyInv, NEW c \in Claims,
         \/ StartRun(c) \/ Stats(c) \/ Schedule(c) \/ Claim(c) \/ Request(c)
         \/ BeginRun(c) \/ Arm(c) \/ Acquire(c) \/ Loop(c) \/ ReadIntents(c)
         \/ AssertActive(c) \/ StartCopy(c) \/ ReadDue(c) \/ Discover(c)
         \/ ReadStatus(c) \/ Reread(c) \/ PublishManifest(c) \/ Final(c)
         \/ Reschedule(c) \/ ContinueLater(c) \/ Catch(c) \/ Reassess(c)
         \/ Retry(c) \/ Crash(c)
  PROVE  OnlyHolderMoves
<1>1. CASE Claim(c)
  BY <1>1, TakeoverMoves, SameVarsMove DEF Claim
<1>2. CASE Stats(c) \/ Request(c) \/ BeginRun(c) \/ Final(c)
  BY <1>2, LooksMove DEF Stats, Request, BeginRun, Final
<1>3. CASE \/ Schedule(c) \/ Acquire(c) \/ Loop(c) \/ ReadIntents(c)
           \/ AssertActive(c) \/ StartCopy(c) \/ ReadDue(c) \/ Discover(c)
           \/ ReadStatus(c) \/ Reread(c) \/ PublishManifest(c) \/ Catch(c)
           \/ Reassess(c) \/ Crash(c)
  <2>1. UNCHANGED vars
    BY <1>3
       DEF Schedule, Acquire, Loop, ReadIntents, AssertActive, StartCopy, ReadDue,
           Discover, ReadStatus, Reread, PublishManifest, Catch, Reassess, Crash,
           OnlyRun
  <2> QED BY <2>1, SameVarsMove
<1>4. CASE StartRun(c) \/ Retry(c)
  BY <1>4, SameCopiesMove DEF StartRun, Retry
<1>5. CASE Arm(c) \/ Reschedule(c) \/ ContinueLater(c)
  <2>1. ScheduleSnapshotContinuation \/ UNCHANGED vars
    BY <1>5 DEF Arm, Reschedule, ContinueLater
  <2> QED BY <2>1, SameCopiesMove, SameVarsMove DEF ScheduleSnapshotContinuation
<1> QED BY <1>1, <1>2, <1>3, <1>4, <1>5

(* The operator acts on a generation whose run gave its claim back. *)
LEMMA OperatorMoves ==
  ASSUME Operator
  PROVE  OnlyHolderMoves
<1>1. UNCHANGED run
  BY DEF Operator
<1>2. CASE ResumeFailed \/ \E ds \in SUBSET Day : ResolveIncompleteDays(ds)
  <2>1. UNCHANGED generationVars
    BY <1>2 DEF ResumeFailed, ResolveIncompleteDays, captureVars, copyVars,
                generationVars
  <2> QED BY <2>1, NothingMoves
<1>3. CASE ResumeBlocked \/ ResumeInterrupted \/ AbandonUnstartedCopy
  <2>1. gate.lease = 0 /\ Blocked
    BY <1>3 DEF ResumeBlocked, ResumeInterrupted, ResumeChecks,
                AbandonUnstartedCopy, Blocked
  <2> QED BY <1>1, <2>1 DEF OnlyHolderMoves
<1> QED BY <1>2, <1>3 DEF Operator

LEMMA AroundMoves ==
  ASSUME \/ \E d \in Deliveries : Delivery(d)
         \/ AlarmFires \/ JobEnds \/ TimePasses \/ NextDay
  PROVE  OnlyHolderMoves
<1>1. ASSUME NEW d \in Deliveries, Delivery(d)  PROVE  OnlyHolderMoves
  <2>1. CASE \E ds \in SUBSET Window : Reserve(d, ds, DeliveryRetention)
    BY <2>1, HousekeepMoves DEF Reserve
  <2>2. CASE \/ FinishDelivery(d, days[d], TRUE) \/ Complete(d) \/ ScheduleSnapshot
             \/ Expire(d)
    BY <2>2, SameCopiesMove DEF FinishDelivery, Complete, ScheduleSnapshot, Expire
  <2> QED BY <1>1, <2>1, <2>2 DEF Delivery
<1>2. CASE AlarmFires
  BY <1>2, HousekeepMoves DEF AlarmFires, Alarm
<1>3. CASE JobEnds
  BY <1>3, SameVarsMove DEF JobEnds
<1>4. CASE NextDay
  BY <1>4, SameCopiesMove DEF NextDay, Midnight
<1>5. CASE TimePasses
  BY <1>5 DEF TimePasses, Tick, OnlyHolderMoves
<1> QED BY <1>1, <1>2, <1>3, <1>4, <1>5

(* Nothing moves the records of a generation but calls of the run that     *)
(* holds its claim, the takeover of a claim whose lease is out, time, and  *)
(* the operator once the looks are spent: calls of runs that were taken    *)
(* over come to nothing, wherever those runs stalled.                      *)
THEOREM GenerationsAreFenced == RunnerSpec => GenerationIsFenced
<1>1. RunnerInv /\ [RunnerNext]_runnerVars => [OnlyHolderMoves]_runnerVars
  BY ClaimCallsMove, OtherCallsMove, OperatorMoves, AroundMoves
     DEF RunnerInv, RunnerNext, Proceed
<1> QED BY RunnerInvariance, <1>1, PTL DEF RunnerSpec, GenerationIsFenced

-----------------------------------------------------------------------------
(* What is forgotten was published *)

(* A run finishes what it published. *)
LEMMA FinishIsPublished ==
  ASSUME CopyInv, Finishing
  PROVE  OnlyPublishedForgotten
<1>1. PICK c \in Claims : At(c, "finish") /\ FinishSnapshot(c)
  BY DEF Finishing
<1>2. Owner(c) /\ run[c].at \in Planned
  BY <1>1, AtLater DEF FinishSnapshot, HoldsClaim, Owner, InSnapshot
<1>3. run[c].generation = gate.generation /\ run[c].days = snapshotDays
  BY <1>2 DEF CopyInv, RunSound, PlanSound
<1>4. [generation |-> gate.generation, days |-> snapshotDays] \in manifests
  BY <1>1, <1>3 DEF CopyInv, RunSound, PublishSound
<1>5. \A d \in dirty \ dirty' : InWindow(d) => d \in snapshotDays
  BY <1>1 DEF FinishSnapshot, Pruned
<1> QED BY <1>4, <1>5 DEF OnlyPublishedForgotten

(* A retained day stops being dirty only when a manifest row of the ending *)
(* generation names it, whatever run writes the row and whatever overlaps. *)
THEOREM ForgottenArePublished == RunnerSpec => ForgottenIsPublished
<1>1. ASSUME RunnerInv, [RunnerNext]_runnerVars
      PROVE  [OnlyPublishedForgotten]_runnerVars
  <2>1. CASE UNCHANGED runnerVars
    BY <2>1
  <2>2. CASE RunnerNext
    <3>1. CoordinatorStep
      BY <1>1, <2>2, StepIsCoordinators DEF RunnerInv
    <3>2. CASE KeepsRetained
      BY <3>2 DEF KeepsRetained, OnlyPublishedForgotten
    <3>3. CASE Finishing
      BY <1>1, <3>3, FinishIsPublished DEF RunnerInv
    <3> QED BY <3>1, <3>2, <3>3 DEF CoordinatorStep
  <2> QED BY <1>1, <2>1, <2>2
<1> QED BY RunnerInvariance, <1>1, PTL DEF RunnerSpec, ForgottenIsPublished

-----------------------------------------------------------------------------
(* Work has an alarm.  Places at which a run has looked at the Copy it     *)
(* owes, or is about to, tell when a record of looks may be dropped.       *)

SeenPlaces == {"observe", "require", "reattach", "settle", "prepare", "publish",
               "finish"}
Watched == SeenPlaces \cup {"due", "check", "refused", "last check"}

(* What a run on its way to look, or that has looked, relies on. *)
WaitSound(c) ==
  /\ Owner(c) /\ run[c].at \in {"due", "check"} => intents # {}
  /\ Owner(c) /\ run[c].at \in SeenPlaces => ~Blocked
  /\ At(c, "refused") => run[c].next = 0
  /\ At(c, "last check") => run[c].next >= ChunksOf(run[c].days) * TargetCount

(* Looks are counted for a Copy that is owed, or for the manifest. *)
CheckOwed == check # NoCheck => intents # {} \/ CopiesComplete
CursorBound == progress.nextCopy <= CopyCount
ReservedHaveDays == \A d \in Active : days[d] # {}

ScheduleInv == CheckOwed /\ CursorBound /\ ReservedHaveDays /\ WorkHasAlarm
AlarmInv == ~erasing /\ ScheduleInv /\ \A c \in Claims : WaitSound(c)

(* What holds of a step whose own part is still to be shown. *)
Before == RunnerInv /\ AlarmInv /\ IInv'

(* With incomplete days among the dirty ones, the counts compare the sets, *)
(* and captured days are never incomplete.                                 *)
LEMMA CountsCompare ==
  ASSUME NEW D \in SUBSET Day, NEW I \in SUBSET D
  PROVE  Cardinality(D) > Cardinality(I) <=> D # I
<1>1. IsFiniteSet(D) /\ IsFiniteSet(I)
  <2>1. IsFiniteSet(Day)
    BY FS_Interval DEF Day
  <2>2. IsFiniteSet(D)
    BY <2>1, FS_Subset
  <2> QED BY <2>2, FS_Subset
<1>2. Cardinality(D) \in Nat /\ Cardinality(I) \in Nat /\ Cardinality(I) <= Cardinality(D)
  BY <1>1, FS_Subset, FS_CardinalityType
<1>3. D # I => Cardinality(I) # Cardinality(D)
  BY <1>1, FS_Subset
<1> QED BY <1>2, <1>3

LEMMA WorkIs ==
  IInv => (SnapshotHasWork <=> failure = 0 /\ ~Blocked /\ dirty # incomplete)
<1> SUFFICES ASSUME IInv
             PROVE  SnapshotHasWork <=> failure = 0 /\ ~Blocked /\ dirty # incomplete
  OBVIOUS
<1>1. dirty \in SUBSET Day /\ incomplete \in SUBSET dirty
  BY DEF IInv, TypeInv, TypeOK, IncompleteAreDirty
<1>2. gate.phase = "snapshot" => dirty # incomplete
  BY DEF IInv, CaptureSound
<1>3. Cardinality(dirty) > Cardinality(incomplete) <=> dirty # incomplete
  BY <1>1, CountsCompare
<1> QED BY <1>2, <1>3 DEF SnapshotHasWork

LEMMA WorkIsNext ==
  ASSUME IInv'
  PROVE  SnapshotHasWork' <=> failure' = 0 /\ ~Blocked' /\ dirty' # incomplete'
<1>1. (IInv => (SnapshotHasWork <=> failure = 0 /\ ~Blocked /\ dirty # incomplete))'
  BY WorkIs, PTL
<1> QED BY <1>1

(* No new work, and the alarm is kept. *)
LEMMA WorkStays ==
  ASSUME IInv, IInv', WorkHasAlarm, UNCHANGED <<owing, repaired>>,
         dirty = incomplete => dirty' = incomplete',
         failure' = 0 => failure = 0, Blocked => Blocked',
         alarm # NoAlarm => alarm' # NoAlarm
  PROVE  WorkHasAlarm'
BY WorkIs, WorkIsNext DEF WorkHasAlarm, NoAlarm

(* The step schedules whatever work is left. *)
LEMMA WorkScheduled ==
  ASSUME IInv', failure' = 0 /\ ~Blocked' => alarm' # NoAlarm
  PROVE  WorkHasAlarm'
BY WorkIsNext DEF WorkHasAlarm, NoAlarm

LEMMA PruneKeepsEqual ==
  ASSUME NEW X, NEW C, Prune(dirty \cup X, incomplete \cup X, C)
  PROVE  dirty = incomplete => dirty' = incomplete'
BY DEF Prune, Pruned

LEMMA PruneKeepsSame ==
  ASSUME NEW C, Prune(dirty, incomplete, C)
  PROVE  dirty = incomplete => dirty' = incomplete'
BY DEF Prune, Pruned

LEMMA ContinuationSchedules ==
  ASSUME IInv', ContinuationEffect
  PROVE  WorkHasAlarm'
<1>1. wake' \in Int
  BY DEF IInv, TypeInv, TypeOK
<1>2. failure' = 0 /\ ~Blocked' => alarm' # NoAlarm
  BY <1>1 DEF ContinuationEffect, Blocked, Larger, NoAlarm
<1> QED BY <1>2, WorkScheduled

LEMMA CopyCountType ==
  ASSUME snapshotDays \in SUBSET Day
  PROVE  CopyCount \in Nat \ {0}
<1>1. ChunksOf(snapshotDays) \in Nat \ {0}
  BY ChunksType
<1> QED BY <1>1, CopyCountIs

(* What a step may not do to a run that stands still. *)
WaitFrame(d) ==
  Owner(d)' => /\ Owner(d)
               /\ intents # {} => intents' # {}
               /\ Blocked' => Blocked

LEMMA RestWaits ==
  ASSUME NEW d \in Claims, WaitSound(d), WaitFrame(d), run'[d] = run[d]
  PROVE  WaitSound(d)'
<1>1. (ChunksOf(run[d].days))' = ChunksOf(run[d].days)
  BY DEF ChunksOf
<1> QED BY <1>1 DEF WaitSound, WaitFrame, At

LEMMA UnwatchedWaits ==
  ASSUME NEW c \in Claims, run'[c].at \notin Watched
  PROVE  WaitSound(c)'
BY DEF WaitSound, At, Watched, SeenPlaces

-----------------------------------------------------------------------------
(* The coordinator's calls and the schedule *)

LEMMA BeforeFacts ==
  ASSUME Before
  PROVE  /\ TypedInv /\ CopyInv /\ IInv /\ IInv' /\ TypeOK /\ TypeOK' /\ ~erasing
         /\ CheckOwed /\ CursorBound /\ ReservedHaveDays /\ WorkHasAlarm
         /\ \A c \in Claims : WaitSound(c)
BY DEF Before, RunnerInv, TypedInv, AlarmInv, ScheduleInv, IInv, TypeInv

LEMMA QuietWatch ==
  ASSUME Before, QuietStep, check' # NoCheck => check # NoCheck, Blocked' => Blocked
  PROVE  CheckOwed' /\ CursorBound' /\ \A d \in Claims : WaitFrame(d)
<1>1. CopyCount' = CopyCount
  BY DEF QuietStep, SameStep, CopyCount, CopyChunks
<1>2. CheckOwed' /\ CursorBound'
  BY <1>1, BeforeFacts
     DEF QuietStep, SameStep, CheckOwed, CursorBound, CopiesComplete
<1>3. \A d \in Claims : WaitFrame(d)
  BY DEF QuietStep, SameStep, WaitFrame, Owner
<1> QED BY <1>2, <1>3

LEMMA SameReservations ==
  ASSUME ReservedHaveDays, UNCHANGED <<sequence, days>>
  PROVE  ReservedHaveDays'
BY DEF ReservedHaveDays, Active

(* What a call leaves to the runs and to the schedule. *)
Watch == ScheduleInv' /\ \A d \in Claims : WaitFrame(d)

LEMMA UnseenWatch ==
  ASSUME Before, UNCHANGED <<owing, repaired>>, UNCHANGED vars \/ OnlyWakeups
  PROVE  Watch
<1> USE DEF vars, OnlyWakeups, deliveryVars, dayVars, captureVars, copyVars,
           scheduleVars
<1>1. QuietStep /\ check' = check
  BY DEF QuietStep, SameStep, InSnapshot
<1>2. CheckOwed' /\ CursorBound' /\ \A d \in Claims : WaitFrame(d)
  BY <1>1, QuietWatch DEF Blocked
<1>3. WorkHasAlarm'
  <2>1. UNCHANGED <<dirty, incomplete, failure, check, alarm>>
    OBVIOUS
  <2> QED BY <2>1, BeforeFacts, WorkStays DEF Blocked
<1>4. ReservedHaveDays'
  BY BeforeFacts, SameReservations
<1> QED BY <1>2, <1>3, <1>4 DEF Watch, ScheduleInv

LEMMA PruneWatch ==
  ASSUME Before, UNCHANGED <<owing, repaired>>,
         \/ GetStats \/ RequestSnapshot \/ BeginEmptySnapshot
         \/ (\E d \in Deliveries : \E ds, age : Reserve(d, ds, age) /\ ds # {})
  PROVE  Watch
<1> USE DEF deliveryVars, copyVars, scheduleVars
<1>1. QuietStep
  BY BeforeFacts, GetStatsQuiet, RequestQuiet, BeginEmptyQuiet, DeliveryQuiet
<1>2. UNCHANGED <<check, failure, alarm>>
  BY DEF GetStats, RequestSnapshot, BeginEmptySnapshot, Reserve
<1>3. CheckOwed' /\ CursorBound' /\ \A d \in Claims : WaitFrame(d)
  BY <1>1, <1>2, QuietWatch DEF Blocked
<1>4. dirty = incomplete => dirty' = incomplete'
  BY PruneKeepsSame
     DEF GetStats, RequestSnapshot, BeginEmptySnapshot, Reserve, Housekeep
<1>5. WorkHasAlarm'
  BY <1>2, <1>4, BeforeFacts, WorkStays DEF Blocked
<1>6. ReservedHaveDays'
  <2>1. CASE UNCHANGED deliveryVars
    BY <2>1, BeforeFacts, SameReservations
  <2>2. ASSUME NEW d \in Deliveries, NEW ds, NEW age, Reserve(d, ds, age), ds # {}
        PROVE  ReservedHaveDays'
    <3>1. sequence \in [Deliveries -> 0..MaxSequence] /\ days \in [Deliveries -> SUBSET Day]
      BY BeforeFacts DEF TypeOK
    <3>2. days' = [days EXCEPT ![d] = ds]
          /\ \A x \in Deliveries : x # d => sequence'[x] = sequence[x]
      BY <2>2, <3>1 DEF Reserve
    <3> QED BY <2>2, <3>1, <3>2, BeforeFacts DEF ReservedHaveDays, Active
  <2> QED BY <2>1, <2>2 DEF GetStats, RequestSnapshot, BeginEmptySnapshot
<1> QED BY <1>3, <1>5, <1>6 DEF Watch, ScheduleInv

LEMMA AlarmWatch ==
  ASSUME Before, UNCHANGED <<owing, repaired>>, Alarm
  PROVE  Watch
<1> USE DEF deliveryVars, copyVars
<1>1. QuietStep
  BY BeforeFacts, AlarmQuiet
<1>2. UNCHANGED <<check, failure, sequence, days>>
  BY DEF Alarm
<1>3. CheckOwed' /\ CursorBound' /\ \A d \in Claims : WaitFrame(d)
  BY <1>1, <1>2, QuietWatch DEF Blocked
<1>4. ReservedHaveDays'
  BY <1>2, BeforeFacts, SameReservations
<1>5. CASE /\ gate'.phase # "snapshot"
           /\ Cardinality(dirty') <= Cardinality(incomplete')
  <2>1. dirty' \in SUBSET Day /\ incomplete' \in SUBSET dirty'
    BY BeforeFacts DEF IInv, TypeOK, IncompleteAreDirty
  <2>2. Cardinality(dirty') \in Int /\ Cardinality(incomplete') \in Int
    <3>1. IsFiniteSet(Day)
      BY FS_Interval DEF Day
    <3>2. IsFiniteSet(dirty')
      BY <2>1, <3>1, FS_Subset
    <3> QED BY <2>1, <3>2, FS_Subset, FS_CardinalityType
  <2>3. dirty' = incomplete'
    BY <1>5, <2>1, <2>2, CountsCompare
  <2>4. WorkHasAlarm'
    BY <2>3, BeforeFacts, WorkIsNext DEF WorkHasAlarm
  <2> QED BY <1>3, <1>4, <2>4 DEF Watch, ScheduleInv
<1>6. CASE ~(/\ gate'.phase # "snapshot"
             /\ Cardinality(dirty') <= Cardinality(incomplete'))
  <2>1. gate'.lease \in Int /\ DueWake \in Int
    <3>1. gate' \in Gate
      BY BeforeFacts DEF TypeOK
    <3>2. check \in Check /\ wake \in Int
      BY BeforeFacts DEF TypeOK
    <3>3. check.wait \in 0..FirstCheck + CheckDelay
      BY <3>2 DEF Check
    <3>4. check.wait \in Int
      BY <3>3
    <3> QED BY <3>1, <3>2, <3>4 DEF Gate, DueWake
  <2>2. failure' = 0 /\ ~Blocked' => alarm' # NoAlarm
    BY <1>2, <1>6, <2>1, BeforeFacts DEF Alarm, Blocked, NoAlarm
  <2>3. WorkHasAlarm'
    BY <2>2, BeforeFacts, WorkScheduled
  <2> QED BY <1>3, <1>4, <2>3 DEF Watch, ScheduleInv
<1> QED BY <1>5, <1>6

LEMMA TimeWatch ==
  ASSUME Before, UNCHANGED <<owing, repaired>>, Tick \/ Midnight
  PROVE  Watch
<1> USE DEF deliveryVars, dayVars, captureVars, copyVars, scheduleVars
<1>1. QuietStep
  BY BeforeFacts, TickQuiet DEF Midnight, QuietStep, SameStep, InSnapshot
<1>2. /\ UNCHANGED <<failure, sequence, days, dirty, incomplete>>
      /\ alarm # NoAlarm => alarm' # NoAlarm
  BY BeforeFacts DEF Tick, Midnight, Down, NoAlarm, TypeOK
<1>3. (check' # NoCheck => check # NoCheck) /\ check'.blocked = check.blocked
  <2>1. check \in Check
    BY BeforeFacts DEF TypeOK
  <2>2. CASE check' = [check EXCEPT !.wait = Down(@)]
    <3>1. check = NoCheck => check' = NoCheck
      BY <2>2 DEF NoCheck, NewCheck, Down
    <3> QED BY <2>1, <2>2, <3>1 DEF Check
  <2>3. CASE check' = check
    BY <2>3
  <2> QED BY <2>2, <2>3 DEF Tick, Midnight
<1>4. CheckOwed' /\ CursorBound' /\ \A d \in Claims : WaitFrame(d)
  BY <1>1, <1>3, QuietWatch DEF Blocked
<1>5. WorkHasAlarm'
  BY <1>2, <1>3, BeforeFacts, WorkStays DEF Blocked
<1>6. ReservedHaveDays'
  BY <1>2, BeforeFacts, SameReservations
<1> QED BY <1>4, <1>5, <1>6 DEF Watch, ScheduleInv

LEMMA CallsWatch ==
  ASSUME Before, UNCHANGED <<owing, repaired>>, NEW c,
         \/ ScheduleSnapshotContinuation \/ ReleaseSnapshotClaim(c)
         \/ PrepareManifest(c) \/ RequireRecovery(c)
         \/ ResumeFailed \/ ResumeBlocked
  PROVE  Watch
<1> USE DEF deliveryVars, dayVars, captureVars, copyVars, scheduleVars
<1>1. QuietStep
  <2>1. TypedInv /\ FALSE \in BOOLEAN
    BY BeforeFacts
  <2> QED BY <2>1, CallsQuiet
<1>2. UNCHANGED <<sequence, days, dirty, incomplete>>
  BY DEF ScheduleSnapshotContinuation, ReleaseSnapshotClaim, PrepareManifest,
         RequireRecovery, ResumeFailed, ResumeBlocked, ResumeChecks
<1>3. (check' # NoCheck => check # NoCheck) /\ (Blocked' => Blocked)
  <2>1. check \in Check
    BY BeforeFacts DEF TypeOK
  <2>2. CASE UNCHANGED check
    BY <2>2 DEF Blocked
  <2>3. CASE RequireRecovery(c)
    BY <2>1, <2>3 DEF RequireRecovery, Blocked, Check
  <2>4. CASE ResumeBlocked
    <3>1. check.blocked # "no" /\ NoCheck.blocked = "no"
      BY <2>4 DEF ResumeBlocked, ResumeChecks, Blocked, NoCheck, NewCheck
    <3> QED BY <3>1 DEF Blocked
  <2> QED BY <2>2, <2>3, <2>4
          DEF ScheduleSnapshotContinuation, ReleaseSnapshotClaim, PrepareManifest,
              ResumeFailed
<1>4. CheckOwed' /\ CursorBound' /\ \A d \in Claims : WaitFrame(d)
  BY <1>1, <1>3, QuietWatch
<1>5. ReservedHaveDays'
  BY <1>2, BeforeFacts, SameReservations
<1>6. WorkHasAlarm'
  <2>1. CASE ScheduleSnapshotContinuation \/ ResumeFailed \/ ResumeBlocked
    BY <2>1, BeforeFacts, ContinuationSchedules
       DEF ScheduleSnapshotContinuation, ResumeFailed, ResumeBlocked
  <2>2. CASE ReleaseSnapshotClaim(c) \/ PrepareManifest(c) \/ RequireRecovery(c)
    <3>1. check \in Check
      BY BeforeFacts DEF TypeOK
    <3>2. UNCHANGED <<failure, alarm>> /\ check'.blocked = check.blocked
      BY <2>2, <3>1
         DEF ReleaseSnapshotClaim, PrepareManifest, RequireRecovery, Check
    <3> QED BY <1>2, <3>2, BeforeFacts, WorkStays DEF Blocked
  <2> QED BY <2>1, <2>2
<1> QED BY <1>4, <1>5, <1>6 DEF Watch, ScheduleInv

(* Another run takes the generation over, or begins one. *)
LEMMA ClaimWatch ==
  ASSUME Before, UNCHANGED <<owing, repaired>>, NEW c \in Claims,
         ClaimSnapshot(c) \/ BeginSnapshot(c)
  PROVE  ScheduleInv' /\ \A d \in Claims : d # c => WaitFrame(d)
<1> USE DEF deliveryVars, dayVars, captureVars, copyVars, scheduleVars
<1>1. progress'.claim = c
  BY BeforeFacts, BeginIsBegun
     DEF ClaimSnapshot, BegunStep, Progress, TypeOK
<1>2. UNCHANGED <<sequence, days, check, failure, alarm, intents>>
  BY DEF ClaimSnapshot, BeginSnapshot
<1>3. CheckOwed' /\ CursorBound'
  <2>1. CASE ClaimSnapshot(c)
    <3>1. UNCHANGED snapshotDays /\ progress'.nextCopy = progress.nextCopy
      BY <2>1, BeforeFacts DEF ClaimSnapshot, Progress, TypeOK
    <3>2. CopyCount' = CopyCount
      BY <3>1 DEF CopyCount, CopyChunks
    <3> QED BY <1>2, <3>1, <3>2, BeforeFacts DEF CheckOwed, CursorBound, CopiesComplete
  <2>2. CASE BeginSnapshot(c)
    <3>1. ~InSnapshot /\ progress'.nextCopy = 0
      BY <2>2, BeforeFacts, BeginIsBegun DEF BegunStep
    <3>2. check' = NoCheck
      BY <1>2, <3>1, BeforeFacts DEF IInv, CheckAtCursor, InSnapshot
    <3>3. CopyCount' \in Nat
      <4>1. (snapshotDays \in SUBSET Day => CopyCount \in Nat \ {0})'
        BY CopyCountType, PTL
      <4> QED BY <4>1, BeforeFacts DEF TypeOK
    <3> QED BY <3>1, <3>2, <3>3 DEF CheckOwed, CursorBound
  <2> QED BY <2>1, <2>2
<1>4. ReservedHaveDays'
  BY <1>2, BeforeFacts, SameReservations
<1>5. dirty = incomplete => dirty' = incomplete'
  BY PruneKeepsSame DEF ClaimSnapshot, BeginSnapshot
<1>6. WorkHasAlarm'
  BY <1>2, <1>5, BeforeFacts, WorkStays DEF Blocked
<1>7. \A d \in Claims : d # c => WaitFrame(d)
  BY <1>1 DEF WaitFrame, Owner
<1> QED BY <1>3, <1>4, <1>6, <1>7 DEF ScheduleInv

(* With a Copy at the cursor no record of looks is dropped. *)
LEMMA NoCheckLeft ==
  ASSUME Before, intents = {}, progress.nextCopy < CopyCount
  PROVE  check = NoCheck /\ ~Blocked
<1>1. progress.nextCopy \in Int
  BY BeforeFacts, GenerationFacts
<1>2. check = NoCheck
  BY <1>1, BeforeFacts DEF CheckOwed, CopiesComplete
<1> QED BY <1>2 DEF Blocked, NoCheck, NewCheck

LEMMA RecordWatch ==
  ASSUME Before, UNCHANGED <<owing, repaired>>, NEW c \in Claims, RecordCopyIntent(c)
  PROVE  Watch
<1> USE DEF deliveryVars, dayVars, captureVars, copyVars, scheduleVars
<1>1. /\ UNCHANGED <<sequence, days, dirty, incomplete, failure, alarm, gate,
                     snapshotDays, progress>>
      /\ check' = NewCheck(gate.generation, progress.nextCopy, FirstCheck)
      /\ progress.nextCopy < CopyCount
  BY DEF RecordCopyIntent, HoldsCursor
<1>2. intents = {} /\ intents' # {}
  BY BeforeFacts, RecordIsRecorded DEF RecordedStep
<1>3. ~Blocked /\ ~Blocked'
  BY <1>1, <1>2, NoCheckLeft DEF Blocked, NewCheck
<1>4. CopyCount' = CopyCount
  BY <1>1 DEF CopyCount, CopyChunks
<1>5. CheckOwed' /\ CursorBound'
  BY <1>1, <1>2, <1>4, BeforeFacts DEF CheckOwed, CursorBound
<1>6. ReservedHaveDays'
  BY <1>1, BeforeFacts, SameReservations
<1>7. WorkHasAlarm'
  BY <1>1, <1>3, BeforeFacts, WorkStays
<1>8. \A d \in Claims : WaitFrame(d)
  BY <1>1, <1>2, <1>3 DEF WaitFrame, Owner, InSnapshot
<1> QED BY <1>5, <1>6, <1>7, <1>8 DEF Watch, ScheduleInv

LEMMA AttachWatch ==
  ASSUME Before, UNCHANGED <<owing, repaired>>, NEW c \in Claims, NEW job,
         AttachCopyJob(c, job)
  PROVE  Watch
<1> USE DEF deliveryVars, dayVars, captureVars, copyVars, scheduleVars
<1>1. UNCHANGED <<sequence, days, dirty, incomplete, failure, alarm, gate,
                  snapshotDays, progress>>
  BY DEF AttachCopyJob
<1>2. intents' # {}
  BY DEF AttachCopyJob, Attached
<1>3. check'.blocked = check.blocked
  BY BeforeFacts DEF AttachCopyJob, TypeOK, Check
<1>4. CopyCount' = CopyCount
  BY <1>1 DEF CopyCount, CopyChunks
<1>5. CheckOwed' /\ CursorBound'
  BY <1>1, <1>2, <1>4, BeforeFacts DEF CheckOwed, CursorBound
<1>6. ReservedHaveDays'
  BY <1>1, BeforeFacts, SameReservations
<1>7. WorkHasAlarm'
  BY <1>1, <1>3, BeforeFacts, WorkStays DEF Blocked
<1>8. \A d \in Claims : WaitFrame(d)
  BY <1>1, <1>2, <1>3 DEF WaitFrame, Owner, InSnapshot, Blocked
<1> QED BY <1>5, <1>6, <1>7, <1>8 DEF Watch, ScheduleInv

(* The settled Copy was looked at, so its record says nothing any more. *)
LEMMA SettleDoneWatch ==
  ASSUME Before, UNCHANGED <<owing, repaired>>, NEW c \in Claims, NEW job, ~Blocked,
         SettleCopyDone(c, job)
  PROVE  ScheduleInv' /\ \A d \in Claims : d # c => WaitFrame(d)
<1> USE DEF deliveryVars, dayVars, captureVars, copyVars, scheduleVars
<1>1. /\ UNCHANGED <<sequence, days, dirty, incomplete, failure, alarm, gate,
                     snapshotDays>>
      /\ check' = NoCheck /\ progress.claim = c /\ progress.nextCopy < CopyCount
      /\ progress' = [progress EXCEPT !.nextCopy = @ + 1]
  BY DEF SettleCopyDone, HoldsCursor, HoldsClaim
<1>2. progress'.claim = c /\ progress'.nextCopy = progress.nextCopy + 1
  BY <1>1, BeforeFacts DEF TypeOK, Progress
<1>3. CopyCount' = CopyCount /\ CopyCount \in Nat /\ progress.nextCopy \in Nat
  BY <1>1, BeforeFacts, GenerationFacts, CopyCountType DEF CopyCount, CopyChunks
<1>4. CheckOwed' /\ CursorBound'
  BY <1>1, <1>2, <1>3 DEF CheckOwed, CursorBound
<1>5. ReservedHaveDays'
  BY <1>1, BeforeFacts, SameReservations
<1>6. WorkHasAlarm'
  BY <1>1, BeforeFacts, WorkStays
<1>7. \A d \in Claims : d # c => WaitFrame(d)
  BY <1>2 DEF WaitFrame, Owner
<1> QED BY <1>4, <1>5, <1>6, <1>7 DEF ScheduleInv

(* A generation that ends leaves no owner and no record of looks. *)
LEMMA EndWatch ==
  ASSUME Before, UNCHANGED <<owing, repaired>>,
         UNCHANGED <<sequence, days, alarm>>,
         check' = NoCheck, progress' = NoProgress, snapshotDays' = {},
         \/ failure' # 0
         \/ ~Blocked /\ UNCHANGED failure /\ (dirty = incomplete => dirty' = incomplete')
  PROVE  Watch
<1>1. CopyCount' \in Nat
  <2>1. (snapshotDays \in SUBSET Day => CopyCount \in Nat \ {0})'
    BY CopyCountType, PTL
  <2> QED BY <2>1
<1>2. CheckOwed' /\ CursorBound'
  BY <1>1 DEF CheckOwed, CursorBound, NoProgress
<1>3. ReservedHaveDays'
  BY BeforeFacts, SameReservations
<1>4. WorkHasAlarm'
  BY BeforeFacts, WorkStays, WorkScheduled
<1>5. \A d \in Claims : WaitFrame(d)
  BY DEF WaitFrame, Owner, NoProgress
<1> QED BY <1>2, <1>3, <1>4, <1>5 DEF Watch, ScheduleInv

(* The days of a finished generation were dirty without being incomplete.  *)
LEMMA FinishWatch ==
  ASSUME Before, UNCHANGED <<owing, repaired>>, NEW c \in Claims, ~Blocked, FinishSnapshot(c)
  PROVE  Watch
<1> USE DEF deliveryVars, scheduleVars
<1>1. /\ UNCHANGED <<sequence, days, alarm, failure>>
      /\ check' = NoCheck /\ progress' = NoProgress /\ snapshotDays' = {}
  BY DEF FinishSnapshot
<1>2. dirty # incomplete
  BY BeforeFacts DEF FinishSnapshot, HoldsClaim, IInv, CaptureSound
<1> QED BY <1>1, <1>2, EndWatch

LEMMA FailWatch ==
  ASSUME Before, UNCHANGED <<owing, repaired>>, NEW c \in Claims, NEW recorded,
         FailSnapshot(c, recorded), recorded \/ ~Blocked
  PROVE  Watch
<1> USE DEF deliveryVars, scheduleVars
<1>1. /\ UNCHANGED <<sequence, days, alarm>>
      /\ check' = NoCheck /\ progress' = NoProgress /\ snapshotDays' = {}
      /\ dirty = incomplete => dirty' = incomplete'
  BY PruneKeepsSame DEF FailSnapshot, AbandonGeneration
<1>2. gate.generation # 0
  BY BeforeFacts, GenerationFacts DEF FailSnapshot, HoldsClaim, InSnapshot
<1>3. failure' # 0 \/ (~Blocked /\ UNCHANGED failure)
  BY <1>2 DEF FailSnapshot
<1> QED BY <1>1, <1>3, EndWatch

LEMMA FailGenerationWatch ==
  ASSUME Before, UNCHANGED <<owing, repaired>>, NEW c \in Claims, NEW job,
         SettleCopyError(c, job) \/ RejectCopyIntent(c)
  PROVE  Watch
<1> USE DEF deliveryVars, scheduleVars
<1>1. FailGeneration /\ UNCHANGED alarm /\ InSnapshot
  BY DEF SettleCopyError, RejectCopyIntent, HoldsCursor, HoldsClaim, InSnapshot
<1>2. gate.generation # 0
  BY <1>1, BeforeFacts, GenerationFacts
<1> QED BY <1>1, <1>2, EndWatch DEF FailGeneration, AbandonGeneration

(* The operator's abandonment records a failure. *)
LEMMA AbandonWatch ==
  ASSUME Before, UNCHANGED <<owing, repaired>>, AbandonUnstartedCopy
  PROVE  Watch
<1> USE DEF deliveryVars
<1>1. FailGeneration /\ InSnapshot
  BY DEF AbandonUnstartedCopy, InSnapshot
<1>2. /\ UNCHANGED <<sequence, days>> /\ failure' # 0
      /\ check' = NoCheck /\ progress' = NoProgress /\ snapshotDays' = {}
  BY <1>1, BeforeFacts, GenerationFacts DEF FailGeneration, AbandonGeneration
<1>3. CopyCount' \in Nat
  <2>1. (snapshotDays \in SUBSET Day => CopyCount \in Nat \ {0})'
    BY CopyCountType, PTL
  <2> QED BY <1>2, <2>1
<1>4. CheckOwed' /\ CursorBound'
  BY <1>2, <1>3 DEF CheckOwed, CursorBound, NoProgress
<1>5. ReservedHaveDays'
  BY <1>2, BeforeFacts, SameReservations
<1>6. WorkHasAlarm'
  BY <1>2, BeforeFacts, WorkScheduled
<1>7. \A d \in Claims : WaitFrame(d)
  BY <1>2 DEF WaitFrame, Owner, NoProgress
<1> QED BY <1>4, <1>5, <1>6, <1>7 DEF Watch, ScheduleInv

(* A look is counted and the next one is scheduled. *)
LEMMA LookWatch ==
  ASSUME Before, UNCHANGED <<owing, repaired>>, NEW c \in Claims, NEW recovery \in BOOLEAN,
         PrepareCheck(c, recovery), intents # {} \/ CopiesComplete
  PROVE  /\ ScheduleInv' /\ \A d \in Claims : d # c => WaitFrame(d)
         /\ Ready(recovery) => ~Blocked'
<1> USE DEF deliveryVars, dayVars, captureVars, copyVars
<1>1. /\ UNCHANGED <<sequence, days, gate, progress, snapshotDays, intents>>
      /\ check' = Observed(CurrentCheck, recovery) /\ progress.claim = c
      /\ ContinuationEffect
  BY DEF PrepareCheck, HoldsClaim
<1>2. CopyCount' = CopyCount
  BY <1>1 DEF CopyCount, CopyChunks
<1>3. CheckOwed' /\ CursorBound'
  BY <1>1, <1>2, BeforeFacts DEF CheckOwed, CursorBound, CopiesComplete
<1>4. ReservedHaveDays'
  BY <1>1, BeforeFacts, SameReservations
<1>5. WorkHasAlarm'
  BY <1>1, BeforeFacts, ContinuationSchedules
<1>6. \A d \in Claims : d # c => WaitFrame(d)
  BY <1>1 DEF WaitFrame, Owner
<1>7. ASSUME Ready(recovery)  PROVE  ~Blocked'
  <2>1. PICK current \in Check : current = CurrentCheck
    BY BeforeFacts, NewCheckType, GenerationFacts DEF CurrentCheck, TypeOK, PrepareCheck, HoldsClaim,
       InSnapshot
  <2>2. /\ current.blocked = "no" /\ ~(current.wait > 0)
        /\ recovery => ~BudgetSpent(current.recovery, MaxRecoveryChecks)
        /\ ~recovery => ~BudgetSpent(current.status, MaxStatusChecks)
    BY <1>7, <2>1 DEF Ready
  <2>3. Observed(current, recovery).blocked = "no"
    <3>1. CASE recovery
      BY <2>2, <3>1 DEF Observed, Check
    <3>2. CASE ~recovery
      BY <2>2, <3>2 DEF Observed, Check
    <3> QED BY <3>1, <3>2
  <2> QED BY <1>1, <2>1, <2>3 DEF Blocked
<1> QED BY <1>3, <1>4, <1>5, <1>6, <1>7 DEF ScheduleInv

LEMMA EffectSchedules ==
  ASSUME Before, ScheduleSnapshotEffect, UNCHANGED <<check, failure>>
  PROVE  WorkHasAlarm'
<1>1. failure' = 0 /\ ~Blocked' => alarm' # NoAlarm
  BY BeforeFacts DEF ScheduleSnapshotEffect, Blocked, NoAlarm
<1> QED BY <1>1, BeforeFacts, WorkScheduled

LEMMA DeletedReservation ==
  ASSUME Before, NEW d \in Deliveries, DeleteReservation(d)
  PROVE  ReservedHaveDays'
<1>1. sequence \in [Deliveries -> 0..MaxSequence] /\ days \in [Deliveries -> SUBSET Day]
  BY BeforeFacts DEF TypeOK
<1>2. sequence'[d] = 0
      /\ \A x \in Deliveries : x # d => sequence'[x] = sequence[x] /\ days'[x] = days[x]
  BY <1>1 DEF DeleteReservation
<1> QED BY <1>2, BeforeFacts DEF ReservedHaveDays, Active

LEMMA EndsReservation ==
  ASSUME Before, NEW d \in Deliveries,
         FinishDelivery(d, days[d], TRUE) \/ Complete(d) \/ Expire(d)
  PROVE  /\ CheckOwed' /\ CursorBound' /\ ReservedHaveDays'
         /\ \A x \in Claims : WaitFrame(x)
         /\ UNCHANGED <<check, failure>> /\ d \in Active
<1> USE DEF copyVars, scheduleVars
<1>1. QuietStep
  BY BeforeFacts, DeliveryQuiet
<1>2. UNCHANGED <<check, failure>> /\ DeleteReservation(d) /\ d \in Active
  BY DEF FinishDelivery, Complete, Expire, CompleteEffect
<1>3. CheckOwed' /\ CursorBound' /\ \A x \in Claims : WaitFrame(x)
  BY <1>1, <1>2, QuietWatch DEF Blocked
<1> QED BY <1>2, <1>3, DeletedReservation

(* A delivery that left days behind schedules their snapshot, or is going  *)
(* to call again.                                                          *)
LEMMA DeliveryWatch ==
  ASSUME Before, NEW d \in Deliveries, Delivery(d)
  PROVE  Watch
<1>1. CASE /\ \E ds \in SUBSET Window : Reserve(d, ds, DeliveryRetention)
           /\ UNCHANGED <<owing, repaired>>
  <2>1. PICK ds \in SUBSET Window : Reserve(d, ds, DeliveryRetention)
    BY <1>1
  <2>2. ds # {}
    BY <2>1 DEF Reserve
  <2> QED BY <1>1, <2>1, <2>2, PruneWatch
<1>2. CASE FinishDelivery(d, days[d], TRUE)
  <2>1. d \in Active
    BY <1>2, EndsReservation
  <2>2. ScheduleSnapshotEffect
    BY <2>1, <1>2, BeforeFacts DEF FinishDelivery, ReservedHaveDays
  <2> QED BY <1>2, <2>2, EffectSchedules, EndsReservation DEF Watch, ScheduleInv
<1>3. CASE Complete(d) /\ owing' = owing \cup {d}
  <2>1. WorkHasAlarm'
    BY <1>3 DEF WorkHasAlarm
  <2> QED BY <1>3, <2>1, EndsReservation DEF Watch, ScheduleInv
<1>4. CASE Expire(d) /\ UNCHANGED <<owing, repaired>>
  <2>1. WorkHasAlarm'
    <3>1. UNCHANGED alarm
      BY <1>4 DEF Expire, scheduleVars
    <3>2. UNCHANGED <<check, failure>>
      BY <1>4, EndsReservation
    <3>3. dirty = incomplete => dirty' = incomplete'
      BY <1>4, PruneKeepsEqual DEF Expire
    <3> QED BY <1>4, <3>1, <3>2, <3>3, BeforeFacts, WorkStays DEF Blocked
  <2> QED BY <1>4, <2>1, EndsReservation DEF Watch, ScheduleInv
<1>5. CASE ScheduleSnapshot
  <2> USE DEF deliveryVars, captureVars, copyVars
  <2>1. QuietStep
    BY <1>5, BeforeFacts, DeliveryQuiet
  <2>2. UNCHANGED <<check, failure, sequence, days>> /\ ScheduleSnapshotEffect
    BY <1>5 DEF ScheduleSnapshot
  <2>3. CheckOwed' /\ CursorBound' /\ \A x \in Claims : WaitFrame(x)
    BY <2>1, <2>2, QuietWatch DEF Blocked
  <2>4. ReservedHaveDays'
    BY <2>2, BeforeFacts, SameReservations
  <2>5. WorkHasAlarm'
    BY <2>2, EffectSchedules
  <2> QED BY <2>3, <2>4, <2>5 DEF Watch, ScheduleInv
<1> QED BY <1>1, <1>2, <1>3, <1>4, <1>5 DEF Delivery

LEMMA OperatorWatch ==
  ASSUME Before, Operator
  PROVE  Watch
<1> USE DEF deliveryVars, dayVars, captureVars, copyVars, scheduleVars
<1>1. CASE (ResumeFailed \/ ResumeBlocked) /\ UNCHANGED <<owing, repaired>>
  BY <1>1, CallsWatch
<1>2. CASE AbandonUnstartedCopy /\ UNCHANGED <<owing, repaired>>
  BY <1>2, AbandonWatch
<1>3. CASE /\ ResumeInterrupted \/ \E ds \in SUBSET Day : ResolveIncompleteDays(ds)
           /\ repaired' = TRUE
  <2>1. QuietStep
    BY <1>3, BeforeFacts, CallsQuiet
  <2>2. UNCHANGED <<sequence, days>>
    BY <1>3 DEF ResolveIncompleteDays, ResumeInterrupted, ResumeChecks
  <2>3. (check' # NoCheck => check # NoCheck) /\ (Blocked' => Blocked)
    <3>1. CASE UNCHANGED check
      BY <3>1 DEF Blocked
    <3>2. CASE ResumeInterrupted
      <4>1. check.blocked # "no" /\ NoCheck.blocked = "no"
        BY <3>2 DEF ResumeInterrupted, ResumeChecks, Blocked, NoCheck, NewCheck
      <4> QED BY <3>2, <4>1 DEF ResumeInterrupted, ResumeChecks, Blocked
    <3> QED BY <1>3, <3>1, <3>2 DEF ResolveIncompleteDays
  <2>4. CheckOwed' /\ CursorBound' /\ \A d \in Claims : WaitFrame(d)
    BY <2>1, <2>3, QuietWatch
  <2>5. ReservedHaveDays'
    BY <2>2, BeforeFacts, SameReservations
  <2>6. WorkHasAlarm'
    BY <1>3 DEF WorkHasAlarm
  <2> QED BY <2>4, <2>5, <2>6 DEF Watch, ScheduleInv
<1> QED BY <1>1, <1>2, <1>3 DEF Operator

(* Nothing around the runs moves one of them. *)
LEMMA AroundWaits ==
  ASSUME Before,
         \/ \E d \in Deliveries : Delivery(d)
         \/ Operator \/ AlarmFires \/ JobEnds \/ TimePasses \/ NextDay
  PROVE  ScheduleInv' /\ \A c \in Claims : WaitSound(c)'
<1>1. UNCHANGED run
  BY DEF Delivery, Operator, AlarmFires, JobEnds, TimePasses, NextDay
<1>2. Watch
  BY DeliveryWatch, OperatorWatch, AlarmWatch, TimeWatch, UnseenWatch
     DEF AlarmFires, JobEnds, TimePasses, NextDay
<1>3. ASSUME NEW c \in Claims  PROVE  WaitSound(c)'
  BY <1>1, <1>2, BeforeFacts, RestWaits DEF Watch
<1> QED BY <1>2, <1>3 DEF Watch

-----------------------------------------------------------------------------
(* One lemma per action of a run, again: work has an alarm *)

Waits == ScheduleInv' /\ \A d \in Claims : WaitSound(d)'

(* What a call of the run leaves to the schedule and to the other runs. *)
WatchOthers(c) == ScheduleInv' /\ \A d \in Claims : d # c => WaitFrame(d)

LEMMA WatchIs ==
  ASSUME Watch, NEW c
  PROVE  WatchOthers(c)
BY DEF Watch, WatchOthers

LEMMA OthersWait ==
  ASSUME Before, NEW c \in Claims, WatchOthers(c), OthersRest(c), WaitSound(c)'
  PROVE  Waits
<1>1. ASSUME NEW d \in Claims, d # c  PROVE  WaitSound(d)'
  <2>1. WaitSound(d)
    BY BeforeFacts
  <2>2. WaitFrame(d) /\ run'[d] = run[d]
    BY <1>1 DEF WatchOthers, OthersRest
  <2> QED BY <2>1, <2>2, RestWaits
<1> QED BY <1>1 DEF Waits, WatchOthers

LEMMA LeavesWatched ==
  ASSUME Before, NEW c \in Claims, WatchOthers(c), OthersRest(c),
         run'[c].at \notin Watched
  PROVE  Waits
<1>1. WaitSound(c)'
  BY UnwatchedWaits
<1> QED BY <1>1, OthersWait

LEMMA UnwatchedPlaces ==
  /\ {"idle", "retry", "failed"} \cap Watched = {}
  /\ {"idle", "retry", "failed"} \subseteq Place
BY DEF Watched, SeenPlaces, Place

LEMMA MovesWait ==
  ASSUME Before, NEW c \in Claims, WatchOthers(c), NEW place \in Place \ Watched,
         Goto(c, place) \/ Then(c, place) \/ Throws(c) \/ Acknowledge(c)
  PROVE  Waits
<1>1. run \in [Claims -> Run] /\ faults \in 0..MaxFaults
  BY BeforeFacts, RunTypes
<1>2. OthersRest(c) /\ run'[c].at \in {place, "idle", "retry", "failed"}
  BY <1>1, GotoStep, ThenStep, ThrowsStep, AcknowledgeStep DEF Caught
<1> QED BY <1>2, UnwatchedPlaces, LeavesWatched

(* The run becomes one at a watched place, or the reply is lost. *)
LEMMA BecomesWaits ==
  ASSUME Before, NEW c \in Claims, WatchOthers(c), NEW next \in Run,
         Called(c, next), run'[c] = next => WaitSound(c)'
  PROVE  Waits
<1>1. run \in [Claims -> Run] /\ faults \in 0..MaxFaults
  BY BeforeFacts, RunTypes
<1>2. OthersRest(c) /\ (run'[c] = next \/ Caught(c))
  BY <1>1, CalledStep
<1>3. Caught(c) => WaitSound(c)'
  BY UnwatchedWaits, UnwatchedPlaces DEF Caught
<1> QED BY <1>2, <1>3, OthersWait

LEMMA ThenWaits ==
  ASSUME Before, NEW c \in Claims, WatchOthers(c), NEW place \in Place,
         Then(c, place), run'[c].at = place /\ SamePlan(c) => WaitSound(c)'
  PROVE  Waits
<1>1. run \in [Claims -> Run] /\ faults \in 0..MaxFaults
  BY BeforeFacts, RunTypes
<1>2. OthersRest(c) /\ ((run'[c].at = place /\ SamePlan(c)) \/ Caught(c))
  BY <1>1, ThenStep
<1>3. Caught(c) => WaitSound(c)'
  BY UnwatchedWaits, UnwatchedPlaces DEF Caught
<1> QED BY <1>2, <1>3, OthersWait

LEMMA OnlyRunWatch ==
  ASSUME Before, OnlyRun, NEW c
  PROVE  WatchOthers(c)
BY UnseenWatch, WatchIs DEF OnlyRun

LEMMA UnseenWatches ==
  ASSUME Before, NoJobs, UNCHANGED vars, NEW c
  PROVE  WatchOthers(c)
BY UnseenWatch, WatchIs DEF NoJobs

LEMMA StartRunWaits ==
  ASSUME Before, NEW c \in Claims, StartRun(c) \/ Retry(c)
  PROVE  Waits
<1>1. OnlyWakeups /\ UNCHANGED <<owing, repaired>>
  BY BeforeFacts DEF StartRun, Retry, OnlyWakeups, NoJobs, TypeOK
<1>2. WatchOthers(c)
  BY <1>1, UnseenWatch, WatchIs
<1>3. CASE Retry(c)
  <2>1. "idle" \in Place \ Watched
    BY UnwatchedPlaces
  <2> QED BY <1>2, <1>3, <2>1, MovesWait DEF Retry
<1>4. CASE StartRun(c)
  <2>1. Goto(c, "stats")
    BY <1>4 DEF StartRun, Goto
  <2>2. "stats" \in Place \ Watched
    BY DEF Place, Watched, SeenPlaces
  <2> QED BY <1>2, <2>1, <2>2, MovesWait
<1> QED BY <1>3, <1>4

LEMMA StatsWaits ==
  ASSUME Before, NEW c \in Claims, Stats(c)
  PROVE  Waits
<1>1. GetStats /\ UNCHANGED <<owing, repaired>> /\ ~erasing
  BY BeforeFacts DEF Stats, NoJobs
<1>2. WatchOthers(c)
  BY <1>1, PruneWatch, WatchIs
<1>3. run \in [Claims -> Run]
  BY BeforeFacts, RunTypes
<1>4. OthersRest(c) /\ run'[c].at = "schedule"
  BY <1>1, <1>3 DEF Stats, OthersRest, Run
<1> QED BY <1>2, <1>4, LeavesWatched DEF Watched, SeenPlaces

LEMMA ScheduleWaits ==
  ASSUME Before, NEW c \in Claims, Schedule(c)
  PROVE  Waits
<1>1. OnlyRun
  BY DEF Schedule
<1>2. WatchOthers(c)
  BY <1>1, OnlyRunWatch
<1>3. run[c].branch \in Place \ Watched
  <2>1. run[c] \in Run
    BY BeforeFacts, RunTypes
  <2>2. run[c].branch \in {"claim", "request", "begin", "idle", "retry"}
    BY <2>1 DEF Run
  <2> QED BY <2>2 DEF Place, Watched, SeenPlaces
<1> QED BY <1>2, <1>3, MovesWait DEF Schedule

LEMMA EarlyWaits ==
  ASSUME Before, NEW c \in Claims, WatchOthers(c), Early(c, Plan(c))
  PROVE  Waits
<1>1. OthersRest(c) /\ (run'[c] = Plan(c) \/ run'[c].at = "retry")
  BY BeforeFacts, EarlyStep
<1>2. Plan(c).at = "arm"
  BY DEF Plan, NoRun
<1> QED BY <1>1, <1>2, LeavesWatched DEF Watched, SeenPlaces

LEMMA ClaimWaits ==
  ASSUME Before, NEW c \in Claims, Claim(c)
  PROVE  Waits
<1>1. NoJobs /\ UNCHANGED <<owing, repaired>>
  BY DEF Claim, NoJobs
<1>2. CASE ClaimSnapshot(c) /\ Early(c, Plan(c))
  <2>1. WatchOthers(c)
    BY <1>1, <1>2, ClaimWatch DEF WatchOthers
  <2> QED BY <1>2, <2>1, EarlyWaits
<1>3. CASE Goto(c, "retry") /\ UNCHANGED vars
  BY <1>1, <1>3, UnseenWatches, UnwatchedPlaces, MovesWait
<1> QED BY <1>2, <1>3 DEF Claim

LEMMA RequestWaits ==
  ASSUME Before, NEW c \in Claims, Request(c)
  PROVE  Waits
<1>1. UNCHANGED <<owing, repaired>> /\ (GetStats \/ RequestSnapshot)
  BY DEF Request, NoJobs
<1>2. WatchOthers(c)
  BY <1>1, PruneWatch, WatchIs
<1>3. Goto(c, "begin") \/ Goto(c, "retry")
  BY DEF Request
<1>4. {"begin", "retry"} \subseteq Place \ Watched
  BY DEF Place, Watched, SeenPlaces
<1> QED BY <1>2, <1>3, <1>4, MovesWait

LEMMA BeginRunWaits ==
  ASSUME Before, NEW c \in Claims, BeginRun(c)
  PROVE  Waits
<1>1. UNCHANGED <<owing, repaired>>
  BY DEF BeginRun, NoJobs
<1>2. CASE BeginSnapshot(c) /\ Early(c, Plan(c))
  <2>1. WatchOthers(c)
    BY <1>1, <1>2, ClaimWatch DEF WatchOthers
  <2> QED BY <1>2, <2>1, EarlyWaits
<1>3. CASE /\ BeginEmptySnapshot \/ GetStats
           /\ Acknowledge(c) \/ Goto(c, "retry")
  <2>1. WatchOthers(c)
    BY <1>1, <1>3, PruneWatch, WatchIs
  <2> QED BY <1>3, <2>1, UnwatchedPlaces, MovesWait
<1> QED BY <1>2, <1>3 DEF BeginRun

LEMMA ArmWaits ==
  ASSUME Before, NEW c \in Claims, Arm(c)
  PROVE  Waits
<1>1. NoJobs /\ UNCHANGED <<owing, repaired>>
  BY DEF Arm, NoJobs
<1>2. WatchOthers(c)
  BY <1>1, UnseenWatches, CallsWatch, WatchIs DEF Arm
<1>3. {"acquire", "retry"} \subseteq Place \ Watched
  BY DEF Place, Watched, SeenPlaces
<1> QED BY <1>2, <1>3, MovesWait DEF Arm

(* Only a generation that has not started to copy may be refused. *)
LEMMA AcquireWaits ==
  ASSUME Before, NEW c \in Claims, Acquire(c)
  PROVE  Waits
<1>1. OnlyRun
  BY DEF Acquire
<1>2. WatchOthers(c)
  BY <1>1, OnlyRunWatch
<1>3. {"loop", "continue"} \subseteq Place \ Watched
  BY DEF Place, Watched, SeenPlaces
<1>4. CASE Then(c, "loop") \/ Goto(c, "continue")
  BY <1>2, <1>3, <1>4, MovesWait
<1>5. CASE run[c].next = 0 /\ Goto(c, "refused")
  <2>1. run \in [Claims -> Run] /\ "refused" \in Place
    BY BeforeFacts, RunTypes DEF Place
  <2>2. OthersRest(c) /\ run'[c].at = "refused" /\ SamePlan(c)
    BY <1>5, <2>1, GotoStep
  <2>3. WaitSound(c)'
    BY <1>5, <2>2 DEF WaitSound, At, SamePlan, SeenPlaces
  <2> QED BY <1>2, <2>2, <2>3, OthersWait
<1> QED BY <1>4, <1>5 DEF Acquire

LEMMA RefusedWaits ==
  ASSUME Before, NEW c \in Claims, Refused(c)
  PROVE  Waits
<1>1. NoJobs /\ UNCHANGED <<owing, repaired>> /\ At(c, "refused")
  BY DEF Refused, NoJobs
<1>2. CASE FailSnapshot(c, FALSE) /\ Then(c, "reschedule")
  <2>1. Owner(c) /\ intents = {}
    BY <1>2 DEF FailSnapshot, HoldsClaim, NoCopyOwed, Owner, InSnapshot
  <2>2. run[c].next = 0 /\ run[c].at \in AtCursorPlaces
    BY <1>1, BeforeFacts, AtPlain DEF WaitSound, PlainPlaces
  <2>3. progress.nextCopy = 0
    BY <2>1, <2>2, BeforeFacts DEF CopyInv, RunSound, PlanSound
  <2>4. CopyCount \in Nat \ {0}
    BY BeforeFacts, GenerationFacts, CopyCountType
  <2>5. ~Blocked
    BY <2>1, <2>3, <2>4, NoCheckLeft
  <2>6. WatchOthers(c)
    BY <1>1, <1>2, <2>5, FailWatch, WatchIs
  <2>7. "reschedule" \in Place \ Watched
    BY DEF Place, Watched, SeenPlaces
  <2> QED BY <1>2, <2>6, <2>7, MovesWait
<1>3. CASE Throws(c) /\ UNCHANGED vars
  BY <1>1, <1>3, UnseenWatches, UnwatchedPlaces, MovesWait
<1> QED BY <1>2, <1>3 DEF Refused

LEMMA NotBelow ==
  ASSUME NEW a \in Nat, NEW b \in Nat, ~(a < b)
  PROVE  a >= b
OBVIOUS

LEMMA LoopWaits ==
  ASSUME Before, NEW c \in Claims, Loop(c)
  PROVE  Waits
<1>1. WatchOthers(c)
  BY OnlyRunWatch DEF Loop
<1>2. run \in [Claims -> Run] /\ run[c] \in Run
  BY BeforeFacts, RunTypes
<1>3. CASE Goto(c, "intents") \/ Goto(c, "continue")
  <2>1. {"intents", "continue"} \subseteq Place \ Watched
    BY DEF Place, Watched, SeenPlaces
  <2> QED BY <1>1, <1>3, <2>1, MovesWait
<1>4. CASE /\ ~(run[c].next < ChunksOf(run[c].days) * TargetCount)
           /\ Goto(c, "last check")
  <2>1. OthersRest(c) /\ run'[c].at = "last check" /\ SamePlan(c)
    BY <1>2, <1>4, GotoStep DEF Place
  <2>2. run[c].next \in Nat /\ ChunksOf(run[c].days) \in Nat
    BY <1>2, ChunksType DEF Run
  <2>3. run[c].next >= ChunksOf(run[c].days) * TargetCount
    <3>1. ChunksOf(run[c].days) * TargetCount \in Nat
      BY <2>2
    <3> QED BY <1>4, <2>2, <3>1, NotBelow
  <2>4. (ChunksOf(run[c].days))' = ChunksOf(run[c].days)
    BY <2>1 DEF ChunksOf, SamePlan
  <2>5. WaitSound(c)'
    BY <2>1, <2>3, <2>4 DEF WaitSound, At, SamePlan, SeenPlaces
  <2> QED BY <1>1, <2>1, <2>5, OthersWait
<1>5. CASE run' = [run EXCEPT ![c].at = "failed", ![c].expired = TRUE]
  <2>1. OthersRest(c) /\ run'[c].at = "failed"
    BY <1>2, <1>5 DEF OthersRest, Run
  <2> QED BY <1>1, <2>1, UnwatchedPlaces, LeavesWatched
<1> QED BY <1>3, <1>4, <1>5 DEF Loop

(* A run that found the intent goes on to look at its Copy. *)
LEMMA ReadIntentsWaits ==
  ASSUME Before, NEW c \in Claims, ReadIntents(c)
  PROVE  Waits
<1>1. WatchOthers(c) /\ UNCHANGED intents
  BY OnlyRunWatch DEF ReadIntents, OnlyRun, vars, copyVars
<1>2. CASE Then(c, "active") \/ Throws(c)
  <2>1. "active" \in Place \ Watched
    BY DEF Place, Watched, SeenPlaces
  <2> QED BY <1>1, <1>2, <2>1, MovesWait
<1>3. ASSUME NEW i \in intents, Called(c, [run[c] EXCEPT !.at = "due", !.job = i.job])
      PROVE  Waits
  <2> DEFINE next == [run[c] EXCEPT !.at = "due", !.job = i.job]
  <2>1. run[c] \in Run /\ i.job \in Jobs \cup {NoJob}
    BY BeforeFacts, RunTypes DEF TypeOK, Intent
  <2>2. next \in Run /\ next.at = "due"
    BY <2>1 DEF Run, Place
  <2> HIDE DEF next
  <2>3. Called(c, next)
    BY <1>3 DEF next
  <2>4. run'[c] = next => WaitSound(c)'
    BY <1>1, <2>2 DEF WaitSound, At, SeenPlaces
  <2> QED BY <1>1, <2>2, <2>3, <2>4, BecomesWaits
<1> QED BY <1>2, <1>3 DEF ReadIntents

LEMMA AssertActiveWaits ==
  ASSUME Before, NEW c \in Claims, AssertActive(c)
  PROVE  Waits
<1>1. WatchOthers(c)
  BY OnlyRunWatch DEF AssertActive
<1>2. "record" \in Place \ Watched
  BY DEF Place, Watched, SeenPlaces
<1> QED BY <1>1, <1>2, MovesWait DEF AssertActive

LEMMA RecordWaits ==
  ASSUME Before, NEW c \in Claims, Record(c)
  PROVE  Waits
<1>1. NoJobs /\ UNCHANGED <<owing, repaired>>
  BY DEF Record, NoJobs
<1>2. WatchOthers(c)
  BY <1>1, UnseenWatches, RecordWatch, WatchIs DEF Record
<1>3. "start" \in Place \ Watched
  BY DEF Place, Watched, SeenPlaces
<1> QED BY <1>2, <1>3, MovesWait DEF Record

LEMMA StartCopyWaits ==
  ASSUME Before, NEW c \in Claims, StartCopy(c)
  PROVE  Waits
<1>1. WatchOthers(c)
  BY UnseenWatch, WatchIs DEF StartCopy
<1>2. CASE Goto(c, "reject") \/ Goto(c, "failed")
  <2>1. {"reject", "failed"} \subseteq Place \ Watched
    BY DEF Place, Watched, SeenPlaces
  <2> QED BY <1>1, <1>2, <2>1, MovesWait
<1>3. ASSUME NEW id \in Jobs, Called(c, [run[c] EXCEPT !.at = "attach", !.job = id])
      PROVE  Waits
  <2> DEFINE next == [run[c] EXCEPT !.at = "attach", !.job = id]
  <2>1. run[c] \in Run
    BY BeforeFacts, RunTypes
  <2>2. next \in Run /\ next.at = "attach"
    BY <2>1 DEF Run, Place
  <2> HIDE DEF next
  <2>3. Called(c, next)
    BY <1>3 DEF next
  <2>4. run'[c] = next => WaitSound(c)'
    BY <2>2, UnwatchedWaits DEF Watched, SeenPlaces
  <2> QED BY <1>1, <2>2, <2>3, <2>4, BecomesWaits
<1> QED BY <1>2, <1>3 DEF StartCopy

LEMMA AttachWaits ==
  ASSUME Before, NEW c \in Claims, Attach(c)
  PROVE  Waits
<1>1. NoJobs /\ UNCHANGED <<owing, repaired>>
  BY DEF Attach, NoJobs
<1>2. WatchOthers(c)
  BY <1>1, UnseenWatches, AttachWatch, WatchIs DEF Attach
<1>3. "continue" \in Place \ Watched
  BY DEF Place, Watched, SeenPlaces
<1> QED BY <1>2, <1>3, MovesWait DEF Attach

LEMMA RejectWaits ==
  ASSUME Before, NEW c \in Claims, Reject(c)
  PROVE  Waits
<1>1. NoJobs /\ UNCHANGED <<owing, repaired>>
  BY DEF Reject, NoJobs
<1>2. WatchOthers(c)
  BY <1>1, UnseenWatches, FailGenerationWatch, WatchIs DEF Reject
<1> QED BY <1>2, UnwatchedPlaces, MovesWait DEF Reject

LEMMA ReadDueWaits ==
  ASSUME Before, NEW c \in Claims, ReadDue(c)
  PROVE  Waits
<1>1. WatchOthers(c) /\ UNCHANGED <<intents, gate, progress>>
  BY OnlyRunWatch DEF ReadDue, OnlyRun, vars, copyVars, captureVars
<1> DEFINE searched == run[c].job = NoJob \/ check.required
           next == [run[c] EXCEPT !.at = "check", !.recovery = searched]
<1>2. searched \in BOOLEAN /\ run[c] \in Run
  BY BeforeFacts, RunTypes DEF TypeOK, Check
<1>3. Called(c, next)
  BY DEF ReadDue
<1> HIDE DEF searched
<1>4. next \in Run /\ next.at = "check"
  BY <1>2 DEF Run, Place
<1> HIDE DEF next
<1>5. At(c, "due") /\ WaitSound(c)
  BY BeforeFacts DEF ReadDue
<1>6. run'[c] = next => WaitSound(c)'
  BY <1>1, <1>4, <1>5 DEF WaitSound, At, SeenPlaces, Owner, InSnapshot
<1> QED BY <1>1, <1>3, <1>4, <1>6, BecomesWaits

(* Only a look the record admits is made. *)
LEMMA CheckCopyWaits ==
  ASSUME Before, NEW c \in Claims, CheckCopy(c)
  PROVE  Waits
<1>1. NoJobs /\ UNCHANGED <<owing, repaired>> /\ At(c, "check")
  BY DEF CheckCopy, NoJobs
<1>2. CASE /\ PrepareCheck(c, run[c].recovery)
           /\ Then(c, IF Ready(run[c].recovery) THEN "observe" ELSE "continue")
  <2>1. Owner(c)
    BY <1>2 DEF PrepareCheck, HoldsClaim, Owner, InSnapshot
  <2>2. intents # {}
    BY <1>1, <2>1, BeforeFacts DEF WaitSound, At
  <2>3. PICK recovery \in BOOLEAN : recovery = run[c].recovery
    BY BeforeFacts, RunTypes DEF Run
  <2>4. WatchOthers(c) /\ (Ready(recovery) => ~Blocked')
    BY <1>1, <1>2, <2>2, <2>3, LookWatch DEF WatchOthers
  <2>5. CASE ~Ready(recovery)
    <3>1. "continue" \in Place \ Watched
      BY DEF Place, Watched, SeenPlaces
    <3> QED BY <1>2, <2>3, <2>4, <2>5, <3>1, MovesWait
  <2>6. CASE Ready(recovery)
    <3>1. Then(c, "observe") /\ "observe" \in Place
      BY <1>2, <2>3, <2>6 DEF Place
    <3>2. run'[c].at = "observe" /\ SamePlan(c) => WaitSound(c)'
      BY <2>4, <2>6 DEF WaitSound, At
    <3> QED BY <2>4, <3>1, <3>2, ThenWaits
  <2> QED BY <2>5, <2>6
<1>3. CASE Throws(c) /\ UNCHANGED vars
  BY <1>1, <1>3, UnseenWatches, UnwatchedPlaces, MovesWait
<1> QED BY <1>2, <1>3 DEF CheckCopy

(* Past its look a run stays past it. *)
LEMMA SeenStays ==
  ASSUME NEW c \in Claims, WaitSound(c), Watch,
         run[c].at \in SeenPlaces, run'[c].at \in SeenPlaces
  PROVE  WaitSound(c)'
BY DEF WaitSound, Watch, WaitFrame, At, SeenPlaces

LEMMA DiscoverWaits ==
  ASSUME Before, NEW c \in Claims, Discover(c)
  PROVE  Waits
<1>1. WatchOthers(c)
  BY OnlyRunWatch DEF Discover
<1>0. Watch
  BY UnseenWatch DEF Discover, OnlyRun
<1>5. WaitSound(c)
  BY BeforeFacts
<1>2. run[c].at \in SeenPlaces /\ run[c] \in Run
  BY BeforeFacts, RunTypes DEF Discover, At, SeenPlaces
<1>3. CASE Then(c, "continue") \/ Goto(c, "continue") \/ Throws(c)
  <2>1. "continue" \in Place \ Watched
    BY DEF Place, Watched, SeenPlaces
  <2> QED BY <1>1, <1>3, <2>1, MovesWait
<1>4. ASSUME NEW j \in Discovered(c),
             Called(c, [run[c] EXCEPT !.at = "reattach", !.job = j.id,
                                      !.status = Status(j)])
      PROVE  Waits
  <2> DEFINE next == [run[c] EXCEPT !.at = "reattach", !.job = j.id,
                                    !.status = Status(j)]
  <2>1. j.id \in Jobs /\ Status(j) \in Statuses /\ "reattach" \in Place
    BY BeforeFacts DEF Discovered, TypedInv, RunnerTypeOK, Job, Status, Statuses, Place
  <2>0. next = Found(run[c], "reattach", j.id, Status(j))
    BY DEF Found
  <2>2. next \in Run /\ next.at = "reattach"
    <3> HIDE DEF next
    <3> QED BY <1>2, <2>0, <2>1, FoundRun
  <2> HIDE DEF next
  <2>3. Called(c, next)
    BY <1>4 DEF next
  <2>4. run'[c] = next => WaitSound(c)'
    BY <1>0, <1>2, <1>5, <2>2, SeenStays DEF SeenPlaces
  <2> QED BY <1>1, <2>2, <2>3, <2>4, BecomesWaits
<1> QED BY <1>3, <1>4 DEF Discover

LEMMA ReadStatusWaits ==
  ASSUME Before, NEW c \in Claims, ReadStatus(c)
  PROVE  Waits
<1>1. WatchOthers(c)
  BY OnlyRunWatch DEF ReadStatus
<1>0. Watch
  BY UnseenWatch DEF ReadStatus, OnlyRun
<1>5. WaitSound(c)
  BY BeforeFacts
<1>2. run[c].at \in SeenPlaces /\ run[c] \in Run /\ run \in [Claims -> Run]
  BY BeforeFacts, RunTypes DEF ReadStatus, At, SeenPlaces
<1>3. CASE Goto(c, "require")
  <2>1. OthersRest(c) /\ run'[c].at = "require"
    BY <1>2, <1>3, GotoStep DEF Place
  <2>2. WaitSound(c)'
    BY <1>0, <1>2, <1>5, <2>1, SeenStays DEF SeenPlaces
  <2> QED BY <1>1, <2>1, <2>2, OthersWait
<1>4. ASSUME NEW j \in jobs,
             Called(c, [run[c] EXCEPT
                          !.at = IF j.status = "working" THEN "continue" ELSE "settle",
                          !.status = Status(j)])
      PROVE  Waits
  <2> PICK place \in {"continue", "settle"} :
        place = IF j.status = "working" THEN "continue" ELSE "settle"
    OBVIOUS
  <2> DEFINE next == [run[c] EXCEPT !.at = place, !.status = Status(j)]
  <2>1. Status(j) \in Statuses
    BY BeforeFacts DEF TypedInv, RunnerTypeOK, Job, Status, Statuses
  <2>2. Called(c, next)
    BY <1>4
  <2>0. next = Looked(run[c], place, Status(j)) /\ place \in Place
    BY DEF Looked, Place
  <2>3. next \in Run /\ next.at = place
    <3> HIDE DEF next
    <3>1. run[c] \in Run
      BY <1>2
    <3> QED BY <2>0, <2>1, <3>1, LookedRun
  <2> HIDE DEF next
  <2>4. run'[c] = next => WaitSound(c)'
    <3>1. ASSUME run'[c] = next, place = "continue"  PROVE  WaitSound(c)'
      BY <2>3, <3>1, UnwatchedWaits DEF Watched, SeenPlaces
    <3>2. ASSUME run'[c] = next, place = "settle"  PROVE  WaitSound(c)'
      BY <1>0, <1>2, <1>5, <2>3, <3>2, SeenStays DEF SeenPlaces
    <3> QED BY <3>1, <3>2
  <2> QED BY <1>1, <2>2, <2>3, <2>4, BecomesWaits
<1> QED BY <1>3, <1>4 DEF ReadStatus

LEMMA RequireWaits ==
  ASSUME Before, NEW c \in Claims, Require(c)
  PROVE  Waits
<1>1. NoJobs /\ UNCHANGED <<owing, repaired>>
  BY DEF Require, NoJobs
<1>2. WatchOthers(c)
  BY <1>1, UnseenWatches, CallsWatch, WatchIs DEF Require
<1>3. "continue" \in Place \ Watched
  BY DEF Place, Watched, SeenPlaces
<1> QED BY <1>2, <1>3, MovesWait DEF Require

(* Who holds the claim at such a place knows that no look is blocked. *)
LEMMA SeenIsOpen ==
  ASSUME Before, NEW c \in Claims, HoldsClaim(c), run[c].at \in SeenPlaces
  PROVE  ~Blocked
<1>1. WaitSound(c)
  BY BeforeFacts
<1> QED BY <1>1 DEF WaitSound, HoldsClaim, Owner, InSnapshot

LEMMA SeenThenWaits ==
  ASSUME Before, NEW c \in Claims, Watch, run[c].at \in SeenPlaces,
         NEW place \in SeenPlaces, Then(c, place)
  PROVE  Waits
<1>1. place \in Place /\ WatchOthers(c)
  BY WatchIs DEF SeenPlaces, Place
<1>2. WaitSound(c)
  BY BeforeFacts
<1>3. run'[c].at = place /\ SamePlan(c) => WaitSound(c)'
  BY <1>2, SeenStays
<1> QED BY <1>1, <1>3, ThenWaits

LEMMA ReattachWaits ==
  ASSUME Before, NEW c \in Claims, Reattach(c)
  PROVE  Waits
<1>1. NoJobs /\ UNCHANGED <<owing, repaired>> /\ run[c].at \in SeenPlaces
  BY DEF Reattach, NoJobs, At, SeenPlaces
<1>2. CASE /\ AttachCopyJob(c, run[c].job)
           /\ Then(c, "continue") \/ Then(c, "settle")
  <2>1. PICK job : job = run[c].job
    OBVIOUS
  <2>2. Watch
    BY <1>1, <1>2, <2>1, AttachWatch
  <2>3. CASE Then(c, "continue")
    <3>1. "continue" \in Place \ Watched
      BY DEF Place, Watched, SeenPlaces
    <3> QED BY <2>2, <2>3, <3>1, WatchIs, MovesWait
  <2>4. CASE Then(c, "settle")
    BY <1>1, <2>2, <2>4, SeenThenWaits DEF SeenPlaces
  <2> QED BY <1>2, <2>3, <2>4
<1>3. CASE Throws(c) /\ UNCHANGED vars
  BY <1>1, <1>3, UnseenWatches, UnwatchedPlaces, MovesWait
<1> QED BY <1>2, <1>3 DEF Reattach

LEMMA SettleWaits ==
  ASSUME Before, NEW c \in Claims, Settle(c)
  PROVE  Waits
<1>1. NoJobs /\ UNCHANGED <<owing, repaired>> /\ run[c].at \in SeenPlaces
  BY DEF Settle, NoJobs, At, SeenPlaces
<1>2. PICK job : job = run[c].job
  OBVIOUS
<1>3. CASE SettleCopyDone(c, job) /\ Then(c, "reread")
  <2>1. ~Blocked
    BY <1>1, <1>3, SeenIsOpen DEF SettleCopyDone, HoldsCursor
  <2>2. WatchOthers(c)
    BY <1>1, <1>3, <2>1, SettleDoneWatch DEF WatchOthers
  <2>3. "reread" \in Place \ Watched
    BY DEF Place, Watched, SeenPlaces
  <2> QED BY <1>3, <2>2, <2>3, MovesWait
<1>4. CASE SettleCopyError(c, job) /\ Throws(c)
  <2>1. WatchOthers(c)
    BY <1>1, <1>4, FailGenerationWatch, WatchIs
  <2> QED BY <1>4, <2>1, UnwatchedPlaces, MovesWait
<1>5. CASE Throws(c) /\ UNCHANGED vars
  BY <1>1, <1>5, UnseenWatches, UnwatchedPlaces, MovesWait
<1> QED BY <1>2, <1>3, <1>4, <1>5 DEF Settle

LEMMA RereadWaits ==
  ASSUME Before, NEW c \in Claims, Reread(c)
  PROVE  Waits
<1>1. WatchOthers(c)
  BY OnlyRunWatch DEF Reread
<1>2. CASE Throws(c)
  BY <1>1, <1>2, UnwatchedPlaces, MovesWait
<1> DEFINE next == [NoRun EXCEPT !.at = "loop", !.generation = run[c].generation,
                                 !.days = run[c].days,
                                 !.next = progress.nextCopy]
<1>3. CASE Called(c, next)
  <2>1. run[c] \in Run /\ progress.nextCopy \in Nat
    BY BeforeFacts, RunTypes, GenerationFacts
  <2>4. /\ run[c].generation \in 0..MaxGeneration /\ run[c].days \in SUBSET Day
        /\ "loop" \in Place
    BY <2>1 DEF Run, Place
  <2>0. next = Planning("loop", run[c].generation, run[c].days, progress.nextCopy)
    BY DEF Planning
  <2>2. next \in Run /\ next.at = "loop"
    <3> HIDE DEF next
    <3> QED BY <2>0, <2>1, <2>4, PlanningRun
  <2> HIDE DEF next
  <2>3. run'[c] = next => WaitSound(c)'
    BY <2>2, UnwatchedWaits DEF Watched, SeenPlaces
  <2> QED BY <1>1, <1>3, <2>2, <2>3, BecomesWaits
<1> QED BY <1>2, <1>3 DEF Reread

LEMMA Meets ==
  ASSUME NEW a \in Nat, NEW b \in Nat, a >= b, a <= b
  PROVE  a = b
OBVIOUS

(* All Copies of the generation are behind the owner's cursor. *)
LEMMA LastIsComplete ==
  ASSUME Before, NEW c \in Claims, At(c, "last check"), HoldsClaim(c)
  PROVE  CopiesComplete
<1>1. Owner(c) /\ run[c].at \in Planned /\ run[c].at \in AtCursorPlaces
  BY AtPlain DEF HoldsClaim, Owner, InSnapshot, PlainPlaces
<1>2. PlanSound(c) /\ WaitSound(c)
  BY BeforeFacts DEF CopyInv, RunSound
<1>3. run[c].days = snapshotDays /\ run[c].next = progress.nextCopy
  BY <1>1, <1>2 DEF PlanSound
<1>4. progress.nextCopy >= CopyCount
  BY <1>2, <1>3, CopyCountIs DEF WaitSound, At
<1>5. progress.nextCopy \in Nat /\ CopyCount \in Nat /\ progress.nextCopy <= CopyCount
  BY BeforeFacts, GenerationFacts, CopyCountType DEF CursorBound
<1>6. progress.nextCopy = CopyCount
  BY <1>4, <1>5, Meets
<1> QED BY <1>6 DEF CopiesComplete

LEMMA LastCheckWaits ==
  ASSUME Before, NEW c \in Claims, LastCheck(c)
  PROVE  Waits
<1>1. NoJobs /\ UNCHANGED <<owing, repaired>> /\ At(c, "last check")
  BY DEF LastCheck, NoJobs
<1>2. CASE /\ PrepareCheck(c, FALSE)
           /\ Then(c, IF Ready(FALSE) THEN "prepare" ELSE "continue")
  <2>1. CopiesComplete
    BY <1>1, <1>2, LastIsComplete DEF PrepareCheck
  <2>2. WatchOthers(c) /\ (Ready(FALSE) => ~Blocked')
    BY <1>1, <1>2, <2>1, LookWatch DEF WatchOthers
  <2>3. CASE ~Ready(FALSE)
    <3>1. "continue" \in Place \ Watched
      BY DEF Place, Watched, SeenPlaces
    <3> QED BY <1>2, <2>2, <2>3, <3>1, MovesWait
  <2>4. CASE Ready(FALSE)
    <3>1. Then(c, "prepare") /\ "prepare" \in Place
      BY <1>2, <2>4 DEF Place
    <3>2. run'[c].at = "prepare" /\ SamePlan(c) => WaitSound(c)'
      BY <2>2, <2>4 DEF WaitSound, At
    <3> QED BY <2>2, <3>1, <3>2, ThenWaits
  <2> QED BY <2>3, <2>4
<1>3. CASE Throws(c) /\ UNCHANGED vars
  BY <1>1, <1>3, UnseenWatches, UnwatchedPlaces, MovesWait
<1> QED BY <1>2, <1>3 DEF LastCheck

LEMMA PrepareWaits ==
  ASSUME Before, NEW c \in Claims, Prepare(c)
  PROVE  Waits
<1>1. NoJobs /\ UNCHANGED <<owing, repaired>> /\ run[c].at \in SeenPlaces
  BY DEF Prepare, NoJobs, At, SeenPlaces
<1>2. CASE PrepareManifest(c) /\ Then(c, "publish")
  <2>1. Watch
    BY <1>1, <1>2, CallsWatch
  <2> QED BY <1>1, <1>2, <2>1, SeenThenWaits DEF SeenPlaces
<1>3. CASE Throws(c) /\ UNCHANGED vars
  BY <1>1, <1>3, UnseenWatches, UnwatchedPlaces, MovesWait
<1> QED BY <1>2, <1>3 DEF Prepare

LEMMA PublishWaits ==
  ASSUME Before, NEW c \in Claims, PublishManifest(c)
  PROVE  Waits
<1>1. Watch /\ Then(c, "finish")
  BY UnseenWatch DEF PublishManifest
<1>2. run[c].at \in SeenPlaces
  BY DEF PublishManifest, At, SeenPlaces
<1> QED BY <1>1, <1>2, SeenThenWaits DEF SeenPlaces

LEMMA FinishWaits ==
  ASSUME Before, NEW c \in Claims, Finish(c)
  PROVE  Waits
<1>1. NoJobs /\ UNCHANGED <<owing, repaired>> /\ run[c].at \in SeenPlaces
  BY DEF Finish, NoJobs, At, SeenPlaces
<1>2. CASE FinishSnapshot(c) /\ Then(c, "final")
  <2>1. ~Blocked
    BY <1>1, <1>2, SeenIsOpen DEF FinishSnapshot
  <2>2. WatchOthers(c)
    BY <1>1, <1>2, <2>1, FinishWatch, WatchIs
  <2>3. "final" \in Place \ Watched
    BY DEF Place, Watched, SeenPlaces
  <2> QED BY <1>2, <2>2, <2>3, MovesWait
<1>3. CASE Throws(c) /\ UNCHANGED vars
  BY <1>1, <1>3, UnseenWatches, UnwatchedPlaces, MovesWait
<1> QED BY <1>2, <1>3 DEF Finish

LEMMA FinalWaits ==
  ASSUME Before, NEW c \in Claims, Final(c)
  PROVE  Waits
<1>1. GetStats /\ UNCHANGED <<owing, repaired>>
  BY DEF Final, NoJobs
<1>2. WatchOthers(c)
  BY <1>1, PruneWatch, WatchIs
<1>3. "reschedule" \in Place \ Watched
  BY DEF Place, Watched, SeenPlaces
<1> QED BY <1>2, <1>3, MovesWait DEF Final

LEMMA RescheduleWaits ==
  ASSUME Before, NEW c \in Claims, Reschedule(c) \/ ContinueLater(c)
  PROVE  Waits
<1>1. ScheduleSnapshotContinuation /\ UNCHANGED <<owing, repaired>>
  BY BeforeFacts DEF Reschedule, ContinueLater, NoJobs
<1>2. WatchOthers(c)
  BY <1>1, CallsWatch, WatchIs
<1>3. Goto(c, "retry") \/ Acknowledge(c)
  BY DEF Reschedule, ContinueLater
<1> QED BY <1>2, <1>3, UnwatchedPlaces, MovesWait

LEMMA ContinueWaits ==
  ASSUME Before, NEW c \in Claims, Continue(c)
  PROVE  Waits
<1>1. NoJobs /\ UNCHANGED <<owing, repaired>>
  BY DEF Continue, NoJobs
<1>2. WatchOthers(c)
  BY <1>1, UnseenWatches, CallsWatch, WatchIs DEF Continue
<1>3. "release" \in Place \ Watched
  BY DEF Place, Watched, SeenPlaces
<1> QED BY <1>2, <1>3, MovesWait DEF Continue

LEMMA CatchWaits ==
  ASSUME Before, NEW c \in Claims, Catch(c)
  PROVE  Waits
<1>1. WatchOthers(c) /\ run \in [Claims -> Run]
  BY OnlyRunWatch, BeforeFacts, RunTypes DEF Catch
<1>2. OthersRest(c) /\ run'[c].at \in {"reschedule", "reassess"}
  BY <1>1 DEF Catch, OthersRest, Run
<1> QED BY <1>1, <1>2, LeavesWatched DEF Watched, SeenPlaces

LEMMA ReassessWaits ==
  ASSUME Before, NEW c \in Claims, Reassess(c)
  PROVE  Waits
<1>1. WatchOthers(c)
  BY OnlyRunWatch DEF Reassess
<1>2. {"continue", "fail"} \subseteq Place \ Watched
  BY DEF Place, Watched, SeenPlaces
<1>3. Then(c, "continue") \/ Then(c, "fail") \/ Throws(c)
  BY DEF Reassess
<1> QED BY <1>1, <1>2, <1>3, MovesWait

LEMMA FailWaits ==
  ASSUME Before, NEW c \in Claims, Fail(c)
  PROVE  Waits
<1>1. NoJobs /\ UNCHANGED <<owing, repaired>>
  BY DEF Fail, NoJobs
<1>2. WatchOthers(c)
  BY <1>1, UnseenWatches, FailWatch, WatchIs DEF Fail
<1>3. "reschedule" \in Place \ Watched
  BY DEF Place, Watched, SeenPlaces
<1> QED BY <1>2, <1>3, MovesWait DEF Fail

LEMMA CrashWaits ==
  ASSUME Before, NEW c \in Claims, Crash(c)
  PROVE  Waits
<1>1. WatchOthers(c)
  BY OnlyRunWatch DEF Crash
<1> QED BY <1>1, UnwatchedPlaces, MovesWait DEF Crash

LEMMA ProceedWaits ==
  ASSUME Before, NEW c \in Claims, Proceed(c)
  PROVE  Waits
BY StartRunWaits, StatsWaits, ScheduleWaits, ClaimWaits, RequestWaits,
   BeginRunWaits, ArmWaits, AcquireWaits, RefusedWaits, LoopWaits,
   ReadIntentsWaits, AssertActiveWaits, RecordWaits, StartCopyWaits, AttachWaits,
   RejectWaits, ReadDueWaits, CheckCopyWaits, DiscoverWaits, ReadStatusWaits,
   RequireWaits, ReattachWaits, SettleWaits, RereadWaits, LastCheckWaits,
   PrepareWaits, PublishWaits, FinishWaits, FinalWaits, RescheduleWaits,
   ContinueWaits, CatchWaits, ReassessWaits, FailWaits
   DEF Proceed

-----------------------------------------------------------------------------
(* The schedule's invariant *)

LEMMA AlarmSafe ==
  ASSUME RunnerInv, AlarmInv, [RunnerNext]_runnerVars
  PROVE  AlarmInv'
<1>1. IInv' /\ UNCHANGED erasing
  <2>1. TypedInv /\ CopyInv /\ IInv
    BY DEF RunnerInv, TypedInv
  <2>2. CoordinatorStep
    BY <2>1, StepIsCoordinators, OtherSteps DEF runnerVars
  <2> QED BY <2>1, <2>2, CoordinatorSafe DEF CoordinatorStep
<1>2. Before
  BY <1>1 DEF Before
<1>3. CASE UNCHANGED runnerVars
  <2>1. Watch /\ UNCHANGED run
    BY <1>2, <1>3, UnseenWatch DEF runnerVars
  <2>2. ASSUME NEW c \in Claims  PROVE  WaitSound(c)'
    BY <1>2, <2>1, BeforeFacts, RestWaits DEF Watch
  <2> QED BY <1>1, <2>1, <2>2 DEF Watch, AlarmInv
<1>4. CASE RunnerNext
  <2>1. Waits
    <3>1. ASSUME NEW c \in Claims, StartRun(c) \/ Proceed(c) \/ Crash(c)
          PROVE  Waits
      BY <1>2, <3>1, StartRunWaits, ProceedWaits, CrashWaits
    <3>2. CASE \/ \E d \in Deliveries : Delivery(d)
               \/ Operator \/ AlarmFires \/ JobEnds \/ TimePasses \/ NextDay
      BY <1>2, <3>2, AroundWaits DEF Waits
    <3> QED BY <1>4, <3>1, <3>2 DEF RunnerNext
  <2> QED BY <1>1, <2>1 DEF Waits, AlarmInv
<1> QED BY <1>3, <1>4

LEMMA AlarmInitSafe == RunnerInit => AlarmInv
<1> SUFFICES ASSUME RunnerInit  PROVE  AlarmInv
  OBVIOUS
<1>1. Init /\ \A c \in Claims : run[c].at = "idle"
  <2>1. run = [c \in Claims |-> NoRun] /\ Init
    BY Zenon DEF RunnerInit
  <2> QED BY <2>1, IdleRunType
<1>2. ~erasing /\ check = NoCheck /\ progress = NoProgress /\ snapshotDays = {}
      /\ dirty = incomplete /\ sequence = [d \in Deliveries |-> 0] /\ IInv
  BY <1>1, InitSafe DEF Init
<1>3. CopyCount \in Nat
  BY <1>2, CopyCountType
<1>4. CheckOwed /\ CursorBound
  BY <1>2, <1>3 DEF CheckOwed, CursorBound, NoProgress
<1>5. ReservedHaveDays
  BY <1>2 DEF ReservedHaveDays, Active
<1>6. WorkHasAlarm
  BY <1>2, WorkIs DEF WorkHasAlarm
<1>7. \A c \in Claims : WaitSound(c)
  BY <1>1 DEF WaitSound, At, SeenPlaces
<1> QED BY <1>2, <1>4, <1>5, <1>6, <1>7 DEF AlarmInv, ScheduleInv

(* Whatever becomes of the runs, their calls and their messages, days that *)
(* a snapshot could publish and a generation that has begun always have an *)
(* alarm, unless a failure, a spent budget or a repair is the operator's.  *)
THEOREM WorkAlwaysHasAlarm == RunnerSpec => []WorkHasAlarm
<1>1. RunnerInit => AlarmInv
  BY AlarmInitSafe
<1>2. RunnerInv /\ AlarmInv /\ [RunnerNext]_runnerVars => AlarmInv'
  BY AlarmSafe
<1>3. AlarmInv => WorkHasAlarm
  BY DEF AlarmInv, ScheduleInv
<1> QED BY RunnerInvariance, <1>1, <1>2, <1>3, PTL DEF RunnerSpec

-----------------------------------------------------------------------------
(* The erasure of an organization.  Once the coordinator reports ready no  *)
(* Copy of the organization runs or is about to be started.  The runs'     *)
(* invariant says why: a Copy that may run, or may still be started, is    *)
(* owed.  What remains is that the erasure keeps it, although it settles   *)
(* Copies that it does not own, with what it read about them some steps    *)
(* before.                                                                 *)

(* The inductive invariant *)

(* The job a post has found is the job of the Copy it listed, and if it    *)
(* was seen to end it has ended.                                           *)
FoundSoundly ==
  \E j \in jobs : /\ j.id = erase.job /\ Matches(j, erase.intent)
                  /\ erase.status \in {"none", j.status}

PostSound ==
  /\ erase \in Post
  /\ erase.at # "idle" => erasing
  /\ erase.at \in {"attach", "settle"} => FoundSoundly
  /\ erase.at = "settle" => erase.status # "none"

ErasureInv == RunnerInv /\ PostSound

-----------------------------------------------------------------------------
(* The jobs of the runs only end *)

LEMMA UnionGoes ==
  ASSUME NEW new, jobs' = jobs \cup {new}, UNCHANGED manifests
  PROVE  JobsGo
BY DEF JobsGo, Matches

LEMMA RunnerJobsGo ==
  ASSUME TypedInv, [RunnerNext]_runnerVars
  PROVE  JobsGo
<1>1. ASSUME OnlyCalls  PROVE  JobsGo
  BY <1>1, OnlyCallsGo
<1>2. CASE UNCHANGED runnerVars
  BY <1>1, <1>2 DEF runnerVars, OnlyCalls
<1>3. ASSUME NEW c \in Claims, StartCopy(c)  PROVE  JobsGo
  BY <1>1, <1>3, UnionGoes DEF StartCopy, Accepted, OnlyCalls
<1>4. ASSUME NEW c \in Claims, PublishManifest(c)  PROVE  JobsGo
  BY <1>4 DEF PublishManifest, JobsGo, Matches
<1>5. CASE JobEnds
  <2>1. PICK j \in jobs, outcome \in {"done", "error"} :
          /\ j.status = "working"
          /\ jobs' = (jobs \ {j}) \cup {[j EXCEPT !.status = outcome]}
    BY <1>5 DEF JobEnds
  <2>2. j \in Job
    BY DEF TypedInv, RunnerTypeOK
  <2>3. /\ [j EXCEPT !.status = outcome] \in jobs'
        /\ [j EXCEPT !.status = outcome].id = j.id
        /\ Matches([j EXCEPT !.status = outcome], j)
    BY <2>1, <2>2 DEF Job, Matches
  <2>4. \A i \in jobs : i # j => i \in jobs'
    BY <2>1
  <2> QED BY <1>5, <2>1, <2>3, <2>4 DEF JobsGo, JobEnds, Matches
<1>6. ASSUME NEW c \in Claims,
             \/ StartRun(c) \/ Crash(c) \/ Stats(c) \/ Schedule(c) \/ Claim(c)
             \/ Request(c) \/ BeginRun(c) \/ Arm(c) \/ Acquire(c) \/ Refused(c)
             \/ Loop(c) \/ ReadIntents(c) \/ AssertActive(c) \/ Record(c)
             \/ Attach(c) \/ Reject(c) \/ ReadDue(c) \/ CheckCopy(c)
      PROVE  OnlyCalls
  BY <1>6 DEF OnlyCalls, NoJobs, OnlyRun, StartRun, Crash, Stats, Schedule, Claim,
              Request, BeginRun, Arm, Acquire, Refused, Loop, ReadIntents,
              AssertActive, Record, Attach, Reject, ReadDue, CheckCopy
<1>7. ASSUME NEW c \in Claims,
             \/ Discover(c) \/ ReadStatus(c) \/ Require(c) \/ Reattach(c)
             \/ Settle(c) \/ Reread(c) \/ LastCheck(c) \/ Prepare(c)
             \/ Finish(c) \/ Final(c) \/ Reschedule(c) \/ Continue(c)
             \/ ContinueLater(c) \/ Catch(c) \/ Reassess(c) \/ Fail(c) \/ Retry(c)
      PROVE  OnlyCalls
  BY <1>7 DEF OnlyCalls, NoJobs, OnlyRun, Discover, ReadStatus, Require, Reattach,
              Settle, Reread, LastCheck, Prepare, Finish, Final, Reschedule,
              Continue, ContinueLater, Catch, Reassess, Fail, Retry
<1>8. CASE \/ \E d \in Deliveries : Delivery(d)
           \/ Operator \/ AlarmFires \/ TimePasses \/ NextDay
  BY <1>1, <1>8 DEF Delivery, Operator, AlarmFires, TimePasses, NextDay, OnlyCalls
<1>9. CASE RunnerNext
  BY <1>1, <1>3, <1>4, <1>5, <1>6, <1>7, <1>8, <1>9 DEF RunnerNext, Proceed
<1> QED BY <1>2, <1>9

(* What a post knows stays true, whatever the runs do meanwhile. *)
LEMMA FoundStaysSound ==
  ASSUME PostSound, FoundSoundly, JobsGo, UNCHANGED erase
  PROVE  FoundSoundly'
<1>1. PICK j \in jobs : /\ j.id = erase.job /\ Matches(j, erase.intent)
                        /\ erase.status \in {"none", j.status}
  BY DEF FoundSoundly
<1>2. PICK k \in jobs' :
        k.id = j.id /\ Matches(k, j) /\ (k.status = j.status \/ j.status = "working")
  BY DEF JobsGo
<1>3. erase.status # "working"
  BY DEF PostSound, Post
<1> QED BY <1>1, <1>2, <1>3 DEF FoundSoundly, Matches

LEMMA RunsKeepPost ==
  ASSUME ErasureInv, [RunnerNext]_runnerVars, UNCHANGED erase
  PROVE  PostSound'
<1>1. JobsGo
  BY RunnerJobsGo DEF ErasureInv, RunnerInv
<1>2. UNCHANGED erasing
  BY StepIsCoordinators
     DEF ErasureInv, RunnerInv, CoordinatorStep, runnerVars, vars
<1> QED BY <1>1, <1>2, FoundStaysSound DEF ErasureInv, PostSound

-----------------------------------------------------------------------------
(* What a post does to the coordinator *)

LEMMA ReplyType ==
  ASSUME TypedInv, NEW next, Replied(next) \/ PostFails
  PROVE  faults' \in 0..MaxFaults /\ (erase' = next \/ erase' = NoPost)
BY FaultyType DEF Replied, PostFails, TypedInv, RunnerTypeOK

LEMMA ErasureCallSafe ==
  ASSUME TypedInv, ErasureStep
  PROVE  IInv' /\ TypeOK'
BY NextSafe DEF Next, TypedInv, IInv, TypeInv

LEMMA NothingSafe ==
  ASSUME TypedInv, UNCHANGED vars
  PROVE  IInv' /\ TypeOK'
BY NextSafe DEF TypedInv, IInv, TypeInv

LEMMA SettleErasureQuiet ==
  ASSUME TypedInv, SettleErasure, UNCHANGED <<lastGeneration, copyVars>>,
         erasing => erasing'
  PROVE  QuietStep
<1>1. UNCHANGED intents
  BY DEF copyVars
<1>2. CASE Drained(RecoveredGate)
  <2>1. ~InSnapshot
    BY <1>2, GenerationFacts DEF Drained, RecoveredGate, DrainLapsed, InSnapshot
  <2>2. /\ snapshotDays' = {} /\ progress' = NoProgress
        /\ gate'.phase = "open" /\ gate'.generation = 0
    BY <1>2 DEF SettleErasure, OpenGate
  <2> QED BY <1>1, <2>1, <2>2, GenerationFacts DEF QuietStep, SameStep, InSnapshot
<1>3. CASE ~Drained(RecoveredGate)
  <2>1. Housekeep /\ UNCHANGED progress
    BY <1>3 DEF SettleErasure
  <2>2. CASE DrainLapsed
    <3>1. ~InSnapshot /\ gate'.phase = "open" /\ gate'.generation = 0
            /\ snapshotDays' = {}
      BY <2>1, <2>2 DEF DrainLapsed, InSnapshot, Housekeep, RecoveredGate,
                        RecoveredDays, OpenGate
    <3> QED BY <1>1, <2>1, <3>1, GenerationFacts DEF QuietStep, SameStep, InSnapshot
  <2>3. CASE ~DrainLapsed
    BY <1>1, <2>1, <2>3 DEF Housekeep, RecoveredGate, RecoveredDays, QuietStep,
                            SameStep, InSnapshot
  <2> QED BY <2>2, <2>3
<1> QED BY <1>2, <1>3

(* Steps that only look, and tidy up. *)
LEMMA ReadSafe ==
  ASSUME TypedInv, CopyInv, BeginErasure \/ GetErasureState, OnlyCoordinator,
         faults' \in 0..MaxFaults
  PROVE  RunnerInv'
<1>1. IInv' /\ TypeOK'
  BY ErasureCallSafe DEF ErasureStep
<1>2. QuietStep
  BY SettleErasureQuiet DEF BeginErasure, GetErasureState
<1>3. /\ UNCHANGED <<run, jobs, manifests>>
      /\ owing' \subseteq Deliveries /\ repaired' \in BOOLEAN
  BY DEF OnlyCoordinator, TypedInv, RunnerTypeOK
<1> QED BY <1>1, <1>2, <1>3, AroundQuiet DEF RunnerInv, TypedInv, Safe

LEMMA NothingKeeps ==
  ASSUME TypedInv, CopyInv, UNCHANGED vars, OnlyCoordinator,
         faults' \in 0..MaxFaults
  PROVE  RunnerInv'
<1>1. IInv' /\ TypeOK' /\ QuietStep
  BY NothingSafe, QuietVars
<1>2. /\ UNCHANGED <<run, jobs, manifests>>
      /\ owing' \subseteq Deliveries /\ repaired' \in BOOLEAN
  BY DEF OnlyCoordinator, TypedInv, RunnerTypeOK
<1> QED BY <1>1, <1>2, AroundQuiet DEF RunnerInv, TypedInv, Safe

(* The erasure touches the Copy that is owed, and no run moves. *)
LEMMA KeptAlone ==
  ASSUME TypedInv, CopyInv, KeptStep, ErasureStep, OnlyCoordinator,
         progress'.claim = progress.claim, faults' \in 0..MaxFaults
  PROVE  RunnerInv'
<1>1. IInv' /\ TypeOK'
  BY ErasureCallSafe
<1>2. RunsRest
  BY KeptFrame DEF OnlyCoordinator, RunsRest, RunKept
<1>3. CopyInv'
  BY <1>1, <1>2, KeptSound DEF OnlyCalls, OnlyCoordinator
<1>4. RunnerTypeOK'
  BY <1>1 DEF OnlyCoordinator, TypedInv, RunnerTypeOK
<1> QED BY <1>1, <1>3, <1>4 DEF RunnerInv, TypedInv

(* The Copy that is owed is the one whose job the post has found. *)
LEMMA OwedIsFound ==
  ASSUME TypedInv, FoundSoundly, StillOwed
  PROVE  \E j \in jobs :
           /\ j.id = erase.job /\ erase.status \in {"none", j.status}
           /\ \A i \in intents : Matches(j, i)
<1>1. PICK j \in jobs : /\ j.id = erase.job /\ Matches(j, erase.intent)
                        /\ erase.status \in {"none", j.status}
  BY DEF FoundSoundly
<1>2. PICK k \in intents : Matches(k, erase.intent)
  BY DEF StillOwed
<1>3. \A i \in intents : i = k
  BY IntentFacts
<1>4. \A i \in intents : Matches(j, i)
  BY <1>1, <1>2, <1>3 DEF Matches
<1> QED BY <1>1, <1>4

LEMMA AttachOwedSafe ==
  ASSUME TypedInv, CopyInv, FoundSoundly, StillOwed,
         AttachErasureCopyJob(erase.job), OnlyCoordinator, faults' \in 0..MaxFaults
  PROVE  RunnerInv'
<1>1. PICK j \in jobs : j.id = erase.job /\ \A i \in intents : Matches(j, i)
  BY OwedIsFound
<1>2. j.id \in Jobs
  BY DEF TypedInv, RunnerTypeOK, Job
<1>3. PICK i \in intents : i.job \in {j.id, NoJob} /\ intents' = Attached(i, j.id)
  BY <1>1 DEF AttachErasureCopyJob
<1>4. UNCHANGED <<captureVars, erasing>>
  BY DEF AttachErasureCopyJob
<1>5. KeptStep
  BY <1>1, <1>3, <1>4, AttachKept DEF OnlyCalls, OnlyCoordinator
<1>6. ErasureStep
  BY <1>1, <1>2 DEF ErasureStep
<1> QED BY <1>4, <1>5, <1>6, KeptAlone DEF captureVars

LEMMA SettleOwedSafe ==
  ASSUME TypedInv, CopyInv, FoundSoundly, StillOwed, erase \in Post,
         erase.status # "none", SettleErasureCopyIntent(erase.job),
         OnlyCoordinator, faults' \in 0..MaxFaults
  PROVE  RunnerInv'
<1>1. PICK j \in jobs : /\ j.id = erase.job /\ erase.status \in {"none", j.status}
                        /\ \A i \in intents : Matches(j, i)
  BY OwedIsFound
<1>2. j.id \in Jobs /\ j.id # NoJob /\ j.status # "working"
  BY <1>1 DEF TypedInv, RunnerTypeOK, Job, Post
<1>3. PICK i \in intents : i.job = j.id /\ intents' = intents \ {i}
  BY <1>1 DEF SettleErasureCopyIntent
<1>4. UNCHANGED <<captureVars, erasing>> /\ erasing
  BY DEF SettleErasureCopyIntent
<1>5. KeptStep
  <2>1. ASSUME NEW k \in jobs, Covered(k)  PROVE  k.status # "working"
    <3>1. PICK owed \in intents : Matches(owed, k)
      BY <2>1 DEF Covered
    <3>2. Matches(j, k)
      BY <1>1, <3>1 DEF Matches
    <3> QED BY <1>2, <3>2 DEF CopyInv, JobsSound, OneJobPerKey
  <2>2. IntentJobs'
    BY <1>3 DEF CopyInv, JobsSound, IntentJobs, OnlyCoordinator, Matches
  <2>3. \A k \in intents : k.job = NoJob => k \in intents'
    BY <1>2, <1>3
  <2> QED BY <1>3, <1>4, <2>1, <2>2, <2>3 DEF KeptStep, captureVars, InSnapshot
<1>6. ErasureStep
  BY <1>1, <1>2 DEF ErasureStep
<1> QED BY <1>4, <1>5, <1>6, KeptAlone DEF captureVars

(* A generation is given up once no Copy of it is owed; its run may be     *)
(* anywhere, but not about to submit.                                      *)
LEMMA AbandonErasureSafe ==
  ASSUME TypedInv, CopyInv, AbandonErasureSnapshot, OnlyCoordinator,
         faults' \in 0..MaxFaults
  PROVE  RunnerInv'
<1>1. IInv' /\ TypeOK'
  BY ErasureCallSafe DEF ErasureStep
<1>2. /\ InSnapshot /\ gate' = OpenGate /\ progress' = NoProgress
      /\ intents = {} /\ UNCHANGED <<intents, lastGeneration, erasing>>
  BY DEF AbandonErasureSnapshot, NoCopyOwed, AbandonGeneration, InSnapshot
<1>3. EndedStep
  BY <1>2, OpenedEnds DEF Covered
<1>4. \A d \in Claims : run'[d] = run[d] /\ ~At(d, "start")
  BY <1>2, NoneStarts DEF OnlyCoordinator
<1>5. CopyInv'
  BY <1>1, <1>3, <1>4, EndedSound DEF OnlyCalls, OnlyCoordinator
<1>6. RunnerTypeOK'
  BY <1>1 DEF OnlyCoordinator, TypedInv, RunnerTypeOK
<1> QED BY <1>1, <1>5, <1>6 DEF RunnerInv, TypedInv

-----------------------------------------------------------------------------
(* The steps of a post *)

(* A post that failed knows nothing. *)
LEMMA NoPostSound ==
  ASSUME erase' = NoPost
  PROVE  PostSound'
BY DEF PostSound, NoPost, Post

LEMMA ProceedsTo ==
  ASSUME TypedInv, erase \in Post, NEW place, Proceeds(place),
         place \in {"list", "state", "abandon", "state again", "done", "idle"},
         place # "idle" => erasing'
  PROVE  PostSound' /\ faults' \in 0..MaxFaults
<1> DEFINE next == [erase EXCEPT !.at = place]
<1>1. next \in Post /\ next.at = place
  BY DEF Post
<1>2. Replied(next)
  BY DEF Proceeds
<1> HIDE DEF next
<1>3. faults' \in 0..MaxFaults /\ (erase' = next \/ erase' = NoPost)
  BY <1>2, ReplyType
<1>4. CASE erase' = next
  BY <1>1, <1>3, <1>4 DEF PostSound
<1> QED BY <1>3, <1>4, NoPostSound

LEMMA FailedPost ==
  ASSUME TypedInv, PostFails
  PROVE  PostSound' /\ faults' \in 0..MaxFaults
BY NoPostSound DEF PostFails, TypedInv, RunnerTypeOK

LEMMA LooksSafe ==
  ASSUME ErasureInv, BeginErase \/ ReadErasure \/ ReadErasureAgain
  PROVE  ErasureInv'
<1>1. TypedInv /\ CopyInv /\ erase \in Post
  BY DEF ErasureInv, RunnerInv, PostSound
<1>2. /\ BeginErasure \/ GetErasureState
      /\ OnlyCoordinator /\ erasing'
  <2>1. BeginErasure \/ GetErasureState
    BY DEF BeginErase, ReadErasure, ReadErasureAgain
  <2>2. OnlyCoordinator
    BY DEF BeginErase, ReadErasure, ReadErasureAgain
  <2> QED BY <2>1, <2>2 DEF BeginErasure, GetErasureState
<1>3. PICK place \in {"list", "state", "abandon", "state again", "done", "idle"} :
        Proceeds(place)
  BY DEF BeginErase, ReadErasure, ReadErasureAgain
<1>4. PostSound' /\ faults' \in 0..MaxFaults
  BY <1>1, <1>2, <1>3, ProceedsTo
<1> QED BY <1>1, <1>2, <1>4, ReadSafe DEF ErasureInv

LEMMA ListIntentsSafe ==
  ASSUME ErasureInv, ListIntents
  PROVE  ErasureInv'
<1>1. /\ TypedInv /\ CopyInv /\ erase \in Post /\ erase.at = "list" /\ erasing
      /\ UNCHANGED vars /\ OnlyCoordinator /\ erasing'
  BY DEF ErasureInv, RunnerInv, PostSound, ListIntents, OnlyPost, OnlyCoordinator,
         vars
<1>2. PostSound' /\ faults' \in 0..MaxFaults
  <2>1. CASE Proceeds("state")
    BY <1>1, <2>1, ProceedsTo
  <2>2. CASE \E i \in intents :
               Replied([erase EXCEPT !.at = "discover", !.intent = i])
    <3>1. PICK i \in intents :
            Replied([erase EXCEPT !.at = "discover", !.intent = i])
      BY <2>2
    <3> DEFINE next == [erase EXCEPT !.at = "discover", !.intent = i]
    <3>2. i \in Intent
      BY <1>1 DEF TypedInv, RunnerTypeOK, TypeOK
    <3>3. next \in Post /\ next.at = "discover"
      BY <1>1, <3>2 DEF Post
    <3>4. Replied(next)
      BY <3>1
    <3> HIDE DEF next
    <3>5. faults' \in 0..MaxFaults /\ (erase' = next \/ erase' = NoPost)
      BY <1>1, <3>4, ReplyType
    <3> QED BY <1>1, <3>3, <3>5, NoPostSound DEF PostSound
  <2> QED BY <2>1, <2>2 DEF ListIntents
<1> QED BY <1>1, <1>2, NothingKeeps DEF ErasureInv

LEMMA DiscoverErasedSafe ==
  ASSUME ErasureInv, DiscoverErased
  PROVE  ErasureInv'
<1>1. /\ TypedInv /\ CopyInv /\ erase \in Post /\ erase.at = "discover"
      /\ erasing /\ UNCHANGED vars /\ OnlyCoordinator /\ erasing'
      /\ UNCHANGED jobs
  BY DEF ErasureInv, RunnerInv, PostSound, DiscoverErased, OnlyPost,
         OnlyCoordinator, vars
<1>2. PostSound' /\ faults' \in 0..MaxFaults
  <2>1. CASE Proceeds("state")
    BY <1>1, <2>1, ProceedsTo
  <2>2. CASE erase' = [erase EXCEPT !.at = "state"] /\ Faulty
    <3>1. erase' \in Post /\ erase'.at = "state"
      BY <1>1, <2>2 DEF Post
    <3>2. faults' \in 0..MaxFaults
      BY <1>1, <2>2, FaultyType DEF TypedInv, RunnerTypeOK
    <3> QED BY <1>1, <3>1, <3>2 DEF PostSound
  <2>3. ASSUME NEW j \in FoundJobs,
               Replied([erase EXCEPT !.at = AfterFound(j), !.job = j.id,
                                     !.status = EndOf(j)])
        PROVE  PostSound' /\ faults' \in 0..MaxFaults
    <3>1. j \in jobs /\ j \in Job /\ Matches(j, erase.intent)
      BY <1>1 DEF FoundJobs, TypedInv, RunnerTypeOK
    <3>2. PICK status \in {"none", "done", "error"} :
            status = EndOf(j) /\ status \in {"none", j.status}
      BY <3>1 DEF EndOf, Status, Job
    <3>3. PICK place \in {"attach", "state", "settle"} :
            place = AfterFound(j) /\ (place = "settle" => status # "none")
      BY <3>2 DEF AfterFound
    <3> DEFINE next == [erase EXCEPT !.at = place, !.job = j.id, !.status = status]
    <3>4. /\ next \in Post /\ next.at = place /\ next.job = j.id
          /\ next.status = status /\ next.intent = erase.intent
      BY <1>1, <3>1 DEF Post, Job
    <3>5. Replied(next)
      BY <2>3, <3>2, <3>3
    <3> HIDE DEF next
    <3>6. faults' \in 0..MaxFaults /\ (erase' = next \/ erase' = NoPost)
      BY <1>1, <3>5, ReplyType
    <3>7. CASE erase' = next
      <4>1. FoundSoundly'
        BY <1>1, <3>1, <3>2, <3>4, <3>7 DEF FoundSoundly, Matches
      <4> QED BY <1>1, <3>3, <3>4, <3>6, <3>7, <4>1 DEF PostSound
    <3> QED BY <3>6, <3>7, NoPostSound
  <2>4. CASE PostFails
    BY <1>1, <2>4, FailedPost
  <2> QED BY <2>1, <2>2, <2>3, <2>4 DEF DiscoverErased
<1> QED BY <1>1, <1>2, NothingKeeps DEF ErasureInv

LEMMA PostFailsSafe ==
  ASSUME ErasureInv, PostFails, UNCHANGED vars, OnlyCoordinator
  PROVE  ErasureInv'
BY NothingKeeps, FailedPost DEF ErasureInv, RunnerInv

(* Before the job is settled the post attaches it, and still knows it. *)
LEMMA AttachErasedSafe ==
  ASSUME ErasureInv, AttachErased
  PROVE  ErasureInv'
<1>1. /\ TypedInv /\ CopyInv /\ erase \in Post /\ erase.at = "attach"
      /\ erasing /\ FoundSoundly /\ OnlyCoordinator /\ UNCHANGED jobs
  BY DEF ErasureInv, RunnerInv, PostSound, AttachErased, OnlyCoordinator
<1>2. CASE PostFails /\ UNCHANGED vars
  BY <1>1, <1>2, PostFailsSafe
<1>3. CASE /\ StillOwed /\ AttachErasureCopyJob(erase.job)
           /\ Proceeds(IF erase.status = "none" THEN "state" ELSE "settle")
  <2>1. PICK place \in {"state", "settle"} :
          place = IF erase.status = "none" THEN "state" ELSE "settle"
    OBVIOUS
  <2> DEFINE next == [erase EXCEPT !.at = place]
  <2>2. /\ next \in Post /\ next.at = place /\ next.job = erase.job
        /\ next.status = erase.status /\ next.intent = erase.intent
    BY <1>1 DEF Post
  <2>3. Replied(next)
    BY <1>3, <2>1 DEF Proceeds
  <2> HIDE DEF next
  <2>4. faults' \in 0..MaxFaults /\ (erase' = next \/ erase' = NoPost)
    BY <1>1, <2>3, ReplyType
  <2>5. erasing'
    BY <1>3 DEF AttachErasureCopyJob
  <2>6. PostSound'
    <3>1. CASE erase' = next
      <4>1. FoundSoundly'
        BY <1>1, <2>2, <3>1 DEF FoundSoundly, Matches
      <4> QED BY <2>1, <2>2, <2>5, <3>1, <4>1 DEF PostSound
    <3> QED BY <2>4, <3>1, NoPostSound
  <2> QED BY <1>1, <1>3, <2>4, <2>6, AttachOwedSafe DEF ErasureInv
<1> QED BY <1>2, <1>3 DEF AttachErased

LEMMA SettleErasedSafe ==
  ASSUME ErasureInv, SettleErased
  PROVE  ErasureInv'
<1>1. /\ TypedInv /\ CopyInv /\ erase \in Post /\ erase.status # "none"
      /\ FoundSoundly /\ OnlyCoordinator
  BY DEF ErasureInv, RunnerInv, PostSound, SettleErased
<1>2. CASE PostFails /\ UNCHANGED vars
  BY <1>1, <1>2, PostFailsSafe
<1>3. CASE StillOwed /\ SettleErasureCopyIntent(erase.job) /\ Proceeds("state")
  <2>1. erasing'
    BY <1>3 DEF SettleErasureCopyIntent
  <2>2. PostSound' /\ faults' \in 0..MaxFaults
    BY <1>1, <1>3, <2>1, ProceedsTo
  <2> QED BY <1>1, <1>3, <2>2, SettleOwedSafe DEF ErasureInv
<1> QED BY <1>2, <1>3 DEF SettleErased

LEMMA AbandonErasedSafe ==
  ASSUME ErasureInv, AbandonErased
  PROVE  ErasureInv'
<1>1. TypedInv /\ CopyInv /\ erase \in Post /\ OnlyCoordinator
  BY DEF ErasureInv, RunnerInv, PostSound, AbandonErased
<1>2. CASE PostFails /\ UNCHANGED vars
  BY <1>1, <1>2, PostFailsSafe
<1>3. CASE AbandonErasureSnapshot /\ Proceeds("state again")
  <2>1. erasing'
    BY <1>3 DEF AbandonErasureSnapshot
  <2>2. PostSound' /\ faults' \in 0..MaxFaults
    BY <1>1, <1>3, <2>1, ProceedsTo
  <2> QED BY <1>1, <1>3, <2>2, AbandonErasureSafe DEF ErasureInv
<1> QED BY <1>2, <1>3 DEF AbandonErased

-----------------------------------------------------------------------------
(* All together *)

LEMMA ErasureInitSafe == ErasureInit => ErasureInv
BY RunnerInitSafe DEF ErasureInit, ErasureInv, PostSound, NoPost, Post

LEMMA ErasureNextSafe ==
  ASSUME ErasureInv, [ErasureNext]_erasureVars
  PROVE  ErasureInv'
<1>1. CASE [RunnerNext]_runnerVars /\ UNCHANGED erase
  BY <1>1, RunnerSafe, RunsKeepPost DEF ErasureInv
<1>2. CASE ErasePost
  BY <1>2, LooksSafe, ListIntentsSafe, DiscoverErasedSafe, AttachErasedSafe,
     SettleErasedSafe, AbandonErasedSafe DEF ErasePost
<1> QED BY <1>1, <1>2 DEF ErasureNext, erasureVars

(* What the runs rely on survives the erasure's posts, and what a post     *)
(* read about a Copy stays true until it settles it.                       *)
THEOREM ErasureInvariance == ErasureSpec => []ErasureInv
<1>1. ErasureInit => ErasureInv
  BY ErasureInitSafe
<1>2. ErasureInv /\ [ErasureNext]_erasureVars => ErasureInv'
  BY ErasureNextSafe
<1> QED BY <1>1, <1>2, PTL DEF ErasureSpec

(* Once the coordinator reports ready, no Copy of the organization runs    *)
(* and no run is about to submit one, wherever runs and posts stalled,     *)
(* crashed or lost a reply.                                                *)
THEOREM ErasedStaysQuiet == ErasureSpec => []ErasedIsQuiet
<1>1. ErasureInv => ErasedIsQuiet
  <2> SUFFICES ASSUME ErasureInv  PROVE  ErasedIsQuiet
    OBVIOUS
  <2>1. ErasureTypeOK
    BY DEF ErasureInv, RunnerInv, TypedInv, PostSound, ErasureTypeOK
  <2>2. ASSUME ErasureReady, NEW j \in jobs  PROVE  j.status # "working"
    BY <2>2 DEF ErasureInv, RunnerInv, CopyInv, JobsSound, RunningCopyIsOwed,
                ErasureReady, Drained
  <2>3. ASSUME ErasureReady, NEW c \in Claims  PROVE  ~At(c, "start")
    BY <2>3, NoneStarts DEF ErasureInv, RunnerInv, ErasureReady, Drained
  <2> QED BY <2>1, <2>2, <2>3 DEF ErasedIsQuiet
<1> QED BY ErasureInvariance, <1>1, PTL

(* Erasing an organization never lets a Copy be submitted twice, be given  *)
(* up while it may run, or be published unfinished.                        *)
THEOREM ErasureKeepsCopies ==
  ErasureSpec => [](CopiesSound /\ PublishedIsCopied)
<1>1. ErasureInv => CopiesSound /\ PublishedIsCopied
  BY DEF ErasureInv, RunnerInv, TypedInv, CopyInv, JobsSound, CopiesSound
<1> QED BY ErasureInvariance, <1>1, PTL

-----------------------------------------------------------------------------
(* The coordinator under runs and an erasure *)

LEMMA ErasureStepIsCall ==
  ASSUME ErasureInv, [ErasureNext]_erasureVars
  PROVE  CallStep
<1>1. CASE [RunnerNext]_runnerVars
  BY <1>1, RunnerStepIsCall DEF ErasureInv
<1>2. CASE ErasePost
  <2>1. ASSUME FoundSoundly  PROVE erase.job \in Jobs
    BY <2>1 DEF FoundSoundly, ErasureInv, RunnerInv, TypedInv, RunnerTypeOK, Job
  <2>2. erase.at \in {"attach", "settle"} => erase.job \in Jobs
    BY <2>1 DEF ErasureInv, PostSound
  <2>3. CASE BeginErase \/ ReadErasure \/ ReadErasureAgain
    <3>1. ErasureStep
      BY <2>3 DEF BeginErase, ReadErasure, ReadErasureAgain, ErasureStep
    <3> QED BY <3>1 DEF Next, CallStep
  <2>4. CASE ListIntents \/ DiscoverErased
    <3>1. UNCHANGED vars
      BY <2>4 DEF ListIntents, DiscoverErased, OnlyPost
    <3> QED BY <3>1 DEF CallStep
  <2>5. CASE AttachErased
    <3>1. ErasureStep \/ UNCHANGED vars
      BY <2>2, <2>5 DEF AttachErased, ErasureStep
    <3> QED BY <3>1 DEF Next, CallStep
  <2>6. CASE SettleErased
    <3>1. ErasureStep \/ UNCHANGED vars
      BY <2>2, <2>6 DEF SettleErased, ErasureStep
    <3> QED BY <3>1 DEF Next, CallStep
  <2>7. CASE AbandonErased
    <3>1. ErasureStep \/ UNCHANGED vars
      BY <2>7 DEF AbandonErased, ErasureStep
    <3> QED BY <3>1 DEF Next, CallStep
  <2> QED BY <1>2, <2>3, <2>4, <2>5, <2>6, <2>7 DEF ErasePost
<1> QED BY <1>1, <1>2 DEF ErasureNext, erasureVars

(* Also while an organization is erased the coordinator's tables agree,    *)
(* no unpublished day is forgotten, a ready erasure stays ready, and the   *)
(* capacity object sees a lifecycle: the posts of the erasure come between *)
(* the calls of runs that do not know of it.                               *)
THEOREM ErasureKeepsTheCoordinator ==
  ErasureSpec => /\ [](StableInput /\ CaptureSafe /\ TablesAgree)
                 /\ DirtyDaySurvives /\ ErasureReadyIsFinal
                 /\ ImplementsLifecycle
<1>1. ErasureInv => StableInput /\ CaptureSafe /\ TablesAgree
  BY InvariantPromises DEF ErasureInv, RunnerInv, TypedInv, StatePromises
<1>2. ErasureInv /\ ErasureInv' /\ [ErasureNext]_erasureVars => StepPromises
  BY ErasureStepIsCall, CallsKeepPromises DEF ErasureInv, RunnerInv, TypedInv
<1>3. StepPromises => /\ [ForgetsNoUnpublishedDay]_vars
                      /\ [ErasureReady => ErasureReady']_vars
                      /\ [Abstract!Next]_LifecycleSeen
  BY DEF StepPromises
<1>4. ErasureInit => Abstract!Init
  BY InitLife DEF ErasureInit, RunnerInit
<1> QED BY ErasureInvariance, <1>1, <1>2, <1>3, <1>4, PTL
        DEF ErasureSpec, DirtyDaySurvives, ErasureReadyIsFinal,
            ImplementsLifecycle, Abstract!Spec
=============================================================================
