--------------------------- MODULE AgentDelivery ---------------------------
(***************************************************************************)
(* The AgentDelivery durable objects of one organization, composed with    *)
(* its coordinator, the delivery queue, the fact tables in Tinybird and a  *)
(* snapshot runner.                                                        *)
(*                                                                         *)
(* One object per delivery owns a persisted receipt.  Its handlers -       *)
(* register, process and the alarm - take turns (`exclusive`) and are      *)
(* sequences of steps here: each step is one remote call or one write of   *)
(* the receipt, and Abort may end a handler between any two of them.  A    *)
(* call whose reply is lost is the call followed by Abort, a crash is      *)
(* Abort, and a throw that leaves everything to the next attempt is a step *)
(* to Idle.  Calls are executed or lost before their caller goes on.       *)
(*                                                                         *)
(* All deliveries carry the same fact identity, each with a day of its     *)
(* own, so every delivery after the first is a correction that may move    *)
(* the fact to another day; the six fact categories are one.  Erasure and  *)
(* the operator's repair of incomplete days are not part of this           *)
(* composition, and days do not pass.                                      *)
(***************************************************************************)
EXTENDS AgentDeliveryCoordinator

CONSTANT MaxFaults  \* bound: aborted handlers, failed inserts, lost messages

ASSUME MaxFaultsAssumption == MaxFaults \in Nat

VARIABLES
  receipt,    \* storage key 'receipt' of each delivery's object
  armed,      \* the object's alarm is set
  life,       \* time left until reference.expires_at
  newDay,     \* the day of the fact the delivery carries
  queue,      \* deliveries with a reference in the delivery queue
  run,        \* the handler each object is executing
  landed,     \* fact version rows written, [day, rev, live]
  late,       \* rows of unconfirmed inserts that may still be written
  copies,     \* Copies that ran for the active generation
  copied,     \* live rows they read
  published,  \* live rows the published snapshots hold
  faults      \* faults so far

agentVars == <<receipt, armed, life, newDay, queue, run>>
factVars == <<landed, late>>
publishVars == <<copies, copied, published>>
allVars == <<vars, agentVars, factVars, publishVars, faults>>

-----------------------------------------------------------------------------
(* Stored shapes *)

NoDay == -1

NoReceipt == [phase |-> "none", revision |-> 0, stored |-> FALSE,
              prev |-> NoDay, write |-> "none"]
NewReceipt == [NoReceipt EXCEPT !.phase = "registered"]
ReceiptFields ==
  [phase : {"none", "registered", "committing", "complete", "expired"},
   revision : 0..MaxSequence,  \* 0: no reservation known yet
   stored : BOOLEAN,           \* rowsSha256 and plannedDirtyDays
   prev : Day \cup {NoDay},    \* the tombstone's day in those rows
   write : {"none", "attempting", "done"}]
\* finishCommit and the alarm give a committing receipt up without these.
Receipt ==
  {r \in ReceiptFields :
     r.phase \in {"committing", "complete"} => r.revision # 0 /\ r.stored}

Idle == [at |-> "idle", by |-> "none", held |-> FALSE, prev |-> NoDay,
         next |-> {}]
Handler == [at : {"idle", "arm", "reserve", "keep", "next", "send", "begin",
                  "price", "store", "plan", "insert", "write", "confirm",
                  "commit", "finish", "handoff", "completed", "expire",
                  "clear"},
            by : {"none", "register", "process", "alarm"},
            held : BOOLEAN,         \* the reservation beginWrite returned
            prev : Day \cup {NoDay},
            next : SUBSET Deliveries]

Row == [day : Day, rev : 1..MaxSequence, live : BOOLEAN]

AgentTypeOK ==
  /\ TypeOK
  /\ receipt \in [Deliveries -> Receipt]
  /\ armed \in [Deliveries -> BOOLEAN]
  /\ life \in [Deliveries -> 0..DeliveryRetention]
  /\ newDay \in [Deliveries -> Day]
  /\ queue \subseteq Deliveries
  /\ run \in [Deliveries -> Handler]
  /\ landed \subseteq Row /\ late \subseteq Row
  /\ copies \in Nat
  /\ copied \subseteq Row /\ published \subseteq Row
  /\ faults \in 0..MaxFaults

AgentInit ==
  /\ Init
  /\ receipt = [d \in Deliveries |-> NoReceipt]
  /\ armed = [d \in Deliveries |-> FALSE]
  /\ life = [d \in Deliveries |-> DeliveryRetention]
  /\ newDay \in [Deliveries -> Window]
  /\ queue = {}
  /\ run = [d \in Deliveries |-> Idle]
  /\ landed = {} /\ late = {}
  /\ copies = 0 /\ copied = {} /\ published = {}
  /\ faults = 0

-----------------------------------------------------------------------------
(* Handlers *)

At(d, place) == run[d].at = place
Goto(d, place) == run' = [run EXCEPT ![d].at = place]
Start(d, place, caller) ==
  run' = [run EXCEPT ![d] = [Idle EXCEPT !.at = place, !.by = caller]]
Stop(d) == run' = [run EXCEPT ![d] = Idle]

Keep(d, field, value) == receipt' = [receipt EXCEPT ![d][field] = value]

Expired(d) == life[d] = 0
Faulty == faults < MaxFaults /\ faults' = faults + 1

-----------------------------------------------------------------------------
(* Tinybird: fact versions, the identity-day index, the receipt index *)

Newest(rows) == {r \in rows : \A other \in rows : other.rev <= r.rev}

(* What FINAL leaves of a day: its newest row, unless that is a tombstone. *)
LiveOn(day) == {r \in Newest({s \in landed : s.day = day}) : r.live}

(* agent_fact_identity_day_batch: the day of the newest live row, which    *)
(* later tombstones do not remove, if it is still retained.                *)
IdentityDay == {r \in Newest({s \in landed : s.live}) : InWindow(r.day)}

(* The rows of a stored delivery: its fact, and a tombstone on the day the *)
(* fact moves from (prepareDeliveryPartitions).                            *)
Moves(d) == receipt[d].prev \notin {NoDay, newDay[d]}
Rows(d) ==
  {[day |-> newDay[d], rev |-> receipt[d].revision, live |-> TRUE]} \cup
  {[day |-> day, rev |-> receipt[d].revision, live |-> FALSE] :
     day \in IF Moves(d) THEN {receipt[d].prev} ELSE {}}

PlannedDays(d) == {r.day : r \in Rows(d)}

(* deliveryPartitionLinks, and its variant that links nothing. *)
NoLinks(d) == {}
PlannedLinks(d) ==
  {l \in Link : Moves(d) /\ {l[1], l[2]} = {receipt[d].prev, newDay[d]}}

(* deliveryCategoryIsPresent: all rows are there; the variant takes some   *)
(* row for all of them.                                                    *)
PartlyPresent(d) == Rows(d) \cap landed # {}
Present(d) == Rows(d) \subseteq landed

-----------------------------------------------------------------------------
(* register: called by the ingest worker, again when it got no revision *)

Register(d) ==
  /\ run[d] = Idle
  /\ ~Expired(d)
  /\ IF receipt[d].revision # 0
       THEN Start(d, "send", "register") /\ UNCHANGED receipt
       ELSE /\ Start(d, "arm", "register")
            /\ receipt' = [receipt EXCEPT ![d] =
                             IF @ = NoReceipt THEN NewReceipt ELSE @]
  /\ UNCHANGED <<vars, armed, life, newDay, queue, factVars, publishVars, faults>>

Arm(d) ==
  /\ At(d, "arm")
  /\ armed' = [armed EXCEPT ![d] = TRUE]
  /\ Goto(d, "reserve")
  /\ UNCHANGED <<vars, receipt, life, newDay, queue, factVars, publishVars,
                 faults>>

(* The coordinator's reserve: a new sequence, the one an earlier call got, *)
(* null while its gate is closed or its table full, or an error.           *)
CallReserve(d) ==
  /\ At(d, "reserve")
  /\ \/ Reserve(d, {newDay[d]}, life[d]) /\ ~Expired(d) /\ Goto(d, "keep")
     \/ d \in Active /\ GetStats /\ Goto(d, "keep")
     \/ /\ d \notin Active
        /\ \/ RecoveredGate.phase # "open"
           \/ Cardinality(Active) >= MaxActive
           \/ lastSequence = MaxSequence
           \/ Cardinality(dirty \cup ActiveDays \cup {newDay[d]}) > MaxDirtyDays
           \/ Expired(d)
        /\ GetStats
        /\ Stop(d)
  /\ UNCHANGED <<receipt, armed, life, newDay, queue, factVars, publishVars,
                 faults>>

KeepRevision(d) ==
  /\ At(d, "keep")
  /\ Keep(d, "revision", sequence[d])
  /\ Goto(d, IF run[d].by = "alarm" THEN "next" ELSE "send")
  /\ UNCHANGED <<vars, armed, life, newDay, queue, factVars, publishVars, faults>>

Send(d) ==
  /\ At(d, "send")
  /\ queue' = queue \cup {d}
  /\ Stop(d)
  /\ UNCHANGED <<vars, receipt, armed, life, newDay, factVars, publishVars,
                 faults>>

-----------------------------------------------------------------------------
(* process: called with a reference from the delivery queue *)

(* A reservation whose reply was lost is recovered before anything else. *)
Recovered(d) == IF receipt[d].revision = 0 THEN sequence[d]
                                           ELSE receipt[d].revision

Deliver(d) ==
  /\ run[d] = Idle
  /\ d \in queue
  /\ receipt[d].phase \in {"registered", "committing"}
  /\ ~Expired(d)
  /\ receipt[d].revision # 0 \/ d \in Active
  /\ Keep(d, "revision", Recovered(d))
  /\ Start(d, "begin", "process")
  /\ UNCHANGED <<vars, armed, life, newDay, queue, factVars, publishVars, faults>>

(* A completed delivery's message is acknowledged, and one nobody can      *)
(* process any more ends in the dead letter queue.                         *)
Discard(d) ==
  /\ run[d] = Idle
  /\ d \in queue
  /\ receipt[d].phase \notin {"registered", "committing"} \/ Expired(d)
  /\ queue' = queue \ {d}
  /\ UNCHANGED <<vars, receipt, armed, life, newDay, run, factVars, publishVars,
                 faults>>

\* Variant with a bug: any reservation may write, not only the earliest.
AnyReservation(d) == d \in Active
MayWrite(d) == HoldsPermit(d)

(* beginWrite: without the permit the message is retried later. *)
BeginWrite(d) ==
  /\ At(d, "begin")
  /\ \/ /\ receipt[d].phase = "committing"
        /\ d \notin Active \/ MayWrite(d)
        /\ run' = [run EXCEPT ![d].at = "finish", ![d].held = d \in Active]
     \/ /\ receipt[d].phase = "registered" /\ MayWrite(d)
        /\ Goto(d, IF receipt[d].stored THEN "plan" ELSE "price")
     \/ /\ ~MayWrite(d)
        /\ d \in Active \/ receipt[d].phase = "registered"
        /\ Stop(d)
  /\ UNCHANGED <<vars, receipt, armed, life, newDay, queue, factVars,
                 publishVars, faults>>

(* priceQueueDelivery and the lookup of prepareDeliveryPartitions. *)
Price(d) ==
  /\ At(d, "price")
  /\ IF \E r \in IdentityDay : r.rev >= receipt[d].revision
       THEN Stop(d)
       ELSE \E prev \in IF IdentityDay = {} THEN {NoDay}
                                            ELSE {r.day : r \in IdentityDay} :
              run' = [run EXCEPT ![d].at = "store", ![d].prev = prev]
  /\ UNCHANGED <<vars, receipt, armed, life, newDay, queue, factVars,
                 publishVars, faults>>

(* storeDeliveryRows and the persisted plan; later attempts load them.      *)
StoredReceipt(d) == [receipt[d] EXCEPT !.stored = TRUE, !.prev = run[d].prev]

StoreRows(d) ==
  /\ At(d, "store")
  /\ receipt' = [receipt EXCEPT ![d] = StoredReceipt(d)]
  /\ run' = [run EXCEPT ![d].at = "plan", ![d].prev = NoDay]
  /\ UNCHANGED <<vars, armed, life, newDay, queue, factVars, publishVars, faults>>

(* planWrite: the first of its two transactions stands when the second     *)
(* finds too many links, and either may throw.  The variant keeps the days *)
(* the delivery was registered with.                                       *)
RegisteredDays(d) == HoldsPermit(d) /\ UNCHANGED vars
SendPlan(d) == PlanWrite(d, PlannedDays(d), PlannedLinks(d))
PlanRefused(d) ==
  \/ ~HoldsPermit(d)
  \/ Cardinality(dirty \cup PlannedDays(d) \cup
                    UNION {days[other] : other \in Deliveries \ {d}}) > MaxDirtyDays

Plan(d) ==
  /\ At(d, "plan")
  /\ \/ /\ SendPlan(d)
        /\ IF WithinLinkCapacity(links \cup PlannedLinks(d))
             THEN Goto(d, IF receipt[d].write = "done" THEN "commit" ELSE "insert")
             ELSE Stop(d)
     \/ PlanRefused(d) /\ Stop(d) /\ UNCHANGED vars
  /\ UNCHANGED <<receipt, armed, life, newDay, queue, factVars, publishVars,
                 faults>>

(* An attempt whose outcome is unknown is first looked up in the receipt   *)
(* index, and repeated when it is not complete there.                      *)
CheckWrite(d) ==
  /\ At(d, "insert")
  /\ IF receipt[d].write = "attempting" /\ Present(d)
       THEN Goto(d, "confirm") /\ UNCHANGED receipt
       ELSE Goto(d, "write") /\ Keep(d, "write", "attempting")
  /\ UNCHANGED <<vars, armed, life, newDay, queue, factVars, publishVars, faults>>

Insert(d) ==
  /\ At(d, "write")
  /\ landed' = landed \cup Rows(d)
  /\ Goto(d, "confirm")
  /\ UNCHANGED <<vars, receipt, armed, life, newDay, queue, late, publishVars,
                 faults>>

(* A failed or timed out insert wrote any part of the rows, and the rest   *)
(* may still be under way.                                                 *)
InsertFails(d) ==
  /\ At(d, "write")
  /\ Faulty
  /\ \E now \in SUBSET Rows(d) :
       /\ landed' = landed \cup now
       /\ \E rest \in SUBSET (Rows(d) \ now) : late' = late \cup rest
  /\ Stop(d)
  /\ UNCHANGED <<vars, receipt, armed, life, newDay, queue, publishVars>>

Confirm(d) ==
  /\ At(d, "confirm")
  /\ Keep(d, "write", "done")
  /\ Goto(d, "commit")
  /\ UNCHANGED <<vars, armed, life, newDay, queue, factVars, publishVars, faults>>

Commit(d) ==
  /\ At(d, "commit")
  /\ Keep(d, "phase", "committing")
  /\ run' = [run EXCEPT ![d].at = "finish", ![d].held = TRUE]
  /\ UNCHANGED <<vars, armed, life, newDay, queue, factVars, publishVars, faults>>

(* finishDelivery, whose reply names the next delivery to wake. *)
Finish(d) ==
  /\ At(d, "finish")
  /\ FinishDelivery(d, PlannedDays(d), run[d].held)
  /\ run' = [run EXCEPT ![d].at = "handoff",
                        ![d].next = {n \in Deliveries : Earliest(n)'}]
  /\ UNCHANGED <<receipt, armed, life, newDay, queue, factVars, publishVars,
                 faults>>

Handoff(d) ==
  /\ At(d, "handoff")
  /\ queue' = queue \cup run[d].next
  /\ run' = [run EXCEPT ![d].at = "completed", ![d].next = {}]
  /\ UNCHANGED <<vars, receipt, armed, life, newDay, factVars, publishVars,
                 faults>>

Completed(d) ==
  /\ At(d, "completed")
  /\ Keep(d, "phase", "complete")
  /\ IF run[d].by = "alarm" THEN Goto(d, "clear") ELSE Stop(d)
  /\ UNCHANGED <<vars, armed, life, newDay, queue, factVars, publishVars, faults>>

-----------------------------------------------------------------------------
(* alarm: set at most 60 seconds ahead, so it fires again and again until  *)
(* the receipt is cleared; a completed receipt's fires when it expires     *)

DeliveryAlarm(d) ==
  /\ run[d] = Idle
  /\ armed[d]
  /\ \/ /\ receipt[d].phase = "complete" /\ Expired(d)
        /\ Start(d, "clear", "alarm")
        /\ UNCHANGED receipt
     \/ /\ receipt[d].phase = "committing" /\ Expired(d)
        /\ run' = [run EXCEPT ![d] = [Idle EXCEPT !.at = "finish", !.by = "alarm",
                                                  !.held = d \in Active]]
        /\ UNCHANGED receipt
     \/ /\ receipt[d].phase \in {"registered", "expired"} /\ Expired(d)
        /\ Start(d, "expire", "alarm")
        /\ Keep(d, "phase", "expired")
     \/ /\ receipt[d].phase = "committing" /\ ~Expired(d)
        /\ Start(d, "send", "alarm")
        /\ UNCHANGED receipt
     \/ /\ receipt[d].phase = "registered" /\ ~Expired(d)
        /\ Start(d, IF receipt[d].revision = 0 THEN "reserve" ELSE "next", "alarm")
        /\ UNCHANGED receipt
  /\ UNCHANGED <<vars, armed, life, newDay, queue, factVars, publishVars, faults>>

(* Only the delivery whose turn it is sends its own reference. *)
CheckTurn(d) ==
  /\ At(d, "next")
  /\ IF Earliest(d) THEN Goto(d, "send") ELSE Stop(d)
  /\ UNCHANGED <<vars, receipt, armed, life, newDay, queue, factVars,
                 publishVars, faults>>

(* A reservation the receipt does not know of is ended too; the variant    *)
(* leaves every reservation behind.                                        *)
LeaveReservation(d) == UNCHANGED vars
EndReservation(d) == IF d \in Active THEN Expire(d) ELSE UNCHANGED vars

ExpireReservation(d) ==
  /\ At(d, "expire")
  /\ EndReservation(d)
  /\ Goto(d, "clear")
  /\ UNCHANGED <<receipt, armed, life, newDay, queue, factVars, publishVars,
                 faults>>

ClearReceipt(d) ==
  /\ At(d, "clear")
  /\ receipt' = [receipt EXCEPT ![d] = NoReceipt]
  /\ armed' = [armed EXCEPT ![d] = FALSE]
  /\ Stop(d)
  /\ UNCHANGED <<vars, life, newDay, queue, factVars, publishVars, faults>>

-----------------------------------------------------------------------------
(* Faults *)

Abort(d) ==
  /\ run[d] # Idle
  /\ Faulty
  /\ Stop(d)
  /\ UNCHANGED <<vars, receipt, armed, life, newDay, queue, factVars, publishVars>>

LoseMessage(d) ==
  /\ d \in queue
  /\ Faulty
  /\ queue' = queue \ {d}
  /\ UNCHANGED <<vars, receipt, armed, life, newDay, run, factVars, publishVars>>

LandLate ==
  /\ \E r \in late : landed' = landed \cup {r} /\ late' = late \ {r}
  /\ UNCHANGED <<vars, agentVars, publishVars, faults>>

-----------------------------------------------------------------------------
(* The snapshot runner: the coordinator's RPCs around Copies that read the *)
(* fact tables and a manifest that publishes what they read                *)

(* snapshotCopyPlans: the captured days in order, MaxCopyDays at a time. *)
Rank(day) == Cardinality({e \in snapshotDays : e < day})
ChunkDays(chunk) == {day \in snapshotDays : Rank(day) \div MaxCopyDays = chunk}

RunCopy ==
  /\ intents # {}
  /\ copies = progress.nextCopy
  /\ copied' = copied \cup
       UNION {LiveOn(day) : day \in ChunkDays(copies \div TargetCount)}
  /\ copies' = copies + 1
  /\ UNCHANGED <<vars, agentVars, factVars, published, faults>>

PublishManifest ==
  /\ progress.manifest
  /\ published' = {r \in published : r.day \notin snapshotDays} \cup copied
  /\ UNCHANGED <<vars, agentVars, factVars, copies, copied, faults>>

ManifestPublished == {r \in published : r.day \in snapshotDays} = copied

ForgetCopies ==
  /\ copies' = 0 /\ copied' = {}
  /\ UNCHANGED published

RunnerCall(c) ==
  \/ /\ \/ Cardinality(dirty) > Cardinality(incomplete) /\ gate.phase = "open"
            /\ lastGeneration < MaxGeneration /\ RequestSnapshot
        \/ BeginSnapshot(c)
        \/ BeginEmptySnapshot
        \/ gate.lease = 0 /\ ClaimSnapshot(c)
        \/ RecordCopyIntent(c)
        \/ \E job \in Jobs : \/ AttachCopyJob(c, job)
                             \/ copies > progress.nextCopy /\ SettleCopyDone(c, job)
        \/ PrepareManifest(c)
        \/ ResumeFailed
     /\ UNCHANGED publishVars
  \/ /\ \/ \E job \in Jobs : copies > progress.nextCopy /\ SettleCopyError(c, job)
        \/ progress.nextCopy = 0 /\ FailSnapshot(c, FALSE)
        \/ progress.nextCopy < CopyCount /\ FailSnapshot(c, TRUE)
        \/ progress.manifest /\ ManifestPublished /\ FinishSnapshot(c)
     /\ ForgetCopies

SnapshotStep ==
  \/ \E c \in Claims : RunnerCall(c) /\ UNCHANGED <<agentVars, factVars, faults>>
  \/ RunCopy
  \/ PublishManifest

-----------------------------------------------------------------------------
(* A delivery's time starts running when it is first registered. *)
TimePasses ==
  /\ Tick
  /\ life' = [d \in Deliveries |->
               IF receipt[d] = NoReceipt THEN life[d] ELSE Down(life[d])]
  /\ UNCHANGED <<receipt, armed, newDay, queue, run, factVars, publishVars, faults>>

(* What a handler does once it runs. *)
Proceed(d) ==
  \/ Arm(d) \/ CallReserve(d) \/ KeepRevision(d) \/ Send(d)
  \/ BeginWrite(d) \/ Price(d) \/ StoreRows(d) \/ Plan(d)
  \/ CheckWrite(d) \/ Insert(d) \/ Confirm(d) \/ Commit(d)
  \/ Finish(d) \/ Handoff(d) \/ Completed(d)
  \/ CheckTurn(d) \/ ExpireReservation(d) \/ ClearReceipt(d)

AgentNext ==
  \/ \E d \in Deliveries :
       \/ Register(d) \/ Deliver(d) \/ Discard(d) \/ DeliveryAlarm(d)
       \/ Proceed(d)
       \/ InsertFails(d) \/ Abort(d) \/ LoseMessage(d)
  \/ LandLate
  \/ SnapshotStep
  \/ TimePasses

AgentSpec == AgentInit /\ [][AgentNext]_allVars

(* Handlers run on, the queue redelivers, alarms fire and the runner is    *)
(* woken up again; nothing is assumed of the clock, of ingest or of faults *)
(* beyond their number.  Turns are taken in order of arrival, so a waiting *)
(* message or alarm is not passed over for ever.                           *)
Fairness ==
  /\ \A d \in Deliveries : /\ WF_allVars(Proceed(d))
                           /\ SF_allVars(Deliver(d))
                           /\ SF_allVars(DeliveryAlarm(d))
  /\ WF_allVars(SnapshotStep)

FairAgentSpec == AgentSpec /\ Fairness

-----------------------------------------------------------------------------
(* Properties *)

(* One delivery writes at a time: between the permit of beginWrite and     *)
(* finishDelivery no other delivery of the organization is in that region, *)
(* whatever expired, crashed or was redelivered meanwhile.                 *)
Writing(d) == run[d].at \in {"price", "store", "plan", "insert", "write",
                             "confirm", "commit"}
SingleWriter == \A d, e \in Deliveries : Writing(d) /\ Writing(e) => d = e

(* No fact is lost on the way to its snapshot: a retained day whose facts  *)
(* differ from what is published is dirty, or reserved by a delivery that  *)
(* will mark it (planWrite before the first insert, complete and expire,   *)
(* finishSnapshot's removal of dirty days).                                *)
UnpublishedIsDirty ==
  \A day \in Window :
    LiveOn(day) # {r \in published : r.day = day}
      => day \in dirty \cup ActiveDays

(* A fact that moves between days is never published on two of them        *)
(* (tombstones, dirty-day links and whole components captured together),   *)
(* even when writes fail half-way, expire, or land late.                   *)
PublishedOnce == \A r, s \in published : r.day = s.day

(* Receipts keep their shape, and a delivery is committed only when every  *)
(* row it stored was written, so an ambiguous insert is never taken for a  *)
(* complete one (deliveryCategoryIsPresent before repeating or confirming).*)
CommittedIsWritten ==
  \A d \in Deliveries :
    receipt[d].phase \in {"committing", "complete"} => Rows(d) \subseteq landed
ReceiptsSound == AgentTypeOK /\ CommittedIsWritten

(* No reservation is left behind: one that the coordinator holds has an    *)
(* object with an open receipt and an alarm set, wherever a handler        *)
(* crashed or a reply was lost (the alarm is set before reserve is called  *)
(* and cleared only after expire or finishDelivery).  The coordinator ends *)
(* none by itself: one left behind would keep the write permit from all    *)
(* others and every snapshot waiting, for ever.                            *)
ReservationIsWatched ==
  \A d \in Active : armed[d] /\ receipt[d].phase \notin {"none", "complete"}

(* What the Copies of a generation read holds still until the generation   *)
(* ends, late rows included, so its days are published as of one moment.   *)
FactsHoldStill ==
  [][gate.phase = "snapshot" /\ gate'.phase = "snapshot"
       => \A day \in snapshotDays : LiveOn(day)' = LiveOn(day)]_allVars

(* A delivery whose object has set its alarm is completed or runs out of   *)
(* time, through lost replies, messages and wake-ups, crashes between any  *)
(* two steps, and snapshots that close the gate.                           *)
DeliverySettles ==
  \A d \in Deliveries :
    armed[d] ~> receipt[d].phase = "complete" \/ Expired(d)
=============================================================================
