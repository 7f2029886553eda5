# TLA+ models of trace-flow

Specifications, model-checking configurations and machine-checked proofs for
the parts of trace-flow whose correctness depends on the order in which
independent actors take their steps. Paths below are relative to the root of
the repository; `ac/` stands for `src/apps/agent-consumer/src/`.

## 1. The system

trace-flow records what LLM applications and coding agents do. Two pipelines
write analytics into Tinybird, a control plane in Convex holds organizations,
keys and billing, and several APIs read the result.

```
 collector (CLI, desktop)                 LLM application
      | batches of facts                        | requests
      v                                         v
 agent-ingest --stage body, register-->    proxy --trace message--> queue
      |                                         |                     |
      v                                         v                     v
 AgentDelivery (one object per delivery)   UsageTracker         TraceBatcher
      |  reserve, beginWrite, planWrite,                              |
      |  finishDelivery, expire                                       |
      v                                                               |
 AgentDeliveryCoordinator (one per organization)                      |
      ^  claims, Copy intents, checks                                 |
      |                                                               v
 snapshot runner --Copy jobs, manifest--> Tinybird <-------------- inserts
      ^
 SnapshotCapacity (two slots for everybody)
```

### Inventory

| Component | State it keeps | Operations | Talks to | What is hard | What makes it correct |
|---|---|---|---|---|---|
| **AgentDeliveryCoordinator** (`ac/agent-delivery-coordinator.ts` and its helpers) | SQLite: reservations in sequence order with their days, dirty and incomplete days, links between days, the gate, captured days, progress, Copy intents, check budgets, a failure, the erasure tombstone; an alarm | about 35 RPCs and an alarm | deliveries, runners, operators and the erasure workflow call it; it sends wake-ups to the snapshot queue | any caller at any time, retries and stale callers, leases and budgets running out, midnight | no write under a snapshot, no dirty day forgotten, linked days captured together, one Copy owed, erasure final |
| **Dirty-day graph** (`ac/agent-delivery-dirty-graph.ts`) | none of its own | choose the days of a snapshot, store links within limits | coordinator | connected components with budgets | returns whole complete components, newest first |
| **AgentDelivery** (`ac/agent-delivery.ts`, `delivery-*.ts`) | a receipt per delivery, an alarm, staged bodies in R2 | register, process, alarm | coordinator, queue, Tinybird, next delivery | crash between any two remote calls, lost replies, inserts of unknown outcome, expiry | one writer at a time, nothing written is forgotten, everything settles |
| **Snapshot runner** (`ac/snapshot-runner*.ts`, `snapshot-tinybird.ts`) | none; a claim id per attempt | one attempt per wake-up | coordinator, capacity, Tinybird Copy API | lease lapses, job ids lost, deadline of one attempt | a Copy is started once, a manifest publishes exactly what was copied |
| **SnapshotCapacity** (`ac/snapshot-capacity.ts`) | at most two slots | acquire, release, reap | coordinators | lost releases, coordinators moving on between two questions | a Copy runs only in a slot, a running generation keeps it, lost releases are reaped |
| **Organization erasure** (`ac/organization-erasure.ts`, `src/packages/convex/agentIngestionErasure.ts`) | a tombstone; workflow state in Convex | begin, settle, abandon, delete | coordinator, R2, Tinybird | admitted writers still running | no Copy runs once the deletion goes on, exactly the organization's dead letters are swept |
| **Agent ingest** (`src/apps/agent-ingest/src/handler.ts`) | none; staged bodies | validate, redact, stage, register, send | AgentDelivery, Convex ownership | partial batches | an accepted batch is registered |
| **TraceBatcher** (`src/apps/proxy-consumer/src/batcher.ts`, `src/packages/tinybird-client/src/recovery.ts`) | buffered traces with a sent mark per target, recovery records, alarm | add, flush, alarm, reconcile | Tinybird, operators | uncertain inserts, restart with an insert in flight, two targets | not sent twice, not left asleep |
| **Usage tracker** (`src/apps/proxy/src/usage-*.ts`, `src/packages/convex/billing/usage.ts`) | period and entitlement, counters, an outbox of period totals, an alarm | check, alarm push | proxy, Convex | lagging configurations, estimated periods, pushes racing new units, lost answers | no unit lost, none claimed twice, none given away beyond the entitlement |
| **Delivery sweep** (`src/apps/proxy/src/delivery-sweep.ts`) | a checkpoint | enqueue stored objects page by page | R2, queue | crash between a page and its checkpoint | every object is enqueued eventually |
| **Collector** (`src/packages/collector-sync`) | cursors per file in SQLite | discover, parse, drain | agent-ingest | crash after upload, out-of-order splits | cursors never pass unsent facts |
| **Proxy**, **trace row building**, **parsers** | none | pure or streaming conversion | | | by value, covered by tests |
| **Control plane** (`src/packages/convex`) | database | serializable functions | everything | webhooks repeated or out of order | later modules |
| **Read APIs, MCP, web, emails** | caches | queries | Tinybird, Convex | | not concurrent |

The agent pipeline up to a published snapshot is the program's most delicate
part: it is a distributed protocol of several durable objects around a store
without transactions (Tinybird), and its comments are mostly about lost replies
and races. It is modelled first.

`PROJECT.json` lists every component with its status, the hazards with the line
where each one bites, and the source lines of every definition.

## 2. Modules

| Module | What it is |
|---|---|
| `SnapshotLifecycle` | what a coordinator promises about its generations and Copies, abstractly |
| `DirtyDayGraph` | links, components and the selection of days, as definitions |
| `SelectSnapshotDays` | the search and the greedy loop of `selectSnapshotDirtyDays`, step by step |
| `SelectSnapshotDays_proofs` | that there is exactly one selection, and that the search and the loop compute it |
| `AgentDeliveryCoordinator` | the coordinator; one action per RPC, alarm and passing of time |
| `CoordinatorLifecycle` | the coordinator as an implementation of `SnapshotLifecycle` |
| `AgentDeliveryCoordinator_proofs` | the coordinator's types, inductive invariant, all safety properties and that refinement proved |
| `AgentDelivery` | deliveries, queue, Tinybird, a snapshot runner and faults composed with the coordinator |
| `AgentDelivery_proofs` | the safety of the composition proved |
| `SnapshotRunner` | snapshot runs call by call, composed with the coordinator, the snapshot queue and Copy jobs |
| `SnapshotRunner_proofs` | all its safety proved, the runs' alarm included; with the posts of `OrganizationErasure`, that an erased organization stays quiet |
| `SnapshotCapacity` | the two slots, composed with one `SnapshotLifecycle` per organization |
| `SnapshotCapacity_proofs` | slots proved sound and kept |
| `OrganizationErasure` | the deletion's posts to the consumer, composed with `SnapshotRunner` |
| `DeadLetterErasure` | the shared store of dead letters during a deletion |
| `DeadLetterErasure_proofs` | the sweep proved exact |
| `UsageTracker` | counting units, their outbox and the control plane's ledger |
| `UsageTracker_proofs` | its units proved to be kept, claimed once and within the entitlement |
| `TraceBatcher` | one shard of the proxy consumer's batcher with its queue, Tinybird, restarts and the operator |
| `TraceBatcher_proofs` | the batcher proved to lose nothing, to store nothing twice and never to fall asleep |
| `MCSelectSnapshotDays`, `MCCoordinator`, `MCAgentDelivery`, `MCSnapshotRunner`, `MCSnapshotCapacity`, `MCOrganizationErasure`, `MCDeadLetterErasure`, `MCTraceBatcher`, `MCUsageTracker` | instances for TLC |

### AgentDeliveryCoordinator

A durable object runs one RPC at a time, and every RPC but `scheduleSnapshot`,
the continuation and `resumeSnapshot` is synchronous, so each RPC is one action.
Its callers are not modelled: any RPC may be called at any time with any
argument of the right kind. Lost replies, retries, duplicated calls and runners
that wake up after their lease lapsed are all behaviours of that environment.

* A variable stands for each table (`sequence`, `days`, `ttl` for
  `active_deliveries`; `dirty`, `incomplete`, `links`; `gate`; `snapshotDays`;
  `progress`; `intents`; `check`; `failure`; `erasing`) and for the two storage
  keys that decide about wake-ups (`alarm`, `wake`). `wakeups` is the snapshot
  queue, reduced to whether it holds a message.
* Deadlines are kept as the time that is left. `Tick` takes one unit from all of
  them at once; since durations are constants and everything counts down at the
  same rate, the order of deadlines is that of the code.
* Days are integers. The calendar advances by `Midnight`, independently of
  `Tick`: a delivery may live over a midnight.
* `Housekeep` (recovering a lapsed drain, pruning) runs in transactions of its
  own before many RPCs and stays even if the RPC then throws. An RPC that throws
  is therefore `GetStats`, which does just that, or nothing.
* `FinishDelivery` omits the branch that throws when the completed days differ
  from the plan: the delivery's receipt and the coordinator hold the same plan
  whenever it is called.
* Argument validation, hashes, tracing producers, timing rows and messages are
  left out; the link table's capacity and the dirty-day limit are kept.

### SnapshotLifecycle and CoordinatorLifecycle

Everything around a coordinator - runners, the capacity object, the erasure -
relies on the same few promises: generations are numbered upwards and run one
at a time, at most one Copy is owed, a generation ends only when none is and
never comes back, and an organization being erased begins nothing.
`SnapshotLifecycle` is this contract, in five fields and six kinds of steps.
`CoordinatorLifecycle` reads the five fields off the coordinator's tables
(`LifecycleSeen`, what `getStats` and its siblings answer) and states that every
step of the coordinator, whoever calls it, is a step of the contract or a
stutter (`ImplementsLifecycle`). `SnapshotCapacity` is then checked against the
contract instead of the whole coordinator.

### SelectSnapshotDays and DirtyDayGraph

`beginSnapshot` selects days inside one transaction. The coordinator model uses
a definition of the result (`IsSelection` over connected components);
`SelectSnapshotDays` models the stack, the visited set and the loop of the code,
and the run `select_days` shows that they agree for every graph, every set of
dirty days and every set of incomplete days on four days; section 4 proves it for
any finite set of days. The code's order of visiting is left open.

### AgentDelivery

Each delivery is a receipt, an alarm flag, a life time and the handler it is
executing. `exclusive` makes handlers of one object take turns. A handler is a
chain of places; between two places lies one remote call or one write of the
receipt:

```
register:  arm -> reserve -> keep -> send
process:   begin -> price -> store -> plan -> insert -> write -> confirm
             -> commit -> finish -> handoff -> completed
alarm:     (reserve -> keep ->) next -> send | finish ... -> clear | expire -> clear
```

`Abort` ends a handler between any two places; together with the call before it,
it is also the lost reply, and the crash. `InsertFails` writes any part of the
rows and leaves any part of the rest to land later, even after the delivery
expired (`LandLate`). `LoseMessage` is a message that went to the dead letter
queue. All deliveries carry the same fact, each on a day of its own choice, so
a later one is a correction that may move the fact: `Rows` has the tombstone and
`PlannedLinks` the link of the two days. `IdentityDay` and `LiveOn` are what the
SQL behind `lookupFactIdentityDays` and the snapshot Copies answer.

The runner is the sequence of coordinator calls with a Copy that reads the
captured days (`RunCopy`, chunk by chunk) and a manifest that publishes them
(`PublishManifest`). It may fail or lose a Copy anywhere the code lets it.

Abstractions: the six fact categories are one, staged bodies always exist,
`storeDeliveryRows` and the plan in the receipt are one step, calls are executed
or lost before their caller goes on, and a delivery's life in the coordinator
and in its own receipt is the same clock. Erasure, repair of incomplete days
and midnight are not part of the composition (they are in the coordinator).

### SnapshotRunner

`runAgentSnapshot` and `continueAgentSnapshot` are one long chain of remote
calls; each call is a step and `run[c].at` the place of the run with claim `c`.
Two runs overlap freely: claims lapse while a run stalls, messages are doubled
or lost, every call may fail before or after it was executed (`Faulty`), and a
run may crash at each place. `jobs` holds what Tinybird accepted, whether or not
the runner heard of it, and `manifests` the rows that publish. `caught` says
that the run is in its catch block; `branch` where a shared call returns to.
A call whose reply is ignored and that changes nothing is not a step. The
operator resolves failures and settles a Copy as never submitted only if it
never was and no run is about to submit it (`NeverSubmitted`). Capacity is reduced to
its answer.

Deliveries are reduced to their reservations, days and one call, `finishDelivery`,
which commits `complete` and then awaits `scheduleSnapshot`. It may stop or throw
in between (`Complete`), and its answer may be lost; `owing` is the set of
deliveries that have to call again, then without a reservation. Since a durable
object takes no other event while it awaits its own storage, nothing comes between
the two parts but such a stop; and a `snapshot_wake_at_ms` that was stored without
its alarm is overwritten by whoever sets the alarm next. `resumeSnapshot` is treated
alike: `ResumeInterrupted` stops between clearing the checks and scheduling. For
a failed generation the code sets the alarm before it clears the failure, so there
a stop does no harm. `repaired` is a history variable: an operator has repaired
incomplete days, or a resume was interrupted, and no delivery has scheduled a
snapshot since.

Time passes while no run is under way: a run has four minutes, a lease five, and
one that takes longer has stalled, which counts as a fault.

### SnapshotCapacity

`acquire` and `release` run one at a time, but every question to a coordinator
is an await, and the coordinators go on in between: each question is a step of
`op`. A run may ask for any generation that ever began. Releases may never be
sent, the object may be interrupted at each await (`Interrupted`) and keeps what
it has deleted. `over` is a history variable: the slots whose generation was
over when the call began.

### OrganizationErasure and DeadLetterErasure

`deleteOrgDataImpl` posts until the consumer answers that ingestion is drained.
`OrganizationErasure` adds the post to `SnapshotRunner`, call by call: close
ingestion, look for the Copy that is owed, attach and settle it, abandon the
generation, read the state again. A post whose reply is lost fails and is
started again. What follows the drain is in `DeadLetterErasure`, where several
organizations share one store: the consumer preserves messages, asking before
and after whether the organization is being erased, while the deletion sweeps
pages of ids and then pages of stored bodies. The consumer asks only about bodies
that are agent ingest messages (`SeenErased`); the others (`OffContract`) are always
kept and acknowledged, although the sweep may attribute them to an organization.

The models make some limits of the code visible that no property denies:

* A run that has passed `prepareSnapshotManifest` may still publish its manifest
  after the erasure is ready (`ac/snapshot-runner.ts:256`), so `ErasedIsQuiet` speaks
  of Copies only.
* A dead letter that is preserved after the sweep, and whose second check then
  fails, stays, because the redelivered message is excluded and acknowledged
  without discarding the record (`ac/index.ts:115`). So does one off the contract
  that is preserved after the sweep (`ac/index.ts:110`). `SweepIsExact` therefore
  speaks of what was stored before the erasure began.
* A resume that stops between clearing the checks and scheduling
  (`ac/agent-delivery-coordinator.ts:520`) leaves the gate closed without an alarm,
  and resuming again throws, because nothing is blocked any more. `WorkHasAlarm`,
  `GenerationEnds` and `DaysArePublished` exempt the time after it.
* After the repair of incomplete days (`ac/agent-delivery-coordinator.ts:296`) the days
  wait for the next delivery; the same properties exempt this.
* An older component of days that is larger than the limit is not published while
  a newer complete one exists (`ac/agent-delivery-dirty-graph.ts:103`). `NewestIsTaken`
  says that the newest is taken and that what was left behind did not fit.

### UsageTracker

The check (`UsagePeriod.check`) is one transaction of many steps. Each step is an
operator from the three tables to the set of possible results, and a step that
throws has none, so that composing them (`Decided`) rolls the transaction back
as a whole. A request carries any of the KV's configurations, however old, and
the clock rolls the period forward where none fits. The alarm handler is a place
again: `AlarmFires` stages and reads the page (`Pending`, the earliest periods;
`push` holds the snapshots still to be sent as a set, sent in the order of their
starts), `Send` executes `recordUsage`,
`Confirm` clears what was pushed; checks go on at every place, a push may fail
before, after or while it is executed (`late`), and the object may be interrupted
between storing a check and setting its alarm (`CheckUnscheduled`). `counted`
and `estimates` are history variables: what was admitted in each period, and the
starts of estimates that were corrected later, whose totals may stay in the
ledger. Invalid configurations (rejected with an error), the proxy's cache of
denied answers and automatic top-ups are left out.

### TraceBatcher

The second pipeline is independent of the first. `flush` in
`src/apps/proxy-consumer/src/batcher.ts` runs over many awaits while calls,
alarms and reconciliations come in, so its place is a variable: `at = "parse"`
while a batch is normalized, `"wait"` while Tinybird answers, and a member of
`tails` while the log is shipped, when the flush no longer counts as in progress
but has yet to reschedule. Everything between two such awaits is one action,
with the `finally` block inside `Advance`. Awaits of the object's own storage
close its input gate and are not places.

* `rows` keeps deleted rows with `gone`, so that a row's id is its place.
  `records` holds the open insert records; resolved ones are dropped. Tables,
  `alarm` and `overdue` (which stands for the stored flush times) survive
  `Crash`; `memory` does not. A crash while an alarm handler runs leaves the
  alarm set, because the platform runs a failed handler again.
* Halving a batch pushes both halves on `stack`; the recursive calls return in
  the order the stack is emptied, and only whether a part was refused for now
  (`retry`) matters to the caller.
* `InsertConfirmed`, `InsertRefusedForNow`, `InsertTooLarge`, `InsertRejected`
  and `InsertUncertain` are the classes of `classifyTinybirdInsertFailure`. An
  unanswered insert goes to `late` and may store any of its rows at any time.
* `overdue` replaces clock arithmetic: without it the alarm may find itself early
  or late, with it only late.
* `Construct` is the constructor of the version deployed at that moment, which may
  write to other targets than the one before.
* The operator follows `docs/guides/trace-delivery-recovery.md`: waits until an
  insert is settled, looks its rows up, adds missing ones before
  `confirm-written` and answers `confirm-not-written` only if none is there.
* A call in which some messages fail to be staged is the call without them. The
  queue may bring a message again whenever no call is holding it; `Return` may
  fail to acknowledge. The retry limit of the queue is not modelled (five failed
  deliveries move a message to the dead letters).

## 3. Runs

| Run | Instance | What it shows |
|---|---|---|
| `select_days` | four days, at most two captured | the code's search and its loop return the one selection; the newest complete component is always taken, the limit exceeded by it alone, and what is left behind would not have fitted |
| `coordinator` | 2 deliveries, 2 runners, 2 Copy jobs, 3 calendar days with a window of 2, 2 generations, chunks of one day | four invariants and two action properties of the coordinator under any callers, and that it implements `SnapshotLifecycle` |
| `deliveries` | 2 deliveries, 1 runner claim, 2 days, 2 generations, 1 fault | single writer, nothing unpublished is forgotten, a moved fact is published once, receipts tell the truth, reservations have an object that will be woken up, facts hold still under Copies |
| `deliveries_settle` | 2 deliveries, 1 day, 1 generation, 1 fault | every armed delivery settles |
| `snapshot_runner` | 2 runs, 1 delivery, 2 Copy jobs, 3 calendar days with a window of 2, 2 generations, 2 faults | no Copy is submitted twice or given up while it may run, manifests name only copied days, only published days are forgotten, a run that was taken over moves nothing of the generation while its successor's plan and position stay true, and work has an alarm or a delivery that will set one |
| `generations_end` | 2 runs, 1 delivery, 1 day, 3 generations, 1 fault | generations end or wait for the operator; days that can be published are published or the operator is needed, with or without an alarm |
| `capacity` | 3 organizations, 2 slots, 2 generations each | a Copy runs only in a slot, running generations keep theirs, lost releases never cause a refusal |
| `erasure` | 2 runs, 1 delivery, 1 Copy job, 1 generation, 1 fault | when the erasure is ready no Copy runs or is about to; it becomes ready unless a Copy of unknown fate is owed |
| `dead_letter_erasure` | 4 letters of 2 organizations, 2 bodies, pages of one, 2 faults | the sweep takes everything it should and nothing else |
| `trace_batcher` | 2 messages with 3 traces (one shared, one changed, one that cannot be normalized), calls with one or both, two write modes, batches of 2 rows or 7 bytes, 1 fault, 1 restart | acknowledged traces are kept, stored at most once per datasource; records tell the truth and are disjoint; work has a wake-up |
| `trace_batcher_drains` | 2 messages of one trace, one of them unsendable, two targets, 1 fault, 1 restart | every message is acknowledged and no sendable trace waits for ever |
| `usage` | 3 configurations (none, a short period, a period across estimates), an outbox of 3 periods pushed in pages of 2, 5 points in time, 1 fault | units are kept and claimed once, within the entitlement, and reach the control plane |

Why these bounds are enough for the interesting cases: two deliveries contend
for the permit and one is behind the other; two runners make one of them stale;
two jobs make a receipt ambiguous; three days with a window of two let a
captured, a linked and a pruned day coexist; chunks of one day with two captured
days give two Copies per generation, so cursors move within a generation; two
generations let a record of the first meet the second. Every duration is one
unit, so that every deadline may lapse between any two calls. `MaxSequence = 3`
and `MaxGeneration = 2` stand for the safe-integer limits; the code refuses at
them too. In the composition `MaxGeneration` also bounds the number of
snapshots a runner requests, and `MaxFaults` the aborted handlers, failed inserts
and lost messages together.

For the batcher: two messages that share a key make duplicates and repairs; three
rows with batches of two leave rows behind a full batch; a payload limit of 7
with rows of 2 and 3 splits by size before and after selection; one restart that
may change the mode covers rows sent to one target only. A single fault is an
unanswered insert, a refusal or a lost acknowledgement at any place, and the row
that cannot be normalized adds a record of its own, so that two records meet.
`written` counts to 2, which is once too often.

For the runner: two runs make each of them stale in turn, and two generations let a
late submission of the first meet the second; two faults are a lost reply and a
crash, or a stall in the middle of another run's recovery. The liveness run has
three generations, so that days that became dirty again while a snapshot ran
have one more to be published in. For capacity: three organizations for two
slots make one wait and reap, and a second generation makes the first one's
release late. For the sweep: pages of one record force every page boundary
between the two organizations' letters, and a retry restarts from the first
page. For the usage tracker: period lengths of two (the estimate), one and three
that overlap give corrections, rollovers over several periods at once, a
configuration that reaches back over closed periods and a change of the end; three
places in the outbox fill up, with one period behind the page of two; the entitlement of one
unit and one addon is used up in every run of the clock.

Symmetry is used in safety runs only, never in a run with a liveness property:
deliveries, claims, organizations, bodies, and in `snapshot_runner` also Copy jobs.
Letters are not permuted, since two of them are the erased organization's and two
are off the contract.

### Fairness

`DeliverySettles` assumes: a handler that runs takes its next step unless it
aborts (`WF` of `Proceed`); a message in the queue is delivered again and again
until acknowledged, and alarms fire again and again (`SF`, because other handlers
of the same object keep interrupting them; `exclusive` is a first-come
first-served chain of promises and the alarm handler rearms before it does
anything that can fail); the snapshot runner is woken up again (`WF`, the
coordinator keeps a recovery alarm). The clock is not fair: a delivery must
complete or expire, and it may not wait for its expiry to be made to happen.
Ingest is not fair: it may never call register again. The property is stated for
deliveries whose alarm is set, since before that no reply was given to ingest.

`RunnerFairness` is like it: a run takes its next step, messages are delivered,
alarms fire, Copy jobs end, and deliveries that hold a reservation or still owe a
snapshot go on (their own alarms and their messages repeat `finishDelivery`). Time passes with `SF`: the queue
retries a message only after a minute (`retry` delays), so leases and budgets run
out between its deliveries although the run interrupts the waiting again and
again. The operator and midnight are not fair. `FairErasureSpec` adds that a
post goes on, and that a deletion that has begun is started again after a failed
post. In the usage tracker requests go on arriving (the only thing that sets an
alarm after `CheckUnscheduled`), alarms fire and a push gets an answer.

For the batcher `BatcherFairness` asks for weak fairness of each step of a flush
(Tinybird inserts have a timeout), of the log request, the alarm, time, the
restart (the cron of `runTraceBatcherHealthCheck` calls every shard and so
constructs it), the answer to a call, and the redelivery of each message. The
operator and the health check's forced flush need not act. Each condition is
written as `[]<>~G \/ []<><<A>>_v` with `G` the guard of `A`, because TLC is very
slow to evaluate `ENABLED` of these actions. `G` and `ENABLED <<A>>_v` agree in
every reachable state; for `Alarm` this rests on `CountAgrees`: a positive count
means that there is a batch to send.

### Properties

Coordinator: `StableInput`, `CaptureSafe` (captured days are dirty, complete and
closed under links), `TablesAgree` (intents, checks, failures and incomplete days
belong to what is going on), `DirtyDaySurvives`, `ErasureReadyIsFinal`, `ImplementsLifecycle`. Deliveries: `SingleWriter`,
`UnpublishedIsDirty`, `PublishedOnce`, `ReceiptsSound`, `ReservationIsWatched`,
`FactsHoldStill`, `DeliverySettles`. Selection: `ResultIsTheSelection`,
`NewestIsTaken`. Runs: `CopiesSound`, `PublishedIsCopied`, `OwnerIsCurrent`,
`GenerationIsFenced`, `WorkHasAlarm`, `ForgottenIsPublished`, `GenerationEnds`, `DaysArePublished`. Capacity:
`CopyHasSlot`, `SlotsSound`, `SlotsOutliveGenerations`. Erasure:
`ErasedIsQuiet`, `ErasureDrains`, `SweepIsExact`. Batcher: `AckedIsKept`,
`WrittenOnce`, `RecordsSound`, `WorkHasWaker`, `ShardDrains`. Usage:
`UsageIsKept`, `WithinEntitlement`, `UsageIsReported`. Each is explained where it is defined. The
definitions marked "variant" next to the modelled ones are small plausible
mistakes (a dropped guard, a missing reset), each of which breaks one property.

## 4. Proofs

`AgentDeliveryCoordinator_proofs` proves `Spec => []TypeOK` and every other
safety property of the run `coordinator`, for all values of the constants that satisfy
`ConstantsAssumption` (positive durations, a retention window within the
calendar, distinguished null values) and `MaxSnapshotDaysAssumption`.

`TypeOK` is not inductive on its own: that a failure or a check belongs to a
generation that exists, and that budgets are never overspent, needs the typed
state to be related. `TypeInv` adds these relations.
The inductive invariant `IInv` is `TypeInv` with the seven
state invariants together, because they need one another (`CaptureSafe` and
`TablesAgree` are conjunctions of six of them): `StableInput` is what
keeps a captured day from becoming incomplete (only `expire` marks days
incomplete, and it needs a reservation), so `CaptureSound` rests on it;
`CaptureLinkClosed` rests on `StableInput` since only a writer adds links;
`OneIntentAtCursor` and `CheckAtCursor` rest on the gate's phase and cursor, and
`FailureIsIdle` on both. The proof has one lemma per group of actions
(deliveries, claims, Copies, operators, erasure, schedule, time) with one step
per action under it. The graph lemmas (`LatestExists`, `NewestExists`,
`ComponentClosed`, `SelectionNonEmpty`) say that a selection is made of whole
components and is not empty when a complete component exists.

The action properties `DirtyDaySurvives` and `ErasureReadyIsFinal` are proved from the same invariant, action by action.

The module also proves the refinement `ImplementsLifecycle`. The
contract knows neither days nor phases; `LifecycleFacts` says what `IInv` gives
for it (a generation is active exactly in the snapshot phase, and there is never
more than one Copy owed, so that settling it leaves none), and each action is
then one set of `SnapshotLifecycle!Steps` or a stutter.

All of this is proved of a coordinator whose callers may call anything. The
compositions restrict the callers but add variables, so their behaviours are not
literally behaviours of `Spec`. `StatePromises` (`StableInput`, `CaptureSafe`,
`TablesAgree`) and `StepPromises` (the two action properties and a step of the
contract) collect what the coordinator owes, and three theorems carry it over:
`DeliveriesKeepTheCoordinator`, `RunsKeepTheCoordinator` and
`ErasureKeepsTheCoordinator`. Their content is that each step of the composition
calls the coordinator as it is, at most once (`AgentStepIsNext`, `CallStep`), or
moves only the queue's message; the last case needs an argument of its own,
because losing or doubling a wake-up is no step of the coordinator
(`WakeupsKeepPromises`). Nothing is erased in the first two compositions, so the
finality of an erasure is stated for `ErasureSpec` only.

`SelectSnapshotDays_proofs` is about the graph: which days a snapshot captures.
`OneSelection` says of the definition that, for every finite set of days, every
set of incomplete days and every relation of links, exactly one selection exists,
so that `BeginSnapshot`'s "some selection" is neither impossible nor a choice. A
component is described without paths, as the least link-closed set around a day
(`ComponentClosed`, `ComponentLeast`); components partition the dirty days and their
latest days order them (`LatestTellsApart`). Two selections are equal because a
newest component on which they differ would have been judged by the same newer
ones (`ChosenUnique`); one exists because, among the sets of components that have been
passed newest first and for which a choice exists, a largest one is everything
(`ChosenExists`). Neither needs an induction over the graph.
`SearchComputesTheSelection` and `NewestDaysAreTaken` are then the two invariants of
the run. `SearchSound` is the invariant of the stack: what the search has finished is
link-closed, the days it has popped have all their neighbours among the current
ones, and the current ones belong to one component. So an empty stack means a whole
component. `LoopSound` is that of the greedy loop: what it has passed is newer than
what is left, and what it took is the choice among what it passed. Assumed are
only a finite set of integers as days (`DaysAssumption`) and a positive limit
(`MaxSnapshotDaysAssumption`).

`SnapshotCapacity_proofs` proves `CopyHasSlot`, `SlotsSound` and
`SlotsOutliveGenerations` for any organizations, slots and generations. None of
them is inductive: that a slot is freed only for a generation that is over
depends on what the call in progress was told and on what cannot change behind
its back. `CallSound` says, for every await of `acquire` and `release`, what that
is; `OrgSound` and `ResidentsBegan` that an organization's last generation only
grows and that no slot belongs to a generation that is still to come.

`SnapshotRunner_proofs` proves every safety property of the run `snapshot_runner`, for
any number of overlapping runs, jobs, days and faults. `RunnerInv` is the
coordinator's `IInv` (every step of the composition is a step of the coordinator
or moves only the queue's message, `CoordinatorStep`), the types, and `CopyInv`:

* `PlanSound` (what `OwnerIsCurrent` says): as long as a run is the owner its plan is
  the generation's, and at every place where it relies on its position that is the
  cursor. A run that lost
  its claim may believe anything; what it then calls is refused or harmless.
* `StartSound` and `OneStarter`: a run about to submit has recorded an intent
  whose Copy no job has, and there is one such run. `Spent` says why a late
  refusal (`reject`) is harmless: its Copy is behind the cursor or of a
  generation that ended.
* `FoundSound`: the job a run is about to attach or settle exists, belongs to its
  Copy and has the status that was read, although the run read it some steps ago.
* `PublishSound`: a run that comes to publish has all of its Copies done; this
  is about the run's own plan, because it may publish after it lost its claim.
* `JobsSound`: ids are unique, a working job is owed, and each job is known by an
  intent or is spent. From the last, `recordSnapshotCopyIntent` for a fresh key
  never meets an existing job, which is what `OneJobPerKey` rests on.
* `CursorCopied`: everything behind the cursor is done.

Within a generation the target and attempt of a key give back its place in the
order of Copies (`KeyInjective`), so a key behind the cursor is not the cursor's. Steps are grouped by what they do to this invariant rather than by
call: those that leave generation, cursor and intents alone (`QuietStep`), those
that keep the cursor (`KeptStep`), and the beginning, recording, advancing and
ending of a generation; each call is shown to be of one of these kinds.

`GenerationIsFenced` follows from `RunnerInv` call by call: each RPC that moves the
generation's records asks for the claim and a running lease, so the run that calls is
the one that holds the claim; the others either leave the records alone or are time,
a claim that passes on, or the operator once the looks ran out.

`WorkHasAlarm` rests on an invariant of its own, `AlarmInv`, on top of `RunnerInv`.
The alarm is never switched off while there is work, so the hard steps are those
that turn idleness into work without setting it. An interrupted `finishDelivery` does,
and stays in `owing` until it has scheduled. Dropping a check record that had
run out of looks would unblock a
generation that has no alarm. `WaitSound` says
that a run that has looked was not blocked when it did and still is not
(`SeenPlaces`), and that a run on its way to look still owes the Copy; `CheckOwed`
and `CursorBound` say that looks are counted for a Copy that is owed or for the
manifest, and `ReservedHaveDays` that a delivery that ends had days. The proof found
that the first form of the type invariant was not inductive: a run at rest had a
branch outside the set of branches.

The last part of `SnapshotRunner_proofs` adds the posts of the deletion, and proves
`ErasedIsQuiet` and that an erasure keeps `CopiesSound` and `PublishedIsCopied`. What it adds to `RunnerInv` is `PostSound`: the
job a post has found is still the job of the Copy it listed, and the end it has
seen is still its end, although runs may have attached, settled or failed the Copy
meanwhile (`RunnerJobsGo`: jobs stay and only ever end). So a Copy is settled on
behalf of the runs only when its job has ended, and `RunningCopyIsOwed` survives.
That the erased organization is quiet is then `RunningCopyIsOwed` and `StartSound`
with no intent left.

`DeadLetterErasure_proofs` proves `SweepIsExact` for any letters and page sizes.
`CursorSound` is the core: whatever was stored before the erasure began and is
still there has an id beyond the cursor. It rests on `IdsSound`, because ids
that repeated would let a letter slip in behind the cursor, and on `PageFacts`: a
page holds every record between two cursors.

`AgentDelivery_proofs` proves every safety property of the run `deliveries`, for
any number of deliveries, days, faults, generations and Copy chunks. `AgentIInv`
is built in layers, each kept by every step given those below:

* `Core`: the coordinator's `IInv`, which holds in the composition because every
  step of it is a step of the coordinator or leaves it alone (`AgentStepIsNext`),
  and `Bookkeeping`: what a handler may rely on at each place, although an alarm
  or a second handler may have ended its reservation (`HandlerSound`), what a
  receipt says about the reservation and the rows (`ReceiptSound`), and which days
  a reservation covers (`DaysSound`). `SingleWriter` and `ReceiptsSound` follow:
  a place between the permit and the end implies the earliest sequence.
* `Facts`: which rows there are. No row is newer than a reservation, and rows of
  the same revision that are no tombstones are one row (`RowsSound`); a row that
  may still land is there already, or its day is incomplete or reserved by the
  delivery that wrote it (`LateHeld`); a day on which the fact still shows though
  it moved on is held back (`StaleIsHeld`), which rests on the delivery having
  been priced on the latest day (`PricedOnLatest`). `FactsHoldStill` follows from
  `LateHeld` and `StableInput`.
* `CopiesSound`: what the Copies read so far is what shows on the days of their
  chunks. `AllCopied` is the arithmetic of the chunks: when the cursor reached
  the end, each captured day belongs to a Copy that ran.
* `PublishedConnected`: every place where the fact may be found next is connected
  by links to where it is published. This is why linking days and capturing whole
  components publishes a fact once: if it was published outside the captured
  days and is copied inside them, a link would leave the captured days.
  Connectedness is stated without paths, over sets that links do not leave, so
  that no induction is needed.

`UnpublishedIsDirty` and `PublishedOnce` are the last two conjuncts.
`ReservationIsWatched` has an invariant of its own on top of `Core`, `WatchSound`: an
object that is about to ask for a reservation has set its alarm and opened its
receipt, and one without a phase is empty. The hard steps are the ones that take
alarm and receipt away (`ClearReceipt`, `Completed`), where `HandlerSound` knows that
the reservation is gone. Each layer
was checked as an invariant of the run `deliveries` before it was proved, and
the proofs found that the model's `Plan` and `CallReserve` had no step for a
refusal at the dirty-day, link and sequence limits; they have one now.

`TraceBatcher_proofs` proves all safety properties of the batcher for any messages,
modes, sizes and bounds: `RecordsTheorem` (`RecordsSound`, the types among it, and
`WrittenOnce`), `AckedTheorem` and `WakerTheorem`. `BatcherAssumption` only types the
constants and asks for a write mode and for modes that are not empty.

The inductive invariant is `ShardInv`:

* `TablesSound` joins rows, records, what is stored, late inserts and the ledger.
  `WrittenOnce` is not inductive: an insert that is late may still store rows, so
  `LateSound` says that the rows it may store are not stored yet and are those of an
  open record, which no row and target has two of; `UnsentSound`, that an unsent row
  without an open record is not stored. `KeysSound` gives a key one row
  and `GoneSound` lets a row go only when it was sent everywhere. All this is stated of
  tables `t`, `r`, `w`, `l`, `g`, because one action marks, deletes and records in turn.
* `FlushSound` is about the rows a flush selected before its awaits: all parts it
  still holds (`Held`) are distinct and can be sent, and while Tinybird is asked the
  rows of the part in question have its open record, are not stored at the target and
  are expected by no late insert. It is kept by splitting (`SplitRowsByBytes`) and by halving
  (`HalvesHeld`), and by the operator, who may only resolve blocked records.
* `QueueSound` gives `AckedIsKept`: what is processed is kept, what is acknowledged
  is processed. `MemoryTyped`, `RestTyped` and `Idle` are the rest of the state.

Staging and splitting are functions on the length of their input. The library's
induction takes an operator as parameter, so what holds at every place of such a
function is shown from the first place where it fails (`Climb`, from
`SmallestExists`), and that the function exists at all, in the same way
(`RecursionExists`).

`WorkHasWaker` speaks of the tables and the code decides on its cached count, so a
second invariant, `Bookkeeping`, joins them: the count is exact between flushes
(`CountAgrees`), a positive count has an alarm or a flush about to reschedule
(`CountHasWaker`), and the flag never outlives the alarm (`FlagHasAlarm`), without
which the early return of `scheduleFlush` would break `CountHasWaker`. The hard steps
are the end of a flush (`AdvanceKeepsBooks`), where the alarm is deleted, and
`ConfirmWritten`, which recounts without setting an alarm: `ConfirmedRowsLeave`
shows that it never makes a row sendable. `ShardIsTyped` supplies the types.

`UsageTracker_proofs` proves `UsageIsKept` and `WithinEntitlement` for any
configurations, clock, page size and outbox limit, and for lost, late and repeated
pushes. `UsageAssumption` only types the configurations (a period that is known
ends after it starts) and asks for at least one.

* A check runs several steps in one transaction, so the invariant is stated of
  tables `t`, of the units `u` counted per period and of the corrected starts
  `e`. Staging, moving, rolling, correcting, a new end, the entitlement and counting
  each keep it (`StageSound` to `CountSound`).
* `CurrentSound` says that the counters are those of the current period and no
  later one has begun; `StoredSound`, that what was counted in an ended period
  and what is believed sent for the current one is in the outbox or in the ledger;
  `RowsSound`, `SnapshotsSound` and `PushSound`, that no row, no snapshot under way
  and no confirmation claims more than was counted.
* `EstimateSound` says that nothing was counted in the span in which an estimate
  may be corrected to have begun. This is what the guard of the correction
  (`Corrects`) is for: units are moved to a period that has none. Inside a check
  it may fail for a moment, when a configuration arrives long after its period
  ended; the rollover at the end of the check restores it.
* `PendingFacts` says that a page is within its size, holds one snapshot of each of
  its periods and is only empty when nothing waits.
* `EntitlementSound` adds that the addon counter, which runs on from period to
  period, is the sum over the periods. The facts about the sum (`SumsExist`,
  `TotalChanges`, `TotalOfNothing`) are shown of the smallest period without them,
  which replaces an induction.

The proof found that the branches of `Adopt` overlapped in the model where
the code's chain of conditions orders them; they are a chain now.

Only model-checked: liveness (`DeliverySettles`, `GenerationEnds`,
`DaysArePublished`, `ErasureDrains`, `ShardDrains`, `UsageIsReported`), which is out
of the prover's reach because it needs fairness and `ENABLED`. Every invariant
and every action property that a run checks is a theorem.

## 5. Not modelled

* A call that is executed after its caller gave up and went on, such as a
  `reserve` that arrives after the delivery completed.
* That ingest calls `register` again after a crash between storing a receipt and
  setting its first alarm. The crash itself is modelled (`Abort` at `arm`): such a
  receipt holds no reservation (`ReservationIsWatched`), so it blocks nobody, and
  only ingest can bring it to life.
* `register` removing its staged body when it meets an erasure.
* A midnight between a delivery's plan and its retry: the persisted plan may
  leave the retention window, planning is then refused until the delivery
  expires. The delivery still settles, by expiry.
* Clocks that differ between the objects.
* Errors of a durable object's own storage, such as a throw in the `finally` block
  of `flush`, which would leave `flushInProgress` set.
* Repair and dead letter records of the batcher after they are kept: resolving one
  changes only its state.
* An operator who answers against the evidence.
* The deletions in Tinybird and of the control plane's records after an
  organization is drained, and replaying dead letters.
* Automatic top-ups and Stripe events: a repeated or late snapshot can trigger a
  top-up (`checkAutoTopup` does not look at the period), money moves outside the
  repository and the outcome is decided by webhooks.
* Formatting, pricing, redaction, encryption, tracing, logging and the text of
  errors.

The interfaces, parsers, read APIs and developer tooling hold no state that several
actors change; together with a generated validator of 60,000 lines under
`src/.agents/` they are most of the repository's lines. The remaining components and the reasons are in `PROJECT.json`.

## 6. Plan

Done: `DirtyDayGraph`, `SelectSnapshotDays` and `AgentDeliveryCoordinator` with
their proofs; the contract `SnapshotLifecycle` and its refinement; the
compositions `AgentDelivery`, `SnapshotRunner`, `SnapshotCapacity`,
`OrganizationErasure`; `DeadLetterErasure`; `TraceBatcher`; `UsageTracker`. Every
invariant and action property of the runs is proved.

Models that would come after: the collector's drain with its cursors, the
delivery sweep, session ownership, billing events.
