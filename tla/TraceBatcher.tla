---------------------------- MODULE TraceBatcher ----------------------------
(***************************************************************************)
(* One shard of the proxy consumer's TraceBatcher durable object, with the *)
(* request queue that feeds it, Tinybird, the platform's alarm and the     *)
(* operator who reconciles recovery records.                               *)
(*                                                                         *)
(* Code between two awaits is one action.  A flush waits in three places:  *)
(* while a batch is normalized ("parse"), while Tinybird answers ("wait"), *)
(* and, no longer marked in progress, while its log is shipped (a member   *)
(* of `tails`).  Awaits of the object's own storage hold back every other  *)
(* event and are not waits.  A crash may come at any of them; it loses the *)
(* memory and keeps the tables and the alarm.                              *)
(*                                                                         *)
(* Clock times are not kept: an alarm rings at any time, and `overdue`     *)
(* says that flush interval and jitter have surely passed.  Repair and     *)
(* dead letter records stay blocked: resolving one changes only its state. *)
(***************************************************************************)
EXTENDS Integers, SequencesExt

CONSTANTS
  Messages,     \* messages of the request queue routed to this shard
  TracesOf,     \* the traces each carries, a sequence of [key, hash]
  Calls,        \* the sequences of messages one addMessageTraces may bring
  Modes,        \* write modes: the targets to write, in order
  Bytes,        \* serialized size of the trace of each key
  MaxBytes,     \* MAX_NDJSON_BYTES
  BatchSize,    \* BATCH_SIZE
  Unparseable,  \* keys whose stored trace cannot be normalized
  NoHash,       \* a key the ledger does not have
  MaxFaults,    \* bound: inserts and acknowledgements that fail
  MaxCrashes    \* bound: restarts of the object

Targets == UNION {Range(m) : m \in Modes}
AllTraces == UNION {Range(TracesOf[m]) : m \in Messages}
Keys == {t.key : t \in AllTraces}
Hashes == {t.hash : t \in AllTraces}

ASSUME BatcherAssumption ==
  /\ \A m \in Messages : TracesOf[m] \in Seq([key : Keys, hash : Hashes])
  /\ Calls \subseteq Seq(Messages) /\ <<>> \notin Calls
  /\ Modes \subseteq Seq(Targets) /\ Modes # {} /\ <<>> \notin Modes
  /\ Bytes \in [Keys -> Nat \ {0}]
  /\ MaxBytes \in Nat /\ BatchSize \in Nat \ {0}
  /\ NoHash \notin Hashes
  /\ MaxFaults \in Nat /\ MaxCrashes \in Nat

VARIABLES
  processed,   \* table processed_messages
  ledger,      \* table trace_ledger: the hash kept for each key
  repairs,     \* changed contents kept as repair records, [key, old, new]
  rows,        \* table traces; a row's id is its place, `gone` once deleted
  records,     \* unresolved tinybird_insert records, [target, rows, state]
  alarm,       \* the platform has an alarm set
  mode,        \* write mode of the deployed version
  alive,       \* an instance of the object is in memory
  traceCount,  \* its count of healthy traces
  flag,        \* flushAlarmScheduled
  flush,       \* the flush in progress
  tails,       \* flushes shipping their log, by who started them
  returning,   \* addMessageTraces calls about to answer
  overdue,     \* lastFlushTime is an interval and any jitter ago
  unacked,     \* messages the queue still holds
  written,     \* times Tinybird stored each key, per target, capped at 2
  late,        \* unanswered inserts that may still be stored
  faults, crashes

stored == <<processed, ledger, repairs>>
memory == <<alive, traceCount, flag, flush, tails, returning>>
outside == <<unacked, written, late>>
batcherVars == <<stored, rows, records, alarm, mode, memory, overdue, outside,
                 faults, crashes>>

-----------------------------------------------------------------------------
(* Shapes *)

Row == [key : Keys, sent : SUBSET Targets, gone : BOOLEAN]
Record == [target : Targets, rows : SUBSET DOMAIN rows,
           state : {"in_flight", "blocked"}]

(* Who runs a flush: the alarm, the health check, or a call that adds. *)
AlarmRun == [kind |-> "alarm", call |-> <<>>]
ForceRun == [kind |-> "force", call |-> <<>>]
AddRun(call) == [kind |-> "add", call |-> call]
Runs == {AlarmRun, ForceRun} \cup {AddRun(c) : c \in Calls}

(* targets: the one being written and those after it; batches: its batches *)
(* still to send; stack: what is left of the current one, the part being   *)
(* sent first; retry: a part of the current batch was refused for now.     *)
NoFlush == [at |-> "none", by |-> ForceRun, targets |-> <<>>,
            batches |-> <<>>, stack |-> <<>>, retry |-> FALSE]
FlushInProgress == flush.at # "none"
Batch == Head(flush.stack)
Target == Head(flush.targets)

AlarmRunning == AlarmRun \in tails \/ (FlushInProgress /\ flush.by = AlarmRun)
Running(call) ==
  \/ AddRun(call) \in tails \/ call \in returning
  \/ FlushInProgress /\ flush.by = AddRun(call)

-----------------------------------------------------------------------------
(* Queries *)

(* Rows of the insert in flight and of those an operator must decide. *)
InOpenRecord(recs, target) ==
  UNION {r.rows : r \in {s \in recs : s.target = target}}

HealthyFor(table, recs, target) ==
  {i \in DOMAIN table : /\ ~table[i].gone /\ target \notin table[i].sent
                        /\ i \notin InOpenRecord(recs, target)}

Healthy(table, recs, targets) ==
  UNION {HealthyFor(table, recs, t) : t \in Range(targets)}
CountHealthy(table, recs) == Cardinality(Healthy(table, recs, mode))

(* The ids of a set, in their order. *)
InOrder(ids) ==
  CHOOSE s \in [1..Cardinality(ids) -> ids] :
    \A m, n \in DOMAIN s : m < n => s[m] < s[n]

SelectHealthyRows(table, recs, target) ==
  LET ids == InOrder(HealthyFor(table, recs, target))
  IN SubSeq(ids, 1, IF Len(ids) < BatchSize THEN Len(ids) ELSE BatchSize)

MarkSent(table, ids, target) ==
  [i \in DOMAIN table |->
     IF i \in ids THEN [table[i] EXCEPT !.sent = @ \cup {target}]
     ELSE table[i]]

(* Sent to every target; for the variant, to one of them. *)
SentAnywhere(row) == Range(mode) \cap row.sent # {}
FullySent(row) == Range(mode) \subseteq row.sent
DeleteFullySent(table, ids) ==
  [i \in DOMAIN table |->
     IF i \in ids /\ FullySent(table[i]) THEN [table[i] EXCEPT !.gone = TRUE]
     ELSE table[i]]

(* The separator a row pays stays in the sum when it opens a new batch. *)
AddRowTo(split, size, id) ==
  LET cost == size + (IF split.current # <<>> THEN 1 ELSE 0)
  IN IF split.current # <<>> /\ split.bytes + cost > MaxBytes
     THEN [done |-> Append(split.done, split.current),
           current |-> <<id>>, bytes |-> cost]
     ELSE [split EXCEPT !.current = Append(@, id), !.bytes = @ + cost]

SplitRowsByBytes(table, ids) ==
  LET split[n \in 0..Len(ids)] ==
        IF n = 0 THEN [done |-> <<>>, current |-> <<>>, bytes |-> 0]
        ELSE AddRowTo(split[n - 1], Bytes[table[ids[n]].key], ids[n])
      last == split[Len(ids)]
  IN IF last.current = <<>> THEN last.done
     ELSE Append(last.done, last.current)

(* A JSON array: its rows, the commas between them and two brackets. *)
PayloadBytes(ids) ==
  FoldLeft(LAMBDA sum, i : sum + Bytes[rows[i].key] + 1, 1, ids)

Middle(ids) == (Len(ids) + 1) \div 2
(* The variant puts the middle row in both halves. *)
OverlappingHalves(ids) ==
  <<SubSeq(ids, 1, Middle(ids)), SubSeq(ids, Middle(ids), Len(ids))>>
Halves(ids) == <<SubSeq(ids, 1, Middle(ids)),
                 SubSeq(ids, Middle(ids) + 1, Len(ids))>>

-----------------------------------------------------------------------------
(* Staging messages: one transaction per message *)

StageTrace(s, trace) ==
  LET known == s.ledger[trace.key]
  IN IF known = trace.hash THEN s
     ELSE IF known = NoHash
     THEN [s EXCEPT !.ledger[trace.key] = trace.hash,
                    !.rows = Append(@, [key |-> trace.key, sent |-> {},
                                        gone |-> FALSE])]
     ELSE [s EXCEPT !.repairs = @ \cup {[key |-> trace.key, old |-> known,
                                         new |-> trace.hash]}]

InsertMessage(s, m) ==
  LET traces == TracesOf[m]
      staged[n \in 0..Len(traces)] ==
        IF n = 0 THEN [s EXCEPT !.processed = @ \cup {m}]
        ELSE StageTrace(staged[n - 1], traces[n])
  IN IF m \in s.processed THEN s ELSE staged[Len(traces)]

Staged(call) ==
  LET inserted[n \in 0..Len(call)] ==
        IF n = 0 THEN [processed |-> processed, ledger |-> ledger,
                       repairs |-> repairs, rows |-> rows]
        ELSE InsertMessage(inserted[n - 1], call[n])
  IN inserted[Len(call)]

-----------------------------------------------------------------------------
(* The flush *)

(* The first of these targets with healthy rows, or the end of the loop. *)
NextTarget(by, targets, table, recs) ==
  LET ready == {n \in DOMAIN targets : HealthyFor(table, recs, targets[n]) # {}}
      n == CHOOSE k \in ready : \A j \in ready : k <= j
      parts == SplitRowsByBytes(table,
                                SelectHealthyRows(table, recs, targets[n]))
  IN IF ready = {} THEN NoFlush
     ELSE [at |-> "parse", by |-> by,
           targets |-> SubSeq(targets, n, Len(targets)),
           batches |-> Tail(parts), stack |-> <<Head(parts)>>,
           retry |-> FALSE]

(* What follows when the head of the stack has been dealt with: the rest   *)
(* of its batch even after a refusal, the next batch if there was none.    *)
NextBatch(f, table, recs) ==
  IF f.stack # <<>> THEN [f EXCEPT !.at = "parse"]
  ELSE IF f.retry \/ f.batches = <<>>
  THEN NextTarget(f.by, Tail(f.targets), table, recs)
  ELSE [f EXCEPT !.at = "parse", !.stack = <<Head(f.batches)>>,
                 !.batches = Tail(@)]

(* The variant of Advance leaves the flag set when it deletes the alarm. *)
AdvanceKeepingFlag(next, by, table, recs, count) ==
  /\ flush' = next
  /\ records' = recs
  /\ IF next # NoFlush
     THEN /\ rows' = table /\ traceCount' = count
          /\ UNCHANGED <<alarm, flag, tails, overdue>>
     ELSE /\ rows' = DeleteFullySent(table, DOMAIN table)
          /\ traceCount' = CountHealthy(rows', recs)
          /\ overdue' = FALSE
          /\ alarm' = (alarm /\ ~flag) /\ UNCHANGED flag
          /\ tails' = tails \cup {by}

(* Go on with `next`, or run the flush's finally block when nothing is     *)
(* left: recount, drop the alarm, and leave the log to be shipped.         *)
Advance(next, by, table, recs, count) ==
  /\ flush' = next
  /\ records' = recs
  /\ IF next # NoFlush
     THEN /\ rows' = table /\ traceCount' = count
          /\ UNCHANGED <<alarm, flag, tails, overdue>>
     ELSE /\ rows' = DeleteFullySent(table, DOMAIN table)
          /\ traceCount' = CountHealthy(rows', recs)
          /\ overdue' = FALSE
          /\ alarm' = (alarm /\ ~flag) /\ flag' = FALSE
          /\ tails' = tails \cup {by}

StartFlush(by, table, count) ==
  Advance(NextTarget(by, mode, table, records), by, table, records, count)

(* The head of the stack is done with, leaving this table and records. *)
EndBatch(f, table, recs) ==
  Advance(NextBatch([f EXCEPT !.stack = Tail(@)], table, recs),
          f.by, table, recs, traceCount)

SendHalves ==
  flush' = [flush EXCEPT !.at = "parse", !.stack = Halves(Batch) \o Tail(@)]

ScheduleFlush(wanted) ==
  IF wanted /\ ~flag THEN alarm' = TRUE /\ flag' = TRUE
  ELSE UNCHANGED <<alarm, flag>>

InFlight == [target |-> Target, rows |-> Range(Batch), state |-> "in_flight"]
Blocked == [InFlight EXCEPT !.state = "blocked"]
Preserved == (records \ {InFlight}) \cup {Blocked}
KeysIn(ids) == {rows[i].key : i \in ids}

Store(keys, target) ==
  written' = [k \in Keys |-> [t \in Targets |->
                IF k \in keys /\ t = target /\ written[k][t] < 2
                THEN written[k][t] + 1 ELSE written[k][t]]]

Fault == faults < MaxFaults /\ faults' = faults + 1

(* sendTraceBatchInner up to the insert. *)
SendBatch ==
  /\ alive /\ flush.at = "parse"
  /\ LET refused == \/ KeysIn(Range(Batch)) \cap Unparseable # {}
                    \/ PayloadBytes(Batch) > MaxBytes
     IN \/ /\ ~refused
           /\ records' = records \cup {InFlight}
           /\ flush' = [flush EXCEPT !.at = "wait"]
           /\ UNCHANGED <<rows, alarm, traceCount, flag, tails, overdue>>
        \/ /\ refused /\ Len(Batch) > 1
           /\ SendHalves
           /\ UNCHANGED <<rows, records, alarm, traceCount, flag, tails,
                          overdue>>
        \/ /\ refused /\ Len(Batch) = 1
           /\ EndBatch(flush, rows, records \cup {Blocked})
  /\ UNCHANGED <<stored, mode, alive, returning, outside, faults, crashes>>

(* HTTP 200 with a receipt for every row. *)
InsertConfirmed ==
  /\ alive /\ flush.at = "wait"
  /\ Store(KeysIn(Range(Batch)), Target)
  /\ EndBatch(flush, MarkSent(rows, Range(Batch), Target),
              records \ {InFlight})
  /\ UNCHANGED <<stored, mode, alive, returning, unacked, late, faults,
                 crashes>>

(* 429 or 503: nothing was stored, try again at the next flush. *)
InsertRefusedForNow ==
  /\ alive /\ flush.at = "wait" /\ Fault
  /\ EndBatch([flush EXCEPT !.retry = TRUE], rows, records \ {InFlight})
  /\ UNCHANGED <<stored, mode, alive, returning, outside, crashes>>

(* 413 for several rows: nothing was stored, send the halves. *)
InsertTooLarge ==
  /\ alive /\ flush.at = "wait" /\ Len(Batch) > 1 /\ Fault
  /\ SendHalves /\ records' = records \ {InFlight}
  /\ UNCHANGED <<stored, rows, alarm, mode, alive, traceCount, flag, tails,
                 returning, overdue, outside, crashes>>

(* Any other 4xx of the list: nothing was stored, keep it for an operator. *)
InsertRejected ==
  /\ alive /\ flush.at = "wait" /\ Fault
  /\ EndBatch(flush, rows, Preserved)
  /\ UNCHANGED <<stored, mode, alive, returning, outside, crashes>>

(* The variant takes an unknown outcome for a refusal and tries again. *)
UncertainRetried ==
  /\ alive /\ flush.at = "wait" /\ Fault
  /\ late' = late \cup {[target |-> Target, rows |-> Range(Batch)]}
  /\ EndBatch([flush EXCEPT !.retry = TRUE], rows, records \ {InFlight})
  /\ UNCHANGED <<stored, mode, alive, returning, unacked, written, crashes>>

(* Timeout, lost connection, partial or unreadable receipt: keep it, and   *)
(* any of the rows may be stored, now or later.                            *)
InsertUncertain ==
  /\ alive /\ flush.at = "wait" /\ Fault
  /\ late' = late \cup {[target |-> Target, rows |-> Range(Batch)]}
  /\ EndBatch(flush, rows, Preserved)
  /\ UNCHANGED <<stored, mode, alive, returning, unacked, written, crashes>>

InsertAnswered ==
  \/ InsertConfirmed \/ InsertRefusedForNow \/ InsertTooLarge
  \/ InsertRejected \/ InsertUncertain

(* The variant of the end of a flush sets no alarm for leftover rows.      *)
ShippedWithoutAlarm(by) ==
  /\ alive /\ by \in tails
  /\ tails' = tails \ {by}
  /\ returning' = returning \cup (IF by.kind = "add" THEN {by.call} ELSE {})
  /\ UNCHANGED <<stored, rows, records, alarm, mode, alive, traceCount, flag,
                 flush, overdue, outside, faults, crashes>>

(* The end of the finally block. *)
LogShipped(by) ==
  /\ alive /\ by \in tails
  /\ tails' = tails \ {by}
  /\ ScheduleFlush(traceCount > 0)
  /\ returning' = returning \cup (IF by.kind = "add" THEN {by.call} ELSE {})
  /\ UNCHANGED <<stored, rows, records, mode, alive, traceCount, flush,
                 overdue, outside, faults, crashes>>

-----------------------------------------------------------------------------
(* Events *)

AddMessageTraces(call) ==
  /\ alive
  /\ Range(call) \subseteq unacked
  /\ \A other \in Calls :
       Running(other) => Range(other) \cap Range(call) = {}
  /\ LET s == Staged(call)
         count == CountHealthy(s.rows, records)
         inserted == Len(s.rows) > Len(rows)
         full == count >= BatchSize /\ inserted
     IN /\ processed' = s.processed /\ ledger' = s.ledger
        /\ repairs' = s.repairs
        /\ \/ /\ full /\ ~FlushInProgress
              /\ StartFlush(AddRun(call), s.rows, count)
              /\ UNCHANGED returning
           \/ /\ ~full \/ FlushInProgress
              /\ rows' = s.rows /\ traceCount' = count
              /\ ScheduleFlush(count > 0 /\ ~full /\ ~alarm)
              /\ returning' = returning \cup {call}
              /\ UNCHANGED <<records, flush, tails, overdue>>
  /\ UNCHANGED <<mode, alive, outside, faults, crashes>>

(* The consumer acknowledges, or fails to and lets the queue retry. *)
Return(call) ==
  /\ alive /\ call \in returning
  /\ returning' = returning \ {call}
  /\ \/ unacked' = unacked \ Range(call) /\ UNCHANGED faults
     \/ Fault /\ UNCHANGED unacked
  /\ UNCHANGED <<stored, rows, records, alarm, mode, alive, traceCount, flag,
                 flush, tails, overdue, written, late, crashes>>


(* Only one alarm handler runs at a time.  The count is exact between      *)
(* flushes (CountAgrees), so a flush the alarm starts has a batch to send; *)
(* one in progress is left alone, and reschedules when it ends.            *)
Alarm ==
  /\ alive /\ alarm /\ ~AlarmRunning
  /\ \/ /\ traceCount > 0 /\ ~FlushInProgress
        /\ flush' = NextTarget(AlarmRun, mode, rows, records)
        /\ flush' # NoFlush
        /\ alarm' = FALSE /\ flag' = FALSE
     \/ /\ traceCount > 0 /\ ~overdue
        /\ alarm' = TRUE /\ flag' = TRUE /\ UNCHANGED flush
     \/ /\ traceCount = 0 \/ FlushInProgress
        /\ alarm' = FALSE /\ flag' = FALSE /\ UNCHANGED flush
  /\ UNCHANGED <<stored, rows, records, mode, alive, traceCount, tails,
                 returning, overdue, outside, faults, crashes>>

(* The health check's remedy, and what an operator may call. *)
ForceFlush ==
  /\ alive /\ traceCount > 0 /\ ~FlushInProgress
  /\ StartFlush(ForceRun, rows, traceCount)
  /\ UNCHANGED <<stored, mode, alive, returning, outside, faults, crashes>>

Crash ==
  /\ alive /\ crashes < MaxCrashes
  /\ crashes' = crashes + 1
  /\ alive' = FALSE /\ traceCount' = 0 /\ flag' = FALSE
  /\ flush' = NoFlush /\ tails' = {} /\ returning' = {}
  /\ alarm' = (alarm \/ AlarmRunning)
  /\ late' = late \cup (IF flush.at = "wait"
                        THEN {[target |-> Target, rows |-> Range(Batch)]}
                        ELSE {})
  /\ UNCHANGED <<stored, rows, records, mode, overdue, unacked, written,
                 faults>>

(* The constructor, of the version deployed by then. *)
Construct ==
  /\ ~alive
  /\ alive' = TRUE
  /\ mode' \in Modes
  /\ records' = {[r EXCEPT !.state = "blocked"] : r \in records}
  /\ traceCount' = Cardinality(Healthy(rows, records', mode'))
  /\ flag' = (traceCount' > 0)
  /\ alarm' = (alarm \/ traceCount' > 0)
  /\ UNCHANGED <<stored, rows, flush, tails, returning, overdue, outside,
                 faults, crashes>>

TimePasses ==
  /\ ~overdue /\ overdue' = TRUE
  /\ UNCHANGED <<stored, rows, records, alarm, mode, memory, outside, faults,
                 crashes>>

(* An insert nobody waits for any more stores some of its rows, or none. *)
LateStore(insert) ==
  /\ insert \in late
  /\ late' = late \ {insert}
  /\ \E ids \in SUBSET insert.rows : Store(KeysIn(ids), insert.target)
  /\ UNCHANGED <<stored, rows, records, alarm, mode, memory, overdue, unacked,
                 faults, crashes>>

-----------------------------------------------------------------------------
(* Reconciliation, by an operator who waits until the insert is settled    *)
(* and looks up every row of it in the datasource, as the guide asks.      *)

Settled(r) == [target |-> r.target, rows |-> r.rows] \notin late
StoredAt(r) == {k \in KeysIn(r.rows) : written[k][r.target] > 0}

(* The operator adds the rows that are missing before confirming.  The     *)
(* rows are marked and the record resolved in one transaction.             *)
ConfirmWritten(r) ==
  /\ alive /\ r \in records /\ r.state = "blocked"
  /\ Settled(r) /\ StoredAt(r) # {}
  /\ Store(KeysIn(r.rows) \ StoredAt(r), r.target)
  /\ rows' = DeleteFullySent(MarkSent(rows, r.rows, r.target), r.rows)
  /\ records' = records \ {r}
  /\ traceCount' = CountHealthy(rows', records')
  /\ UNCHANGED <<stored, alarm, mode, alive, flag, flush, tails, returning,
                 overdue, unacked, late, faults, crashes>>

(* Releases the rows of a record and wakes the shard. *)
ConfirmNotWritten(r) ==
  /\ alive /\ r \in records /\ r.state = "blocked"
  /\ Settled(r) /\ StoredAt(r) = {}
  /\ alarm' = TRUE /\ flag' = TRUE
  /\ records' = records \ {r}
  /\ traceCount' = CountHealthy(rows, records')
  /\ UNCHANGED <<stored, rows, mode, alive, flush, tails, returning, overdue,
                 outside, faults, crashes>>

-----------------------------------------------------------------------------

BatcherInit ==
  /\ processed = {} /\ repairs = {}
  /\ ledger = [k \in Keys |-> NoHash]
  /\ rows = <<>> /\ records = {} /\ alarm = FALSE
  /\ mode \in Modes
  /\ alive = TRUE /\ traceCount = 0 /\ flag = FALSE
  /\ flush = NoFlush /\ tails = {} /\ returning = {}
  /\ overdue = FALSE
  /\ unacked = Messages
  /\ written = [k \in Keys |-> [t \in Targets |-> 0]]
  /\ late = {}
  /\ faults = 0 /\ crashes = 0

BatcherNext ==
  \/ \E call \in Calls : AddMessageTraces(call) \/ Return(call)
  \/ Alarm \/ ForceFlush
  \/ SendBatch \/ InsertAnswered
  \/ \E by \in tails : LogShipped(by)
  \/ Crash \/ Construct \/ TimePasses
  \/ \E insert \in late : LateStore(insert)
  \/ \E r \in records : ConfirmWritten(r) \/ ConfirmNotWritten(r)

BatcherSpec == BatcherInit /\ [][BatcherNext]_batcherVars

(* Weak fairness, each action's enabling condition written out: TLC takes  *)
(* very long to evaluate ENABLED of these actions.  Inserts time out, the  *)
(* log request ends, the platform rings the alarm and time passes.  The    *)
(* queue redelivers what was not acknowledged, and the cron's health check *)
(* wakes every shard.  Nothing is asked of the operator, nor of the health *)
(* check's forced flush.                                                   *)
CanRing == alive /\ alarm /\ ~AlarmRunning
CanDeliver(m) ==
  /\ alive /\ m \in unacked
  /\ \E c \in Calls :
       /\ m \in Range(c) /\ Range(c) \subseteq unacked
       /\ \A d \in Calls : Running(d) => Range(d) \cap Range(c) = {}

BatcherFairness ==
  /\ []<>~(alive /\ FlushInProgress)
     \/ []<><<SendBatch \/ InsertAnswered>>_batcherVars
  /\ \A by \in Runs :
       []<>~(alive /\ by \in tails) \/ []<><<LogShipped(by)>>_batcherVars
  /\ []<>~CanRing \/ []<><<Alarm>>_batcherVars
  /\ []<>overdue \/ []<><<TimePasses>>_batcherVars
  /\ []<>alive \/ []<><<Construct>>_batcherVars
  /\ \A c \in Calls :
       []<>~(alive /\ c \in returning) \/ []<><<Return(c)>>_batcherVars
  /\ \A m \in Messages :
       []<>~CanDeliver(m)
       \/ []<><<\E c \in Calls :
                  m \in Range(c) /\ AddMessageTraces(c)>>_batcherVars

FairBatcherSpec == BatcherSpec /\ BatcherFairness

-----------------------------------------------------------------------------
(* Properties *)

(* Every variable stays within the values its column, field or message may *)
(* hold.                                                                   *)
BatcherTypeOK ==
  /\ processed \subseteq Messages
  /\ ledger \in [Keys -> Hashes \cup {NoHash}]
  /\ repairs \subseteq [key : Keys, old : Hashes, new : Hashes]
  /\ rows \in Seq(Row) /\ records \subseteq Record
  /\ mode \in Modes
  /\ alarm \in BOOLEAN /\ alive \in BOOLEAN
  /\ flag \in BOOLEAN /\ overdue \in BOOLEAN
  /\ traceCount \in 0..Len(rows)
  /\ flush \in [at : {"none", "parse", "wait"}, by : Runs,
                targets : Seq(Targets), batches : Seq(Seq(DOMAIN rows)),
                stack : Seq(Seq(DOMAIN rows)), retry : BOOLEAN]
  /\ tails \subseteq Runs /\ returning \subseteq Calls
  /\ unacked \subseteq Messages
  /\ written \in [Keys -> [Targets -> 0..2]]
  /\ late \subseteq [target : Targets, rows : SUBSET DOMAIN rows]
  /\ faults \in 0..MaxFaults /\ crashes \in 0..MaxCrashes

(* A message the queue has let go is not lost: each of its traces is a     *)
(* kept repair, or was staged as a row that is still in the table or has   *)
(* been stored at every target of a write mode (addMessageTraces before    *)
(* the acknowledgement, deleteFullySentTraces after the receipts).         *)
AckedIsKept ==
  \A m \in Messages \ unacked : \A trace \in Range(TracesOf[m]) :
    \/ \E r \in repairs : r.key = trace.key /\ r.new = trace.hash
    \/ /\ ledger[trace.key] = trace.hash
       /\ \E i \in DOMAIN rows :
            /\ rows[i].key = trace.key
            /\ \/ ~rows[i].gone
               \/ \E md \in Modes : \A t \in Range(md) :
                    written[trace.key][t] > 0

(* Retries, redelivered messages, restarts and late inserts never store a  *)
(* trace twice in one datasource, which could not be undone: an insert     *)
(* with an unknown outcome is not sent again by the code on its own.       *)
WrittenOnce == \A k \in Keys, t \in Targets : written[k][t] <= 1

(* A row counts as sent only where it is stored.                           *)
SentIsWritten ==
  \A i \in DOMAIN rows : \A t \in rows[i].sent : written[rows[i].key][t] > 0

(* No row has two open records for one target, so the operator's decision  *)
(* on one of them cannot contradict another (selectHealthyRows).           *)
OneRecordPerRow ==
  \A r, s \in records :
    r # s /\ r.target = s.target => r.rows \cap s.rows = {}

(* Rows a flush selected before its awaits and has not sent yet are still  *)
(* unsent and without an open record when their turn comes.                *)
HeldRowsAreHealthy ==
  FlushInProgress =>
    LET parts == (IF flush.at = "wait" THEN Tail(flush.stack)
                  ELSE flush.stack) \o flush.batches
    IN \A n \in DOMAIN parts :
         Range(parts[n]) \subseteq HealthyFor(rows, records, Target)

(* Every variable keeps its type and the rows' records say what was sent,  *)
(* to whom, and what only the operator may decide.                         *)
RecordsSound ==
  BatcherTypeOK /\ SentIsWritten /\ OneRecordPerRow /\ HeldRowsAreHealthy

(* The in-memory count agrees with the tables whenever no flush is in      *)
(* progress; alarm() and flush() do nothing when it is zero.               *)
CountAgrees ==
  alive /\ ~FlushInProgress => traceCount = CountHealthy(rows, records)

(* The flag is set only while the platform has an alarm for this object;   *)
(* otherwise scheduleFlush would never set one again.                      *)
FlagHasAlarm == flag => alarm

(* While the instance lives, work that can be sent has an alarm, a flush   *)
(* in progress, or a flush about to reschedule: nothing waits for the next *)
(* message to reach the shard.                                             *)
WorkHasWaker ==
  alive /\ CountHealthy(rows, records) > 0 =>
    alarm \/ FlushInProgress \/ tails # {}

(* Each message is acknowledged in the end.                                *)
EveryMessageAcked == <>(unacked = {})

(* A trace that can be sent to a target does not wait for ever: it is sent *)
(* or handed to the operator, without the health check's forced flush and  *)
(* without another message reaching the shard, however often the operator  *)
(* releases other rows.                                                    *)
Sendable(key, target) ==
  /\ target \in Range(mode)
  /\ \E i \in HealthyFor(rows, records, target) : rows[i].key = key
QueueDrains == \A k \in Keys, t \in Targets : []<>~Sendable(k, t)

(* Both: nothing a message brought stays behind anywhere in the shard.     *)
ShardDrains == EveryMessageAcked /\ QueueDrains
=============================================================================
