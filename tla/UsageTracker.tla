---------------------------- MODULE UsageTracker ----------------------------
(***************************************************************************)
(* Counting the units of one organization and reporting them to the        *)
(* control plane.                                                          *)
(*                                                                         *)
(* Every proxied request asks the tracker of its organization to admit it  *)
(* (UsagePeriod.check).  The answer uses only what the object stores; the  *)
(* billing period and the entitlement come with the request, from a KV     *)
(* store that may lag behind, and the clock rolls the period forward when  *)
(* no newer one arrives.  Totals of a period are staged in an outbox and   *)
(* an alarm pushes them (pushToConvex, recordUsage); checks go on while a  *)
(* push is under way, its answer may be lost, and a request nobody waits   *)
(* for any more may still be executed later.                               *)
(***************************************************************************)
EXTENDS Integers, FiniteSets

CONSTANTS
  Configs,     \* what KV may hold: [start, end, monthly, addon]; start is
               \* Unknown in configurations without a period
  Counts,      \* units one request asks for
  Unknown,
  Legacy,      \* LEGACY_PERIOD_MS
  MaxPending,  \* MAX_PENDING_PERIODS
  PageSize,    \* 16: snapshots per alarm
  MaxTime,     \* bound: clock
  MaxFaults    \* bound: lost answers, delayed requests, crashes

ASSUME UsageAssumption ==
  /\ {Legacy, MaxPending, PageSize} \subseteq Nat \ {0}
  /\ {MaxTime, MaxFaults} \cup Counts \subseteq Nat
  /\ Unknown \notin Nat
  /\ Configs # {}
  /\ Configs \subseteq [start : 0..MaxTime \cup {Unknown}, end : Nat,
                       monthly : Nat, addon : Nat]
  /\ \A kv \in Configs : kv.start # Unknown => kv.end > kv.start

VARIABLES
  now,
  period,    \* table config
  counters,  \* table counters
  outbox,    \* table usage_outbox
  alarm,
  push,      \* the alarm handler: snapshots it still has to send
  ledger,    \* the usage rows of the control plane
  late,      \* requests still under way that nobody waits for
  gone,      \* the organization was deleted: pushes are rejected for good
  counted,   \* ghost: units admitted in each period
  estimates, \* ghost: starts that were corrected
  faults

vars == <<now, period, counters, outbox, alarm, push, ledger, late, gone,
          counted, estimates, faults>>

-----------------------------------------------------------------------------
Start == 0..MaxTime
NoUnits == [sub |-> 0, add |-> 0]
NoRow == [end |-> 0, sub |-> 0, add |-> 0]
NoPeriod == [start |-> Unknown, end |-> 0, estimated |-> FALSE,
             monthly |-> 0, addon |-> 0]
NoPush == [at |-> "idle", left |-> {}]

Units == [sub : Nat, add : Nat]
Row == [end : Nat, sub : Nat, add : Nat]
Snapshot == [start : Start, end : Nat, sub : Nat, add : Nat]
Waiting(box) == {p \in Start : box[p] # NoRow}

TypeOK ==
  /\ now \in 0..MaxTime
  /\ period \in [start : Start \cup {Unknown}, end : Nat, estimated : BOOLEAN,
                 monthly : Nat, addon : Nat]
  /\ counters \in [sub : Nat, add : Nat, base : Nat, sentSub : Nat, sentAdd : Nat]
  /\ outbox \in [Start -> Row] /\ ledger \in [Start -> Row]
  /\ Cardinality(Waiting(outbox)) <= MaxPending
  /\ alarm \in BOOLEAN /\ gone \in BOOLEAN
  /\ push \in [at : {"idle", "send", "confirm", "end"}, left : SUBSET Snapshot]
  /\ Cardinality(push.left) <= PageSize
  /\ late \subseteq Snapshot
  /\ counted \in [Start -> Units] /\ estimates \subseteq Start
  /\ faults \in 0..MaxFaults

Init ==
  /\ now = 0
  /\ period = NoPeriod
  /\ counters = [sub |-> 0, add |-> 0, base |-> 0, sentSub |-> 0, sentAdd |-> 0]
  /\ outbox = [p \in Start |-> NoRow] /\ ledger = [p \in Start |-> NoRow]
  /\ alarm = FALSE /\ gone = FALSE
  /\ push = NoPush
  /\ late = {}
  /\ counted = [p \in Start |-> NoUnits] /\ estimates = {}
  /\ faults = 0

Faulty == faults < MaxFaults /\ faults' = faults + 1
Larger(a, b) == IF a > b THEN a ELSE b

-----------------------------------------------------------------------------
(* UsagePeriod, on the tables [p |-> period, c |-> counters, o |-> outbox].*)
(* Each step returns the set of possible results: none when it throws,     *)
(* which undoes the whole transaction.                                     *)

Unsent(t) == t.c.sub # t.c.sentSub \/ t.c.add # t.c.sentAdd

Put(row, end, units) ==
  [end |-> end, sub |-> Larger(row.sub, units.sub), add |-> Larger(row.add, units.add)]

OfPeriod(c) == [sub |-> c.sub, add |-> c.add - c.base]

HasRoom(t) == \/ t.o[t.p.start] # NoRow
              \/ Cardinality(Waiting(t.o)) < MaxPending

Staged(t) == [t EXCEPT !.o[t.p.start] = Put(@, t.p.end, OfPeriod(t.c))]
Stage(t) == IF ~Unsent(t) THEN {t} ELSE IF HasRoom(t) THEN {Staged(t)} ELSE {}

\* Variant with a bug: a new period forgets the addons that were used.
MoveAfresh(t, start, end, estimated) ==
  {[s EXCEPT !.p = [@ EXCEPT !.start = start, !.end = end, !.estimated = estimated],
             !.c = [sub |-> 0, add |-> 0, base |-> 0, sentSub |-> 0, sentAdd |-> 0]] :
     s \in Stage(t)}
MovePeriod(t, start, end, estimated) ==
  {[s EXCEPT !.p = [@ EXCEPT !.start = start, !.end = end, !.estimated = estimated],
             !.c = [@ EXCEPT !.sub = 0, !.base = t.c.add,
                             !.sentSub = 0, !.sentAdd = t.c.add]] :
     s \in Stage(t)}

Authoritative(kv) == kv.start # Unknown
Covers(kv) == kv.start <= now /\ now < kv.end

NewPeriod(kv) ==
  [start |-> IF Authoritative(kv) THEN kv.start ELSE now,
   end |-> IF Authoritative(kv) THEN kv.end ELSE now + Legacy,
   estimated |-> ~Authoritative(kv), monthly |-> kv.monthly, addon |-> kv.addon]

(* The estimate of the current period is corrected, and keeps its counters.*)
\* Variant with a bug: an older period may be opened again.
CorrectsAny(kv, p) ==
  /\ p.estimated /\ Authoritative(kv) /\ Covers(kv)
  /\ kv.start # p.start
Corrects(kv, p) ==
  /\ p.estimated /\ Authoritative(kv) /\ Covers(kv)
  /\ kv.start > p.start - (p.end - p.start)
  /\ kv.start # p.start
Corrected(t, kv) ==
  [p |-> [t.p EXCEPT !.start = kv.start, !.end = kv.end, !.estimated = FALSE],
   c |-> [t.c EXCEPT !.sentSub = 0, !.sentAdd = t.c.base],
   o |-> [t.o EXCEPT ![t.p.start] = NoRow]]

NewEnd(t, kv) ==
  LET s == [t EXCEPT !.p.end = kv.end] IN IF HasRoom(s) THEN {Staged(s)} ELSE {}

Adopt(t, kv) ==
  IF ~Authoritative(kv) THEN {t}
  ELSE IF Corrects(kv, t.p) THEN {Corrected(t, kv)}
  ELSE IF kv.start > t.p.start THEN MovePeriod(t, kv.start, kv.end, FALSE)
  ELSE IF kv.start = t.p.start /\ kv.end # t.p.end THEN NewEnd(t, kv)
  ELSE {t}

Entitle(t, kv, old) ==
  LET confirmed == Authoritative(kv) /\ kv.start = old.start /\ Covers(kv)
  IN  [t EXCEPT !.p.estimated = @ /\ ~confirmed,
                !.p.monthly = kv.monthly, !.p.addon = kv.addon]

Configure(t, kv) ==
  IF t.p.start = Unknown THEN {[t EXCEPT !.p = NewPeriod(kv)]}
  ELSE {Entitle(s, kv, t.p) : s \in Adopt(t, kv)}

Roll(t) ==
  IF now < t.p.end THEN {t}
  ELSE LET duration == t.p.end - t.p.start
           start == t.p.start + ((now - t.p.start) \div duration) * duration
       IN  MovePeriod(t, start, start + duration, TRUE)

FreeUnits(t) == Larger(0, t.p.monthly - t.c.sub)
PaidUnits(t) == Larger(0, t.p.addon - t.c.add)
Admits(t, n) == n <= FreeUnits(t) + PaidUnits(t)
SplitUnits(t, n) ==
  LET sub == IF n < FreeUnits(t) THEN n ELSE FreeUnits(t)
  IN  [sub |-> sub, add |-> n - sub]


-----------------------------------------------------------------------------
(* A request: UsagePeriod.check, then scheduleSync.                        *)
Tables == [p |-> period, c |-> counters, o |-> outbox]
NeedsSync(t) == Unsent(t) \/ Waiting(t.o) # {}

(* What the check decides before it counts.                                *)
Decided(kv) == UNION {Roll(t) : t \in Configure(Tables, kv)}

(* A corrected estimate takes what it counted along.                       *)
Moved(kv) ==
  IF period.start # Unknown /\ Corrects(kv, period)
  THEN [counted EXCEPT ![kv.start] = [sub |-> @.sub + counted[period.start].sub,
                                      add |-> @.add + counted[period.start].add],
                       ![period.start] = NoUnits]
  ELSE counted

Counted(kv, t, n) ==
  /\ period' = t.p /\ outbox' = t.o
  /\ estimates' = IF period.start # Unknown /\ Corrects(kv, period)
                  THEN estimates \cup {period.start} ELSE estimates
  /\ LET units == IF Admits(t, n) THEN SplitUnits(t, n) ELSE NoUnits IN
       /\ counters' = [t.c EXCEPT !.sub = @ + units.sub, !.add = @ + units.add]
       /\ counted' = [Moved(kv) EXCEPT ![t.p.start] =
                        [sub |-> @.sub + units.sub, add |-> @.add + units.add]]

ScheduleSync == alarm' = (alarm \/ NeedsSync(Tables)')

Check ==
  /\ \E kv \in Configs, n \in Counts : \E t \in Decided(kv) : Counted(kv, t, n)
  /\ ScheduleSync
  /\ UNCHANGED <<now, push, ledger, late, gone, faults>>

(* The object stops after the check is stored and before the alarm is.     *)
CheckUnscheduled ==
  /\ Faulty
  /\ \E kv \in Configs, n \in Counts : \E t \in Decided(kv) : Counted(kv, t, n)
  /\ push' = NoPush /\ alarm' = (alarm \/ push # NoPush)
  /\ UNCHANGED <<now, ledger, late, gone>>

-----------------------------------------------------------------------------
(* The alarm.                                                              *)
SnapshotOf(box, p) == [start |-> p, end |-> box[p].end, sub |-> box[p].sub, add |-> box[p].add]

(* The earliest periods that wait, and the order they are sent in.         *)
Before(box, p) == {q \in Waiting(box) : q < p}
Pending(box) ==
  {SnapshotOf(box, p) : p \in {p \in Waiting(box) : Cardinality(Before(box, p)) < PageSize}}
First(left) == CHOOSE s \in left : \A other \in left : s.start <= other.start

AlarmFires ==
  /\ alarm /\ push = NoPush
  /\ alarm' = FALSE
  /\ outbox' = IF Unsent(Tables) /\ HasRoom(Tables) THEN Staged(Tables).o ELSE outbox
  /\ push' = [at |-> IF Waiting(outbox') = {} THEN "end" ELSE "send", left |-> Pending(outbox')]
  /\ UNCHANGED <<now, period, counters, ledger, late, gone, counted, estimates, faults>>

RecordUsage(s) ==
  ledger' = IF gone THEN ledger ELSE [ledger EXCEPT ![s.start] = Put(@, s.end, s)]

Unpushed == UNCHANGED <<now, period, counters, outbox, alarm, gone, counted, estimates>>

(* The answer is 200, or 404 once the organization is gone: both count as  *)
(* sent.                                                                   *)
Send ==
  /\ push.at = "send"
  /\ RecordUsage(First(push.left))
  /\ push' = [push EXCEPT !.at = "confirm"]
  /\ UNCHANGED <<late, faults>> /\ Unpushed

(* It fails, or its answer is lost before, after or while it is executed.  *)
SendFails ==
  /\ push.at = "send" /\ Faulty
  /\ \/ UNCHANGED <<ledger, late>>
     \/ RecordUsage(First(push.left)) /\ UNCHANGED late
     \/ late' = late \cup {First(push.left)} /\ UNCHANGED ledger
  /\ push' = [push EXCEPT !.at = "end"]
  /\ Unpushed

ExecuteLate ==
  /\ \E s \in late : RecordUsage(s) /\ late' = late \ {s}
  /\ UNCHANGED <<push, faults>> /\ Unpushed

\* Variant with a bug: the row goes, whatever was staged meanwhile.
ConfirmedByPeriod(box, s) == [box EXCEPT ![s.start] = NoRow]
Confirmed(box, s) ==
  IF SnapshotOf(box, s.start) = s THEN [box EXCEPT ![s.start] = NoRow] ELSE box

Confirm ==
  /\ push.at = "confirm"
  /\ LET s == First(push.left)
         current == period.start = s.start /\ period.end = s.end IN
       /\ outbox' = Confirmed(outbox, s)
       /\ counters' = IF current THEN [counters EXCEPT !.sentSub = s.sub,
                                                       !.sentAdd = counters.base + s.add]
                      ELSE counters
  /\ LET rest == push.left \ {First(push.left)}
     IN  push' = [at |-> IF rest = {} THEN "end" ELSE "send", left |-> rest]
  /\ UNCHANGED <<now, period, alarm, ledger, late, gone, counted, estimates, faults>>

EndAlarm ==
  /\ push.at = "end"
  /\ push' = NoPush
  /\ UNCHANGED <<now, period, counters, outbox, ledger, late, gone, counted, estimates, faults>>
  /\ ScheduleSync

(* The platform runs an interrupted alarm again.                           *)
Crash ==
  /\ push # NoPush /\ Faulty
  /\ push' = NoPush /\ alarm' = TRUE
  /\ late' \in {late, IF push.at = "send" THEN late \cup {First(push.left)} ELSE late}
  /\ UNCHANGED <<now, period, counters, outbox, ledger, gone, counted, estimates>>

-----------------------------------------------------------------------------
Tick ==
  /\ now < MaxTime
  /\ now' = now + 1
  /\ UNCHANGED <<period, counters, outbox, alarm, push, ledger, late, gone,
                 counted, estimates, faults>>

DeleteOrganization ==
  /\ ~gone /\ gone' = TRUE
  /\ UNCHANGED <<now, period, counters, outbox, alarm, push, ledger, late,
                 counted, estimates, faults>>

Next ==
  \/ Check \/ CheckUnscheduled
  \/ AlarmFires \/ Send \/ SendFails \/ ExecuteLate \/ Confirm \/ EndAlarm \/ Crash
  \/ Tick \/ DeleteOrganization

(* Requests go on, alarms fire and a push gets an answer.                  *)
Spec ==
  /\ Init /\ [][Next]_vars
  /\ WF_vars(Check) /\ WF_vars(AlarmFires)
  /\ WF_vars(Send) /\ WF_vars(Confirm) /\ WF_vars(EndAlarm)

-----------------------------------------------------------------------------
AtMost(a, b) == a.sub <= b.sub /\ a.add <= b.add

(* The counters are those of the current period, the units of a period     *)
(* that ended are in the outbox or in the ledger until it is deleted, and  *)
(* no row claims more than was counted; an estimate that was corrected may *)
(* stay in the ledger.  (Stale configurations, clock rollovers and checks  *)
(* during a push all happen.)                                              *)
UsageIsKept ==
  /\ TypeOK
  /\ period.start # Unknown => counted[period.start] = OfPeriod(counters)
  /\ \A p \in Start :
       /\ p # period.start /\ ~gone =>
            AtMost(counted[p], Put(ledger[p], 0, outbox[p]))
       /\ AtMost(outbox[p], counted[p])
       /\ p \notin estimates => AtMost(ledger[p], counted[p])

(* However periods follow each other and configurations arrive, a period   *)
(* gives away at most a monthly allowance and all of them together at most *)
(* the addons that were bought.                                            *)
AddonTotal(units) ==
  LET upTo[p \in Start] == (IF p = 0 THEN 0 ELSE upTo[p - 1]) + units[p].add
  IN  upTo[MaxTime]
WithinEntitlement ==
  /\ \A p \in Start : \E kv \in Configs : counted[p].sub <= kv.monthly
  /\ \E kv \in Configs : AddonTotal(counted) <= kv.addon

(* Everything counted reaches the control plane, though answers are lost,  *)
(* checks move the counters under a push, and an alarm may not get set.    *)
UsageIsReported ==
  <>[](gone \/ \A p \in Start : AtMost(counted[p], ledger[p]))
=============================================================================
