------------------------- MODULE UsageTracker_proofs -------------------------
(***************************************************************************)
(* The units of an organization, proved to be kept and claimed at most     *)
(* once, for every configuration that may arrive, every clock and every    *)
(* lost, late or repeated push.                                            *)
(*                                                                         *)
(* A check passes through several tables within one transaction: it may    *)
(* correct an estimate or move the period, then roll it forward, then      *)
(* count.  So the invariant is stated of tables t, of the units u admitted *)
(* in each period and of the starts e that were corrected, and each part   *)
(* of the check keeps it.                                                  *)
(***************************************************************************)
EXTENDS UsageTracker, FiniteSetTheorems, WellFoundedInduction, TLAPS

USE UsageAssumption DEF UsageAssumption

-----------------------------------------------------------------------------
(* The inductive invariant *)

Period == [start : Start \cup {Unknown}, end : Nat, estimated : BOOLEAN,
           monthly : Nat, addon : Nat]
Counters == [sub : Nat, add : Nat, base : Nat, sentSub : Nat, sentAdd : Nat]
TablesType == [p : Period, c : Counters, o : [Start -> Row]]
Known(t) == t.p.start # Unknown

Typed(t, u) ==
  /\ t \in TablesType /\ u \in [Start -> Units]
  /\ Cardinality(Waiting(t.o)) <= MaxPending

(* The counters are those of the current period; no later one has begun.   *)
CurrentSound(t, u) ==
  /\ t.c.base <= t.c.add /\ t.c.base <= t.c.sentAdd
  /\ Known(t) => /\ t.p.end > t.p.start
                 /\ u[t.p.start] = OfPeriod(t.c)
                 /\ \A p \in Start : p > t.p.start => u[p] = NoUnits
  /\ ~Known(t) => /\ \A p \in Start : u[p] = NoUnits
                  /\ t.c.sub = 0 /\ t.c.add = 0 /\ t.c.sentSub = 0 /\ t.c.sentAdd = 0

(* What was counted or, for the current period, what is believed sent is   *)
(* in the outbox or in the ledger.                                         *)
SentOf(c) == [sub |-> c.sentSub, add |-> c.sentAdd - c.base]
Stored(t, p) == Put(ledger[p], 0, t.o[p])
StoredSound(t, u) ==
  ~gone => /\ \A p \in Start : p # t.p.start => AtMost(u[p], Stored(t, p))
           /\ Known(t) => AtMost(SentOf(t.c), Stored(t, t.p.start))

(* No row claims more than was counted. *)
RowsSound(t, u, e) ==
  /\ \A p \in Start : AtMost(t.o[p], u[p])
  /\ \A p \in Start : p \notin e => AtMost(ledger[p], u[p])

TablesSound(t, u, e) ==
  Typed(t, u) /\ CurrentSound(t, u) /\ StoredSound(t, u) /\ RowsSound(t, u, e)

(* Nothing was counted in the span in which an estimate may be corrected   *)
(* to have begun.                                                          *)
Length(p) == p.end - p.start
SpanIsEmpty(t, u) ==
  \A p \in Start : p > t.p.start - Length(t.p) /\ p < t.p.start => u[p] = NoUnits
EstimateSound(t, u) ==
  Known(t) /\ t.p.estimated => t.p.start <= now /\ SpanIsEmpty(t, u)

(* Nor does a snapshot that is still to be sent or to be executed; and the *)
(* one that is about to be confirmed has arrived.                          *)
SnapshotsSound(u, e) ==
  \A s \in push.left \cup late : s.start \notin e => AtMost(s, u[s.start])
PushSound ==
  /\ push.at \in {"send", "confirm"} => push.left # {}
  /\ push.at = "confirm" /\ ~gone =>
       AtMost(First(push.left), ledger[First(push.left).start])

EnvironmentTyped ==
  /\ now \in 0..MaxTime
  /\ ledger \in [Start -> Row]
  /\ alarm \in BOOLEAN /\ gone \in BOOLEAN
  /\ push \in [at : {"idle", "send", "confirm", "end"}, left : SUBSET Snapshot]
  /\ IsFiniteSet(push.left) /\ Cardinality(push.left) <= PageSize
  /\ late \subseteq Snapshot
  /\ estimates \subseteq Start
  /\ faults \in 0..MaxFaults

UsageInv ==
  /\ EnvironmentTyped
  /\ TablesSound(Tables, counted, estimates)
  /\ EstimateSound(Tables, counted)
  /\ SnapshotsSound(counted, estimates)
  /\ PushSound

-----------------------------------------------------------------------------
(* Rows *)

LEMMA LargerFacts ==
  ASSUME NEW a \in Nat, NEW b \in Nat
  PROVE  /\ Larger(a, b) \in Nat /\ Larger(a, b) >= a /\ Larger(a, b) >= b
         /\ Larger(a, b) \in {a, b} /\ Larger(a, 0) = a
BY DEF Larger

LEMMA PutFacts ==
  ASSUME NEW row \in Row, NEW units, NEW end \in Nat,
         units.sub \in Nat, units.add \in Nat
  PROVE  /\ Put(row, end, units) \in Row
         /\ AtMost(row, Put(row, end, units)) /\ AtMost(units, Put(row, end, units))
         /\ \A bound \in Units : AtMost(row, bound) /\ AtMost(units, bound)
                                   => AtMost(Put(row, end, units), bound)
         /\ Put(row, end, units).end = end
<1>1. row.sub \in Nat /\ row.add \in Nat
  BY DEF Row
<1> QED BY <1>1, LargerFacts DEF Put, Row, AtMost, Units

LEMMA AtMostTrans ==
  ASSUME NEW a, NEW b, NEW c,
         a.sub \in Nat, a.add \in Nat, b.sub \in Nat, b.add \in Nat,
         c.sub \in Nat, c.add \in Nat, AtMost(a, b), AtMost(b, c)
  PROVE  AtMost(a, c)
BY DEF AtMost

LEMMA StartType ==
  /\ Start \subseteq Nat /\ IsFiniteSet(Start) /\ Unknown \notin Start
  /\ \A p \in Start : p <= MaxTime
<1>1. MaxTime \in Nat
  OBVIOUS
<1>2. IsFiniteSet(0..MaxTime)
  BY <1>1, FS_Interval
<1>3. Start \subseteq Nat
  BY <1>1 DEF Start
<1> QED BY <1>1, <1>2, <1>3 DEF Start

LEMMA WaitingFinite ==
  ASSUME NEW box
  PROVE  IsFiniteSet(Waiting(box)) /\ Cardinality(Waiting(box)) \in Nat
BY StartType, FS_Subset, FS_CardinalityType DEF Waiting

(* The units of the current period. *)
LEMMA CurrentUnits ==
  ASSUME NEW t, NEW u, Typed(t, u), CurrentSound(t, u)
  PROVE  /\ OfPeriod(t.c) \in Units /\ SentOf(t.c) \in Units
         /\ OfPeriod(t.c).sub = t.c.sub /\ OfPeriod(t.c).add = t.c.add - t.c.base
BY DEF Typed, CurrentSound, TablesType, Counters, OfPeriod, SentOf, Units

LEMMA TablesFields ==
  ASSUME NEW t, NEW u, Typed(t, u)
  PROVE  /\ t.p \in Period /\ t.c \in Counters /\ t.o \in [Start -> Row]
         /\ Known(t) => t.p.start \in Start /\ t.p.start \in Nat
         /\ t.p.end \in Nat /\ t.p.estimated \in BOOLEAN
         /\ t.p.monthly \in Nat /\ t.p.addon \in Nat
         /\ t.c.sub \in Nat /\ t.c.add \in Nat /\ t.c.base \in Nat
         /\ t.c.sentSub \in Nat /\ t.c.sentAdd \in Nat
         /\ \A p \in Start : u[p] \in Units /\ t.o[p] \in Row
BY StartType DEF Typed, TablesType, Known, Period, Counters

-----------------------------------------------------------------------------
(* Staging *)

LEMMA StagedFields ==
  ASSUME NEW t, NEW u, Typed(t, u), Known(t)
  PROVE  /\ Staged(t).p = t.p /\ Staged(t).c = t.c
         /\ Staged(t) = [p |-> t.p, c |-> t.c, o |-> Staged(t).o]
         /\ Staged(t).o = [t.o EXCEPT ![t.p.start] =
                             Put(t.o[t.p.start], t.p.end, OfPeriod(t.c))]
BY TablesFields DEF Staged, Typed, TablesType

LEMMA StagedSound ==
  ASSUME NEW t, NEW u, NEW e, TablesSound(t, u, e), Known(t), HasRoom(t),
         ledger \in [Start -> Row]
  PROVE  /\ TablesSound(Staged(t), u, e)
         /\ AtMost(u[t.p.start], Stored(Staged(t), t.p.start))
<1> DEFINE s == Staged(t)
           start == t.p.start
           row == Put(t.o[start], t.p.end, OfPeriod(t.c))
<1>1. Typed(t, u) /\ CurrentSound(t, u) /\ StoredSound(t, u) /\ RowsSound(t, u, e)
  BY DEF TablesSound
<1>2. /\ start \in Start /\ t.o \in [Start -> Row] /\ t.o[start] \in Row
      /\ t.p \in Period /\ t.c \in Counters /\ t.p.end \in Nat
      /\ u[start] \in Units
  BY <1>1, TablesFields
<1>3. /\ OfPeriod(t.c) \in Units /\ u[start] = OfPeriod(t.c) /\ SentOf(t.c) \in Units
  BY <1>1, CurrentUnits DEF CurrentSound
<1>4. /\ row \in Row /\ AtMost(t.o[start], row) /\ AtMost(u[start], row)
      /\ AtMost(row, u[start]) /\ row.end = t.p.end
  <2>1. OfPeriod(t.c).sub \in Nat /\ OfPeriod(t.c).add \in Nat
    BY <1>3 DEF Units
  <2>2. AtMost(OfPeriod(t.c), u[start]) /\ AtMost(t.o[start], u[start])
    BY <1>1, <1>2, <1>3, <2>1 DEF AtMost, RowsSound
  <2> QED BY <1>2, <1>3, <2>1, <2>2, PutFacts
<1>5. /\ s.p = t.p /\ s.c = t.c /\ s.o = [t.o EXCEPT ![start] = row]
      /\ s = [p |-> t.p, c |-> t.c, o |-> s.o]
  BY <1>1, StagedFields
<1> HIDE DEF s, row
<1>6. /\ s.o \in [Start -> Row] /\ s.o[start] = row
      /\ \A p \in Start : p # start => s.o[p] = t.o[p]
  BY <1>2, <1>4, <1>5
<1>7. Typed(s, u)
  <2>1. s \in TablesType
    BY <1>2, <1>5, <1>6 DEF TablesType
  <2>2. Waiting(s.o) \subseteq Waiting(t.o) \cup {start}
    BY <1>6 DEF Waiting
  <2>3. CASE t.o[start] # NoRow
    <3>1. Waiting(s.o) \subseteq Waiting(t.o)
      BY <1>2, <2>2, <2>3 DEF Waiting
    <3>2. Cardinality(Waiting(s.o)) <= Cardinality(Waiting(t.o))
      BY <3>1, WaitingFinite, FS_Subset
    <3> QED BY <1>1, <2>1, <3>2, WaitingFinite DEF Typed
  <2>4. CASE t.o[start] = NoRow
    <3>1. Cardinality(Waiting(t.o)) < MaxPending
      BY <2>4 DEF HasRoom
    <3>2. start \notin Waiting(t.o)
      BY <2>4 DEF Waiting
    <3>3. /\ IsFiniteSet(Waiting(t.o) \cup {start})
          /\ Cardinality(Waiting(t.o) \cup {start}) = Cardinality(Waiting(t.o)) + 1
      BY <3>2, WaitingFinite, FS_AddElement
    <3>4. Cardinality(Waiting(s.o)) <= Cardinality(Waiting(t.o) \cup {start})
      BY <2>2, <3>3, FS_Subset
    <3> QED BY <1>1, <2>1, <3>1, <3>3, <3>4, WaitingFinite DEF Typed
  <2> QED BY <2>3, <2>4
<1>8. CurrentSound(s, u)
  BY <1>1, <1>5 DEF CurrentSound, Known
<1>9. RowsSound(s, u, e)
  BY <1>1, <1>4, <1>6 DEF RowsSound
<1>10. /\ AtMost(row, Stored(s, start)) /\ Stored(s, start) \in Row
       /\ Stored(t, start) \in Row
       /\ \A p \in Start : p # start => Stored(s, p) = Stored(t, p)
  <2>1. ASSUME NEW r \in Row
        PROVE  /\ Put(ledger[start], 0, r) \in Row
               /\ AtMost(r, Put(ledger[start], 0, r))
    <3>1. ledger[start] \in Row /\ 0 \in Nat /\ r.sub \in Nat /\ r.add \in Nat
      BY <1>2 DEF Row
    <3> QED BY <3>1, PutFacts
  <2>2. Stored(s, start) = Put(ledger[start], 0, row)
    BY <1>6 DEF Stored
  <2>3. Stored(t, start) = Put(ledger[start], 0, t.o[start])
    BY DEF Stored
  <2>4. \A p \in Start : p # start => Stored(s, p) = Stored(t, p)
    BY <1>6 DEF Stored
  <2> QED BY <1>2, <1>4, <2>1, <2>2, <2>3, <2>4
<1>11. AtMost(Stored(t, start), Stored(s, start))
  <2>1. ledger[start] \in Row
    BY <1>2
  <2> QED BY <1>2, <1>4, <1>6, <2>1, LargerFacts DEF Stored, Put, AtMost, Larger, Row
<1>12. AtMost(u[start], Stored(s, start))
  BY <1>2, <1>4, <1>10, AtMostTrans DEF Units, Row
<1>13. StoredSound(s, u)
  <2>1. ASSUME ~gone  PROVE  AtMost(SentOf(s.c), Stored(s, start))
    <3>1. AtMost(SentOf(t.c), Stored(t, start))
      BY <1>1, <2>1 DEF StoredSound
    <3> QED BY <1>3, <1>5, <1>10, <1>11, <3>1, AtMostTrans DEF Units, Row
  <2>2. ASSUME ~gone, NEW p \in Start, p # start  PROVE  AtMost(u[p], Stored(s, p))
    BY <1>1, <1>10, <2>2 DEF StoredSound
  <2> QED BY <1>5, <2>1, <2>2 DEF StoredSound
<1> QED BY <1>7, <1>8, <1>9, <1>12, <1>13 DEF TablesSound, s

(* What is left of the current period is stored before it ends. *)
LEMMA StageSound ==
  ASSUME NEW t, NEW u, NEW e, TablesSound(t, u, e), Known(t),
         ledger \in [Start -> Row], NEW s \in Stage(t)
  PROVE  /\ TablesSound(s, u, e) /\ s.p = t.p /\ s.c = t.c
         /\ ~gone => AtMost(u[t.p.start], Stored(s, t.p.start))
<1>1. Typed(t, u) /\ CurrentSound(t, u) /\ StoredSound(t, u)
  BY DEF TablesSound
<1>2. CASE ~Unsent(t)
  <2>1. s = t
    BY <1>2 DEF Stage
  <2>2. t.c.sub = t.c.sentSub /\ t.c.add = t.c.sentAdd
    BY <1>2 DEF Unsent
  <2>3. u[t.p.start] = SentOf(t.c)
    BY <1>1, <2>2 DEF CurrentSound, OfPeriod, SentOf
  <2> QED BY <1>1, <2>1, <2>3 DEF StoredSound
<1>3. CASE Unsent(t) /\ HasRoom(t)
  <2>1. s = Staged(t)
    BY <1>3 DEF Stage
  <2> QED BY <1>1, <1>3, <2>1, StagedSound, StagedFields
<1>4. CASE Unsent(t) /\ ~HasRoom(t)
  BY <1>4 DEF Stage
<1> QED BY <1>2, <1>3, <1>4

-----------------------------------------------------------------------------
(* Moving on to a later period *)

LEMMA MoveSound ==
  ASSUME NEW t, NEW u, NEW e, TablesSound(t, u, e), Known(t),
         ledger \in [Start -> Row], NEW start \in Start, NEW end \in Nat,
         NEW estimated \in BOOLEAN, start > t.p.start, end > start,
         NEW s \in MovePeriod(t, start, end, estimated)
  PROVE  /\ TablesSound(s, u, e)
         /\ s.p.start = start /\ s.p.end = end /\ s.p.estimated = estimated
         /\ s.c.add = t.c.add /\ s.p.monthly = t.p.monthly /\ s.p.addon = t.p.addon
<1>1. PICK r \in Stage(t) :
        s = [r EXCEPT !.p = [@ EXCEPT !.start = start, !.end = end,
                                      !.estimated = estimated],
                      !.c = [@ EXCEPT !.sub = 0, !.base = t.c.add,
                                      !.sentSub = 0, !.sentAdd = t.c.add]]
  BY DEF MovePeriod
<1>2. /\ Typed(t, u) /\ CurrentSound(t, u)
      /\ t.p.start \in Start /\ t.p.start \in Nat /\ t.c \in Counters
      /\ t.c.add \in Nat
  BY TablesFields DEF TablesSound
<1>3. /\ TablesSound(r, u, e) /\ r.p = t.p /\ r.c = t.c
      /\ ~gone => AtMost(u[t.p.start], Stored(r, t.p.start))
  BY StageSound
<1>4. Typed(r, u) /\ StoredSound(r, u) /\ RowsSound(r, u, e) /\ r \in TablesType
  BY <1>3 DEF TablesSound, Typed
<1>5. /\ s \in TablesType /\ s.o = r.o
      /\ s.p.start = start /\ s.p.end = end /\ s.p.estimated = estimated
      /\ s.c.sub = 0 /\ s.c.add = t.c.add /\ s.c.base = t.c.add
      /\ s.c.sentSub = 0 /\ s.c.sentAdd = t.c.add
      /\ s.p.monthly = t.p.monthly /\ s.p.addon = t.p.addon
  <2>1. /\ s \in TablesType /\ s.o = r.o
        /\ s.p.start = start /\ s.p.end = end /\ s.p.estimated = estimated
        /\ s.c.sub = 0 /\ s.c.add = r.c.add /\ s.c.base = t.c.add
        /\ s.c.sentSub = 0 /\ s.c.sentAdd = t.c.add
        /\ s.p.monthly = r.p.monthly /\ s.p.addon = r.p.addon
    BY <1>1, <1>2, <1>4 DEF TablesType, Period, Counters
  <2> QED BY <1>3, <2>1
<1>6. Known(s)
  BY <1>5, StartType DEF Known
<1>7. Typed(s, u)
  BY <1>4, <1>5 DEF Typed
<1>8. CurrentSound(s, u)
  <2>1. OfPeriod(s.c) = NoUnits
    BY <1>2, <1>5 DEF OfPeriod, NoUnits
  <2>2. ASSUME NEW p \in Start, p >= start  PROVE  u[p] = NoUnits
    <3>1. p \in Nat /\ start \in Nat
      BY StartType
    <3>2. p > t.p.start
      BY <1>2, <2>2, <3>1
    <3> QED BY <1>2, <1>6, <3>2 DEF CurrentSound
  <2> QED BY <1>2, <1>5, <1>6, <2>1, <2>2, StartType DEF CurrentSound
<1>9. StoredSound(s, u)
  <2>1. \A p \in Start : Stored(s, p) = Stored(r, p)
    BY <1>5 DEF Stored
  <2>2. ASSUME ~gone, NEW p \in Start  PROVE  AtMost(u[p], Stored(s, p))
    BY <1>3, <1>4, <2>1, <2>2 DEF StoredSound
  <2>3. u[start] = NoUnits
    BY <1>2, StartType DEF CurrentSound
  <2>4. SentOf(s.c) = NoUnits
    BY <1>2, <1>5 DEF SentOf, NoUnits
  <2> QED BY <1>5, <2>2, <2>3, <2>4 DEF StoredSound
<1>10. RowsSound(s, u, e)
  BY <1>4, <1>5 DEF RowsSound
<1> QED BY <1>5, <1>7, <1>8, <1>9, <1>10 DEF TablesSound

-----------------------------------------------------------------------------
(* Rolling the period forward *)

LEMMA QuotientFacts ==
  ASSUME NEW a \in Nat, NEW m \in Nat \ {0}, a >= m
  PROVE  a \div m \in Nat \ {0} /\ (a \div m) * m <= a
OBVIOUS

LEMMA MultipleFacts ==
  ASSUME NEW q \in Nat \ {0}, NEW m \in Nat \ {0}
  PROVE  q * m \in Nat /\ q * m >= m
OBVIOUS

(* The clock's estimate starts a whole length after the period it leaves,  *)
(* so nothing was counted in the span before it.                           *)
LEMMA RollSound ==
  ASSUME NEW t, NEW u, NEW e, TablesSound(t, u, e), Known(t),
         ledger \in [Start -> Row], now \in 0..MaxTime,
         now >= t.p.end \/ EstimateSound(t, u), NEW s \in Roll(t)
  PROVE  /\ TablesSound(s, u, e) /\ Known(s) /\ EstimateSound(s, u)
         /\ s.c.add = t.c.add /\ s.p.monthly = t.p.monthly /\ s.p.addon = t.p.addon
<1>1. /\ CurrentSound(t, u) /\ Typed(t, u)
      /\ t.p.start \in Start /\ t.p.start \in Nat /\ t.p.end \in Nat /\ now \in Nat
      /\ t.p.end > t.p.start
  BY TablesFields DEF TablesSound, CurrentSound
<1>2. CASE now < t.p.end
  <2>1. s = t
    BY <1>2 DEF Roll
  <2> QED BY <1>1, <1>2, <2>1
<1>3. CASE ~(now < t.p.end)
  <2> DEFINE duration == t.p.end - t.p.start
             quotient == (now - t.p.start) \div duration
             start == t.p.start + quotient * duration
  <2>1. s \in MovePeriod(t, start, start + duration, TRUE)
    BY <1>3, Zenon DEF Roll
  <2>2. duration \in Nat \ {0} /\ now - t.p.start \in Nat /\ now - t.p.start >= duration
    BY <1>1, <1>3
  <2> HIDE DEF duration
  <2>3. quotient \in Nat \ {0} /\ quotient * duration <= now - t.p.start
    BY <2>2, QuotientFacts
  <2> HIDE DEF quotient
  <2> DEFINE product == quotient * duration
  <2>4. product \in Nat /\ product >= duration /\ product <= now - t.p.start
    BY <2>2, <2>3, MultipleFacts
  <2>5. start = t.p.start + product
    OBVIOUS
  <2> HIDE DEF product, start
  <2>6. /\ start \in Nat /\ start > t.p.start /\ start <= now
        /\ start - duration >= t.p.start
        /\ start + duration \in Nat /\ start + duration > start
    BY <1>1, <2>2, <2>4, <2>5
  <2>66. start \in Start
    <3>1. now <= MaxTime /\ MaxTime \in Nat
      BY <1>1
    <3>2. start <= MaxTime
      BY <1>1, <2>6, <3>1
    <3> QED BY <2>6, <3>1, <3>2 DEF Start
  <2> DEFINE end == start + duration
  <2>7. end \in Nat /\ end > start /\ s \in MovePeriod(t, start, end, TRUE)
    BY <2>1, <2>6
  <2> HIDE DEF end
  <2>77. /\ TablesSound(s, u, e) /\ s.p.start = start /\ s.p.end = end
         /\ s.c.add = t.c.add /\ s.p.monthly = t.p.monthly /\ s.p.addon = t.p.addon
    <3>1. PICK estimated \in BOOLEAN : estimated = TRUE
      OBVIOUS
    <3>2. s \in MovePeriod(t, start, end, estimated)
      BY <2>7, <3>1
    <3> QED BY <2>6, <2>66, <2>7, <3>2, MoveSound
  <2>8. Known(s)
    BY <2>66, <2>77, StartType DEF Known
  <2>9. SpanIsEmpty(s, u)
    <3>1. Length(s.p) = duration
      BY <2>2, <2>6, <2>77 DEF Length, end
    <3>2. ASSUME NEW p \in Start, p > start - duration  PROVE  u[p] = NoUnits
      BY <1>1, <2>2, <2>6, <3>2, StartType DEF CurrentSound
    <3> QED BY <2>77, <3>1, <3>2 DEF SpanIsEmpty
  <2> QED BY <2>6, <2>77, <2>8, <2>9 DEF EstimateSound
<1> QED BY <1>1, <1>2, <1>3

-----------------------------------------------------------------------------
(* Adopting a configuration *)

(* Units are only added, and a corrected estimate's are taken along. *)
MovedUnits(t, u, kv) ==
  IF Known(t) /\ Corrects(kv, t.p)
  THEN [u EXCEPT ![kv.start] = [sub |-> @.sub + u[t.p.start].sub,
                                add |-> @.add + u[t.p.start].add],
                 ![t.p.start] = NoUnits]
  ELSE u
MovedStarts(t, e, kv) ==
  IF Known(t) /\ Corrects(kv, t.p) THEN e \cup {t.p.start} ELSE e

(* What a correction by the configuration makes of the tables. *)
HasCorrected(s, t, kv) ==
  /\ s \in TablesType /\ s.o = [t.o EXCEPT ![t.p.start] = NoRow]
  /\ s.p.start = kv.start /\ s.p.end = kv.end /\ s.p.estimated = FALSE
  /\ s.c.sub = t.c.sub /\ s.c.add = t.c.add /\ s.c.base = t.c.base
  /\ s.c.sentSub = 0 /\ s.c.sentAdd = t.c.base

LEMMA CorrectedFields ==
  ASSUME NEW t, NEW u, Typed(t, u), Known(t), NEW kv \in Configs, kv.start # Unknown
  PROVE  HasCorrected(Corrected(t, kv), t, kv)
<1>1. /\ t.p \in Period /\ t.c \in Counters /\ t.o \in [Start -> Row]
      /\ t.c.base \in Nat /\ kv.start \in Start /\ kv.end \in Nat /\ NoRow \in Row
  BY TablesFields DEF Start, NoRow, Row
<1>2. [t.o EXCEPT ![t.p.start] = NoRow] \in [Start -> Row]
  BY <1>1
<1> QED BY <1>1, <1>2 DEF HasCorrected, Corrected, TablesType, Period, Counters

(* The span in which a corrected estimate may begin is empty, so that the   *)
(* correction swaps the units of two periods, one of them none.            *)
LEMMA CorrectionSwaps ==
  ASSUME NEW t, NEW u, NEW e, TablesSound(t, u, e), EstimateSound(t, u), Known(t),
         NEW kv \in Configs, Corrects(kv, t.p)
  PROVE  /\ kv.start \in Start /\ kv.start \in Nat /\ kv.start # t.p.start
         /\ kv.end > kv.start /\ t.p.start \in Start
         /\ \A p \in Start : p >= kv.start /\ p # t.p.start => u[p] = NoUnits
         /\ u[kv.start] = NoUnits /\ u[t.p.start] \in Units
         /\ MovedUnits(t, u, kv) =
              [u EXCEPT ![kv.start] = u[t.p.start], ![t.p.start] = NoUnits]
<1> DEFINE v == MovedUnits(t, u, kv)
           start == kv.start
           old == t.p.start
<1>1. /\ CurrentSound(t, u)
      /\ old \in Start /\ old \in Nat /\ u \in [Start -> Units] /\ t.p.end \in Nat
  BY TablesFields DEF TablesSound, Typed
<1>2. start \in Start /\ start \in Nat /\ start # old /\ kv.end > start
  BY StartType DEF Authoritative, Corrects, Start
<1>4. \A p \in Start : p >= start /\ p # old => u[p] = NoUnits
  <2>1. start > old - Length(t.p) /\ SpanIsEmpty(t, u)
    BY DEF Corrects, EstimateSound, Length
  <2>2. \A p \in Start : p > old => u[p] = NoUnits
    BY <1>1 DEF CurrentSound
  <2>3. Length(t.p) \in Int
    BY <1>1 DEF Length
  <2>4. ASSUME NEW p \in Start, p >= start, p # old  PROVE  u[p] = NoUnits
    <3>1. p \in Nat
      BY StartType
    <3>2. CASE p > old
      BY <2>2, <3>2
    <3>3. CASE ~(p > old)
      <4>1. p > old - Length(t.p) /\ p < old
        BY <1>1, <1>2, <2>1, <2>3, <2>4, <3>1, <3>3
      <4> QED BY <2>1, <4>1 DEF SpanIsEmpty
    <3> QED BY <3>2, <3>3
  <2> QED BY <2>4
<1>5. u[start] = NoUnits /\ u[old] \in Units
  BY <1>1, <1>2, <1>4
<1>6. v = [u EXCEPT ![start] = u[old], ![old] = NoUnits]
  <2>1. [sub |-> u[start].sub + u[old].sub, add |-> u[start].add + u[old].add] = u[old]
    BY <1>5 DEF NoUnits, Units
  <2> QED BY <1>1, <1>2, <2>1 DEF MovedUnits
<1> QED BY <1>1, <1>2, <1>4, <1>5, <1>6

LEMMA CorrectedSound ==
  ASSUME NEW t, NEW u, NEW e, TablesSound(t, u, e), EstimateSound(t, u), Known(t),
         ledger \in [Start -> Row], NEW kv \in Configs, Authoritative(kv),
         Corrects(kv, t.p)
  PROVE  /\ TablesSound(Corrected(t, kv), MovedUnits(t, u, kv), MovedStarts(t, e, kv))
         /\ Known(Corrected(t, kv)) /\ ~Corrected(t, kv).p.estimated
<1> DEFINE s == Corrected(t, kv)
           v == MovedUnits(t, u, kv)
           start == kv.start
           old == t.p.start
<1>1. /\ Typed(t, u) /\ CurrentSound(t, u) /\ StoredSound(t, u) /\ RowsSound(t, u, e)
      /\ old \in Start /\ old \in Nat /\ u \in [Start -> Units] /\ t.p.end \in Nat
      /\ t.c.add \in Nat /\ t.c.base \in Nat
  BY TablesFields DEF TablesSound, Typed
<1>2. start \in Start /\ start \in Nat /\ start # old /\ kv.end > start
  BY CorrectionSwaps
<1>3. /\ s \in TablesType /\ s.o = [t.o EXCEPT ![old] = NoRow]
      /\ s.p.start = start /\ s.p.end = kv.end /\ s.p.estimated = FALSE
      /\ s.c.sub = t.c.sub /\ s.c.add = t.c.add /\ s.c.base = t.c.base
      /\ s.c.sentSub = 0 /\ s.c.sentAdd = t.c.base
  <2>1. kv.start # Unknown
    BY DEF Authoritative
  <2>2. HasCorrected(s, t, kv)
    BY <1>1, <2>1, CorrectedFields
  <2> HIDE DEF s
  <2> QED BY <2>2, Zenon DEF HasCorrected
<1>4. \A p \in Start : p >= start /\ p # old => u[p] = NoUnits
  BY CorrectionSwaps
<1>5. u[start] = NoUnits /\ u[old] \in Units
  BY CorrectionSwaps
<1>6. v = [u EXCEPT ![start] = u[old], ![old] = NoUnits]
  BY CorrectionSwaps
<1>7. /\ v \in [Start -> Units] /\ v[start] = u[old] /\ v[old] = NoUnits
      /\ \A p \in Start \ {start, old} : v[p] = u[p]
  <2>1. NoUnits \in Units
    BY DEF NoUnits, Units
  <2> QED BY <1>1, <1>2, <1>5, <1>6, <2>1
<1> HIDE DEF s, v
<1>8. Known(s)
  BY <1>2, <1>3, StartType DEF Known
<1>9. /\ s.o[old] = NoRow
      /\ \A p \in Start \ {old} : s.o[p] = t.o[p]
  BY <1>1, <1>3 DEF Typed, TablesType
<1>10. Typed(s, v)
  <2>1. Waiting(s.o) \subseteq Waiting(t.o)
    BY <1>9 DEF Waiting
  <2>2. Cardinality(Waiting(s.o)) <= Cardinality(Waiting(t.o))
    BY <2>1, WaitingFinite, FS_Subset
  <2> QED BY <1>1, <1>3, <1>7, <2>2, WaitingFinite DEF Typed
<1>11. CurrentSound(s, v)
  <2>1. OfPeriod(s.c) = OfPeriod(t.c)
    BY <1>3 DEF OfPeriod
  <2>2. v[start] = OfPeriod(s.c)
    BY <1>1, <1>7, <2>1 DEF CurrentSound
  <2>3. ASSUME NEW p \in Start, p > start  PROVE  v[p] = NoUnits
    <3>1. p >= start /\ p # start
      BY <1>2, <2>3, StartType
    <3> QED BY <1>4, <1>7, <3>1
  <2> QED BY <1>1, <1>2, <1>3, <1>8, <2>2, <2>3 DEF CurrentSound
<1>12. StoredSound(s, v)
  <2>1. SentOf(s.c) = NoUnits
    BY <1>1, <1>3 DEF SentOf, NoUnits
  <2>2. \A p \in Start : Stored(s, p) \in Row
    BY <1>1, <1>3, PutFacts DEF Stored, TablesType, Row
  <2>3. \A p \in Start : AtMost(NoUnits, Stored(s, p))
    BY <2>2 DEF AtMost, NoUnits, Row
  <2>4. ASSUME ~gone, NEW p \in Start, p # start, p # old
        PROVE  AtMost(v[p], Stored(s, p))
    BY <1>1, <1>7, <1>9, <2>4 DEF StoredSound, Stored
  <2> QED BY <1>2, <1>3, <1>7, <2>1, <2>3, <2>4 DEF StoredSound
<1>13. RowsSound(s, v, MovedStarts(t, e, kv))
  <2>1. MovedStarts(t, e, kv) = e \cup {old}
    BY DEF MovedStarts
  <2>2. \A p \in Start \ {old} : AtMost(u[p], v[p])
    BY <1>1, <1>5, <1>7 DEF AtMost, Units, NoUnits
  <2>3. ASSUME NEW p \in Start  PROVE  AtMost(s.o[p], v[p])
    <3>1. CASE p = old
      BY <1>7, <1>9, <3>1 DEF AtMost, NoRow, NoUnits
    <3>2. CASE p # old
      <4>1. AtMost(t.o[p], u[p]) /\ t.o[p] \in Row /\ u[p] \in Units /\ v[p] \in Units
        BY <1>1, <1>7, TablesFields DEF RowsSound
      <4> QED BY <1>9, <2>2, <3>2, <4>1 DEF AtMost, Row, Units
    <3> QED BY <3>1, <3>2
  <2>4. ASSUME NEW p \in Start, p \notin e \cup {old}  PROVE  AtMost(ledger[p], v[p])
    <3>1. /\ AtMost(ledger[p], u[p]) /\ ledger[p] \in Row /\ u[p] \in Units
          /\ v[p] \in Units
      BY <1>1, <1>7, <2>4 DEF RowsSound
    <3> QED BY <2>2, <2>4, <3>1 DEF AtMost, Row, Units
  <2> QED BY <2>1, <2>3, <2>4 DEF RowsSound
<1> QED BY <1>3, <1>8, <1>10, <1>11, <1>12, <1>13 DEF TablesSound, s, v

LEMMA NewEndSound ==
  ASSUME NEW t, NEW u, NEW e, TablesSound(t, u, e), Known(t),
         ledger \in [Start -> Row], NEW kv \in Configs, kv.start = t.p.start,
         NEW s \in NewEnd(t, kv)
  PROVE  /\ TablesSound(s, u, e)
         /\ s.p.start = t.p.start /\ s.p.end = kv.end
         /\ s.p.estimated = t.p.estimated /\ s.c.add = t.c.add
<1> DEFINE r == [t EXCEPT !.p.end = kv.end]
<1>1. /\ Typed(t, u) /\ CurrentSound(t, u) /\ StoredSound(t, u) /\ RowsSound(t, u, e)
      /\ t \in TablesType /\ t.p \in Period
  BY TablesFields DEF TablesSound, Typed
<1>2. kv.end \in Nat /\ kv.end > t.p.start
  BY DEF Known
<1>3. HasRoom(r) /\ s = Staged(r)
  BY DEF NewEnd
<1>4. /\ r \in TablesType /\ r.c = t.c /\ r.o = t.o
      /\ r.p.start = t.p.start /\ r.p.end = kv.end /\ r.p.estimated = t.p.estimated
  BY <1>1, <1>2 DEF TablesType, Period
<1> HIDE DEF r
<1>5. Known(r) /\ Typed(r, u)
  BY <1>1, <1>4 DEF Known, Typed
<1>6. CurrentSound(r, u)
  BY <1>1, <1>2, <1>4, <1>5 DEF CurrentSound
<1>7. StoredSound(r, u) /\ RowsSound(r, u, e)
  BY <1>1, <1>4, <1>5 DEF StoredSound, RowsSound, Stored
<1>8. TablesSound(r, u, e)
  BY <1>5, <1>6, <1>7 DEF TablesSound
<1> QED BY <1>3, <1>4, <1>5, <1>8, StagedSound, StagedFields

LEMMA EntitleSound ==
  ASSUME NEW t, NEW u, NEW e, TablesSound(t, u, e), Known(t),
         NEW kv \in Configs, NEW old
  PROVE  /\ TablesSound(Entitle(t, kv, old), u, e)
         /\ Entitle(t, kv, old).p.start = t.p.start
         /\ Entitle(t, kv, old).p.end = t.p.end
         /\ Entitle(t, kv, old).c.add = t.c.add
         /\ Entitle(t, kv, old).p.monthly = kv.monthly
         /\ Entitle(t, kv, old).p.addon = kv.addon
         /\ Entitle(t, kv, old).p.estimated
              => /\ t.p.estimated
                 /\ ~(Authoritative(kv) /\ kv.start = old.start /\ Covers(kv))
<1> DEFINE s == Entitle(t, kv, old)
           confirmed == Authoritative(kv) /\ kv.start = old.start /\ Covers(kv)
<1>1. /\ Typed(t, u) /\ CurrentSound(t, u) /\ StoredSound(t, u) /\ RowsSound(t, u, e)
      /\ t \in TablesType /\ t.p \in Period /\ t.p.estimated \in BOOLEAN
  BY TablesFields DEF TablesSound, Typed
<1>2. kv.monthly \in Nat /\ kv.addon \in Nat
  OBVIOUS
<1> DEFINE Entitled(b) == [t EXCEPT !.p.estimated = b, !.p.monthly = kv.monthly,
                                    !.p.addon = kv.addon]
<1>3. PICK estimated \in BOOLEAN : estimated = (t.p.estimated /\ ~confirmed)
  OBVIOUS
<1>30. s = Entitled(t.p.estimated /\ ~confirmed)
  BY Zenon DEF Entitle
<1>4. s = Entitled(estimated)
  BY <1>3, <1>30, Zenon
<1> HIDE DEF s
<1>5. /\ s \in TablesType /\ s.c = t.c /\ s.o = t.o
      /\ s.p.start = t.p.start /\ s.p.end = t.p.end /\ s.p.estimated = estimated
      /\ s.p.monthly = kv.monthly /\ s.p.addon = kv.addon
  BY <1>1, <1>2, <1>4 DEF TablesType, Period
<1>6. Known(s) /\ Typed(s, u)
  BY <1>1, <1>5 DEF Known, Typed
<1>7. CurrentSound(s, u) /\ StoredSound(s, u) /\ RowsSound(s, u, e)
  BY <1>1, <1>5, <1>6 DEF CurrentSound, StoredSound, RowsSound, Stored
<1> QED BY <1>3, <1>5, <1>6, <1>7 DEF TablesSound, s

LEMMA FirstPeriodSound ==
  ASSUME NEW t, NEW u, NEW e, TablesSound(t, u, e), ~Known(t), now \in 0..MaxTime,
         ledger \in [Start -> Row], NEW kv \in Configs, NEW s \in Configure(t, kv)
  PROVE  /\ TablesSound(s, u, e) /\ Known(s) /\ EstimateSound(s, u)
         /\ s.c.add = t.c.add /\ s.p.monthly = kv.monthly /\ s.p.addon = kv.addon
<1>1. /\ Typed(t, u) /\ CurrentSound(t, u) /\ StoredSound(t, u) /\ RowsSound(t, u, e)
      /\ t \in TablesType /\ t.c \in Counters /\ t.o \in [Start -> Row]
      /\ t.c.base \in Nat
  BY TablesFields DEF TablesSound, Typed
<1>2. /\ \A p \in Start : u[p] = NoUnits
      /\ t.c.sub = 0 /\ t.c.add = 0 /\ t.c.sentSub = 0 /\ t.c.sentAdd = 0 /\ t.c.base = 0
  BY <1>1 DEF CurrentSound
<1> DEFINE p == NewPeriod(kv)
<1>3. p \in Period /\ p.start \in Start /\ p.end > p.start
  <2>1. now \in Start /\ now + Legacy \in Nat /\ now + Legacy > now
    BY DEF Start
  <2>2. kv.monthly \in Nat /\ kv.addon \in Nat /\ kv.end \in Nat
    OBVIOUS
  <2>3. CASE Authoritative(kv)
    <3>1. kv.start \in Start /\ kv.end > kv.start
      BY <2>3 DEF Authoritative, Start
    <3> QED BY <2>2, <2>3, <3>1 DEF NewPeriod, Period
  <2>4. CASE ~Authoritative(kv)
    BY <2>1, <2>2, <2>4 DEF NewPeriod, Period
  <2> QED BY <2>3, <2>4
<1>4. /\ p.estimated => p.start = now
      /\ p.monthly = kv.monthly /\ p.addon = kv.addon
  BY DEF NewPeriod
<1> HIDE DEF p
<1>5. s \in TablesType /\ s.p = p /\ s.c = t.c /\ s.o = t.o
  <2>1. s = [t EXCEPT !.p = p]
    BY DEF Configure, Known, p
  <2> QED BY <1>1, <1>3, <2>1 DEF TablesType
<1>6. Known(s) /\ Typed(s, u)
  BY <1>1, <1>3, <1>5, StartType DEF Known, Typed
<1>7. CurrentSound(s, u)
  <2>1. OfPeriod(s.c) = NoUnits
    BY <1>2, <1>5 DEF OfPeriod, NoUnits
  <2> QED BY <1>1, <1>2, <1>3, <1>5, <1>6, <2>1 DEF CurrentSound
<1>8. StoredSound(s, u)
  <2>1. SentOf(s.c) = NoUnits
    BY <1>2, <1>5 DEF SentOf, NoUnits
  <2>2. \A q \in Start : Stored(s, q) \in Row
    BY <1>1, <1>5, PutFacts DEF Stored, Row
  <2>3. \A q \in Start : AtMost(NoUnits, Stored(s, q))
    BY <2>2 DEF AtMost, NoUnits, Row
  <2> QED BY <1>2, <1>3, <1>5, <2>1, <2>3 DEF StoredSound
<1>9. RowsSound(s, u, e)
  BY <1>1, <1>5 DEF RowsSound
<1>10. EstimateSound(s, u)
  <2>1. now \in Nat
    BY StartType DEF Start
  <2> QED BY <1>2, <1>4, <1>5, <2>1 DEF EstimateSound, SpanIsEmpty
<1> QED BY <1>4, <1>5, <1>6, <1>7, <1>8, <1>9, <1>10 DEF TablesSound

(* A new end leaves an estimate standing only when it has passed. *)
LEMMA ConfigureSound ==
  ASSUME NEW t, NEW u, NEW e, TablesSound(t, u, e), EstimateSound(t, u),
         ledger \in [Start -> Row], now \in 0..MaxTime, NEW kv \in Configs,
         NEW s \in Configure(t, kv)
  PROVE  /\ TablesSound(s, MovedUnits(t, u, kv), MovedStarts(t, e, kv)) /\ Known(s)
         /\ now >= s.p.end \/ EstimateSound(s, MovedUnits(t, u, kv))
         /\ s.c.add = t.c.add /\ s.p.monthly = kv.monthly /\ s.p.addon = kv.addon
<1>1. CASE ~Known(t)
  <2>1. MovedUnits(t, u, kv) = u /\ MovedStarts(t, e, kv) = e
    BY <1>1 DEF MovedUnits, MovedStarts
  <2> QED BY <1>1, <2>1, FirstPeriodSound
<1>2. CASE Known(t)
  <2>1. PICK r \in Adopt(t, kv) : s = Entitle(r, kv, t.p)
    BY <1>2 DEF Configure, Known
  <2> DEFINE v == MovedUnits(t, u, kv)
             f == MovedStarts(t, e, kv)
             confirmed == Authoritative(kv) /\ kv.start = t.p.start /\ Covers(kv)
  <2>2. ASSUME TablesSound(r, v, f), Known(r),
               r.p.estimated /\ ~confirmed => now >= r.p.end \/ EstimateSound(r, v),
               r.c.add = t.c.add
        PROVE  /\ TablesSound(s, v, f) /\ Known(s)
               /\ now >= s.p.end \/ EstimateSound(s, v)
               /\ s.c.add = t.c.add /\ s.p.monthly = kv.monthly /\ s.p.addon = kv.addon
    <3> HIDE DEF v, f
    <3>1. /\ TablesSound(s, v, f) /\ s.p.start = r.p.start /\ s.p.end = r.p.end
          /\ s.p.estimated => r.p.estimated /\ ~confirmed
          /\ s.c.add = r.c.add /\ s.p.monthly = kv.monthly /\ s.p.addon = kv.addon
      BY <2>1, <2>2, EntitleSound
    <3> HIDE DEF confirmed
    <3> QED BY <2>2, <3>1 DEF Known, EstimateSound, SpanIsEmpty, Length
  <2>3. CASE Authoritative(kv) /\ Corrects(kv, t.p)
    <3>1. r = Corrected(t, kv)
      BY <2>3 DEF Adopt
    <3>2. TablesSound(r, v, f) /\ Known(r) /\ ~r.p.estimated
      BY <1>2, <2>3, <3>1, CorrectedSound
    <3>3. r.c.add = t.c.add
      <4>1. Typed(t, u) /\ kv.start # Unknown
        BY <2>3 DEF TablesSound, Authoritative
      <4>2. HasCorrected(Corrected(t, kv), t, kv)
        BY <1>2, <3>1, <4>1, CorrectedFields
      <4> QED BY <3>1, <4>2 DEF HasCorrected
    <3> QED BY <2>2, <3>2, <3>3
  <2>4. CASE ~(Authoritative(kv) /\ Corrects(kv, t.p))
    <3>1. ~Corrects(kv, t.p)
      BY <2>4 DEF Corrects
    <3>2. v = u /\ f = e
      BY <3>1 DEF MovedUnits, MovedStarts
    <3>3. /\ t.p.start \in Start /\ t.p.start \in Nat
      BY <1>2, TablesFields DEF TablesSound
    <3>4. CASE r = t
      BY <1>2, <2>2, <3>2, <3>4
    <3>5. CASE /\ Authoritative(kv) /\ kv.start > t.p.start
               /\ r \in MovePeriod(t, kv.start, kv.end, FALSE)
      <4>1. kv.start \in Start /\ kv.end \in Nat /\ kv.end > kv.start
        BY <3>5 DEF Authoritative, Start
      <4>2. PICK estimated \in BOOLEAN : estimated = FALSE
        OBVIOUS
      <4>3. r \in MovePeriod(t, kv.start, kv.end, estimated)
        BY <3>5, <4>2
      <4>4. /\ TablesSound(r, u, e) /\ r.p.start = kv.start /\ r.p.estimated = estimated
            /\ r.c.add = t.c.add
        BY <1>2, <3>5, <4>1, <4>3, MoveSound
      <4>5. Known(r)
        BY <4>1, <4>4, StartType DEF Known
      <4> QED BY <2>2, <3>2, <4>2, <4>4, <4>5
    <3>6. CASE kv.start = t.p.start /\ r \in NewEnd(t, kv)
      <4>1. /\ TablesSound(r, u, e) /\ r.p.start = t.p.start /\ r.p.end = kv.end
            /\ r.p.estimated = t.p.estimated /\ r.c.add = t.c.add
        BY <1>2, <3>6, NewEndSound
      <4>2. ASSUME r.p.estimated, ~confirmed  PROVE  now >= r.p.end
        <5>1. t.p.start <= now /\ ~Covers(kv)
          BY <1>2, <3>6, <4>1, <4>2 DEF EstimateSound, Authoritative, Known
        <5>2. kv.end \in Nat /\ now \in Nat
          BY StartType DEF Start
        <5> QED BY <3>3, <3>6, <4>1, <5>1, <5>2 DEF Covers
      <4>3. Known(r)
        BY <1>2, <4>1 DEF Known
      <4> QED BY <2>2, <3>2, <4>1, <4>2, <4>3
    <3>7. CASE Authoritative(kv)
      BY <2>1, <3>1, <3>4, <3>5, <3>6, <3>7, Zenon DEF Adopt
    <3>8. CASE ~Authoritative(kv)
      BY <2>1, <3>4, <3>8 DEF Adopt
    <3> QED BY <3>7, <3>8
  <2> QED BY <2>3, <2>4
<1> QED BY <1>1, <1>2

LEMMA DecidedSound ==
  ASSUME NEW t, NEW u, NEW e, TablesSound(t, u, e), EstimateSound(t, u),
         ledger \in [Start -> Row], now \in 0..MaxTime, NEW kv \in Configs,
         NEW s \in UNION {Roll(r) : r \in Configure(t, kv)}
  PROVE  /\ TablesSound(s, MovedUnits(t, u, kv), MovedStarts(t, e, kv))
         /\ Known(s) /\ EstimateSound(s, MovedUnits(t, u, kv))
         /\ s.c.add = t.c.add /\ s.p.monthly = kv.monthly /\ s.p.addon = kv.addon
<1>1. PICK r \in Configure(t, kv) : s \in Roll(r)
  OBVIOUS
<1> DEFINE v == MovedUnits(t, u, kv)
           f == MovedStarts(t, e, kv)
<1>2. /\ TablesSound(r, v, f) /\ Known(r) /\ (now >= r.p.end \/ EstimateSound(r, v))
      /\ r.c.add = t.c.add /\ r.p.monthly = kv.monthly /\ r.p.addon = kv.addon
  BY ConfigureSound
<1> HIDE DEF v, f
<1>3. /\ TablesSound(s, v, f) /\ Known(s) /\ EstimateSound(s, v)
      /\ s.c.add = r.c.add /\ s.p.monthly = r.p.monthly /\ s.p.addon = r.p.addon
  BY <1>1, <1>2, RollSound
<1> QED BY <1>2, <1>3 DEF v, f

(* Units never shrink but where an estimate was corrected. *)
LEMMA MovedGrows ==
  ASSUME NEW t, NEW u, NEW e, TablesSound(t, u, e), NEW kv \in Configs
  PROVE  /\ MovedUnits(t, u, kv) \in [Start -> Units]
         /\ \A p \in Start : p \notin MovedStarts(t, e, kv)
              => p \notin e /\ AtMost(u[p], MovedUnits(t, u, kv)[p])
<1>1. u \in [Start -> Units]
  BY DEF TablesSound, Typed
<1>2. CASE Known(t) /\ Corrects(kv, t.p)
  <2>1. t.p.start \in Start /\ kv.start \in Start
    BY <1>2, TablesFields DEF TablesSound, Corrects, Authoritative, Start
  <2> DEFINE joined == [sub |-> u[kv.start].sub + u[t.p.start].sub,
                        add |-> u[kv.start].add + u[t.p.start].add]
  <2>2. joined \in Units /\ AtMost(u[kv.start], joined) /\ NoUnits \in Units
    BY <1>1, <2>1 DEF Units, AtMost, NoUnits
  <2>3. MovedUnits(t, u, kv) = [u EXCEPT ![kv.start] = joined, ![t.p.start] = NoUnits]
    BY <1>1, <1>2, <2>1 DEF MovedUnits
  <2> HIDE DEF joined
  <2>4. MovedUnits(t, u, kv) \in [Start -> Units]
    BY <1>1, <2>1, <2>2, <2>3
  <2>5. ASSUME NEW p \in Start, p # t.p.start
        PROVE  AtMost(u[p], MovedUnits(t, u, kv)[p])
    BY <1>1, <2>1, <2>2, <2>3, <2>5 DEF AtMost, Units
  <2> QED BY <1>2, <2>4, <2>5 DEF MovedStarts
<1>3. CASE ~(Known(t) /\ Corrects(kv, t.p))
  <2>1. MovedUnits(t, u, kv) = u /\ MovedStarts(t, e, kv) = e
    BY <1>3 DEF MovedUnits, MovedStarts
  <2>2. \A p \in Start : u[p].sub \in Nat /\ u[p].add \in Nat
    BY <1>1 DEF Units
  <2> QED BY <1>1, <2>1, <2>2 DEF AtMost
<1> QED BY <1>2, <1>3

-----------------------------------------------------------------------------
(* Counting a request *)

LEMMA SplitFacts ==
  ASSUME NEW t, NEW u, Typed(t, u), NEW n \in Nat
  PROVE  SplitUnits(t, n) \in Units /\ NoUnits \in Units
<1>1. t.p.monthly \in Nat /\ t.c.sub \in Nat
  BY TablesFields
<1>2. FreeUnits(t) \in Nat
  BY <1>1 DEF FreeUnits, Larger
<1> QED BY <1>2 DEF SplitUnits, Units, NoUnits

CountedTables(t, units) ==
  [p |-> t.p, c |-> [t.c EXCEPT !.sub = @ + units.sub, !.add = @ + units.add], o |-> t.o]
CountedUnits(t, u, units) ==
  [u EXCEPT ![t.p.start] = [sub |-> @.sub + units.sub, add |-> @.add + units.add]]

LEMMA CountSound ==
  ASSUME NEW t, NEW u, NEW e, TablesSound(t, u, e), EstimateSound(t, u), Known(t),
         ledger \in [Start -> Row], NEW units \in Units
  PROVE  /\ TablesSound(CountedTables(t, units), CountedUnits(t, u, units), e)
         /\ EstimateSound(CountedTables(t, units), CountedUnits(t, u, units))
         /\ \A p \in Start : AtMost(u[p], CountedUnits(t, u, units)[p])
<1> DEFINE s == CountedTables(t, units)
           v == CountedUnits(t, u, units)
           start == t.p.start
<1>1. /\ Typed(t, u) /\ CurrentSound(t, u) /\ StoredSound(t, u) /\ RowsSound(t, u, e)
      /\ t.p \in Period /\ t.c \in Counters /\ t.o \in [Start -> Row]
      /\ start \in Start /\ start \in Nat /\ u \in [Start -> Units]
      /\ t.c.sub \in Nat /\ t.c.add \in Nat /\ t.c.base \in Nat
      /\ t.c.sentSub \in Nat /\ t.c.sentAdd \in Nat /\ t.p.end \in Nat
  BY TablesFields DEF TablesSound, Typed
<1>2. /\ units.sub \in Nat /\ units.add \in Nat
      /\ u[start] = OfPeriod(t.c) /\ t.c.base <= t.c.add /\ t.c.base <= t.c.sentAdd
  BY <1>1 DEF Units, CurrentSound
<1>3. /\ s \in TablesType /\ s.p = t.p /\ s.o = t.o
      /\ s.c.sub = t.c.sub + units.sub /\ s.c.add = t.c.add + units.add
      /\ s.c.base = t.c.base /\ s.c.sentSub = t.c.sentSub /\ s.c.sentAdd = t.c.sentAdd
  <2> DEFINE c == [t.c EXCEPT !.sub = @ + units.sub, !.add = @ + units.add]
  <2>0. PICK sub \in Nat, add \in Nat :
          sub = t.c.sub + units.sub /\ add = t.c.add + units.add
    BY <1>1, <1>2
  <2>1. /\ c.sub = t.c.sub + units.sub /\ c.add = t.c.add + units.add
        /\ c.base = t.c.base /\ c.sentSub = t.c.sentSub /\ c.sentAdd = t.c.sentAdd
        /\ c \in Counters
    <3>1. c = [t.c EXCEPT !.sub = sub, !.add = add]
      BY <2>0
    <3> HIDE DEF c
    <3> QED BY <1>1, <2>0, <3>1 DEF Counters
  <2>2. s = [p |-> t.p, c |-> c, o |-> t.o]
    BY DEF CountedTables
  <2> HIDE DEF c, s
  <2> QED BY <1>1, <2>1, <2>2 DEF TablesType
<1>4. /\ v \in [Start -> Units]
      /\ v[start] = [sub |-> u[start].sub + units.sub, add |-> u[start].add + units.add]
      /\ \A p \in Start \ {start} : v[p] = u[p]
  BY <1>1, <1>2 DEF CountedUnits, Units
<1> HIDE DEF s, v
<1>5. \A p \in Start : AtMost(u[p], v[p])
  BY <1>1, <1>2, <1>4 DEF AtMost, Units
<1>6. Known(s) /\ Typed(s, v)
  BY <1>1, <1>3, <1>4 DEF Known, Typed
<1>7. CurrentSound(s, v)
  <2>1. v[start] = OfPeriod(s.c)
    BY <1>1, <1>2, <1>3, <1>4 DEF OfPeriod
  <2> QED BY <1>1, <1>2, <1>3, <1>4, <1>6, <2>1 DEF CurrentSound
<1>8. StoredSound(s, v)
  BY <1>1, <1>3, <1>4 DEF StoredSound, Stored, SentOf, Known
<1>9. RowsSound(s, v, e)
  <2>1. \A p \in Start : t.o[p] \in Row /\ ledger[p] \in Row /\ u[p] \in Units /\ v[p] \in Units
    BY <1>1, <1>4
  <2> QED BY <1>1, <1>3, <1>5, <2>1 DEF RowsSound, AtMost, Row, Units
<1>10. EstimateSound(s, v)
  BY <1>1, <1>3, <1>4, StartType DEF EstimateSound, SpanIsEmpty, Length, Known
<1> QED BY <1>5, <1>6, <1>7, <1>8, <1>9, <1>10 DEF TablesSound, s, v

-----------------------------------------------------------------------------
(* What does not change carries over to the next state *)

LEMMA TablesCarry ==
  ASSUME NEW t, NEW u, NEW e, TablesSound(t, u, e), EstimateSound(t, u),
         Tables' = t, counted' = u, estimates' = e,
         ledger' = ledger, gone' = gone, now' = now
  PROVE  TablesSound(Tables, counted, estimates)' /\ EstimateSound(Tables, counted)'
<1>1. Typed(t, u) /\ CurrentSound(t, u) /\ StoredSound(t, u) /\ RowsSound(t, u, e)
  BY DEF TablesSound
<1>2. Typed(Tables, counted)'
  BY <1>1 DEF Typed
<1>3. CurrentSound(Tables, counted)'
  BY <1>1 DEF CurrentSound, Known
<1>4. StoredSound(Tables, counted)'
  BY <1>1 DEF StoredSound, Stored, Known
<1>5. RowsSound(Tables, counted, estimates)'
  BY <1>1 DEF RowsSound
<1>6. EstimateSound(Tables, counted)'
  BY DEF EstimateSound, SpanIsEmpty, Known
<1> QED BY <1>2, <1>3, <1>4, <1>5, <1>6 DEF TablesSound

LEMMA CheckKeeps ==
  ASSUME UsageInv, NEW kv \in Configs, NEW n \in Counts, NEW t \in Decided(kv),
         Counted(kv, t, n), UNCHANGED <<now, ledger, late, gone>>,
         push' = push \/ push' = NoPush, alarm' \in BOOLEAN, faults' \in 0..MaxFaults
  PROVE  UsageInv'
<1>1. /\ TablesSound(Tables, counted, estimates) /\ EstimateSound(Tables, counted)
      /\ SnapshotsSound(counted, estimates) /\ PushSound /\ EnvironmentTyped
      /\ ledger \in [Start -> Row] /\ now \in 0..MaxTime /\ n \in Nat
  BY DEF UsageInv, EnvironmentTyped
<1>2. PICK x, u, e : x = Tables /\ u = counted /\ e = estimates
  OBVIOUS
<1>3. TablesSound(x, u, e) /\ EstimateSound(x, u)
  BY <1>1, <1>2
<1>4. Moved(kv) = MovedUnits(x, u, kv) /\ estimates' = MovedStarts(x, e, kv)
  BY <1>2, Zenon DEF Moved, MovedUnits, MovedStarts, Known, Counted, Tables
<1>5. t \in UNION {Roll(r) : r \in Configure(x, kv)}
  BY <1>2 DEF Decided
<1> DEFINE v == MovedUnits(x, u, kv)
           f == MovedStarts(x, e, kv)
<1>6. TablesSound(t, v, f) /\ Known(t) /\ EstimateSound(t, v)
  BY <1>1, <1>3, <1>5, DecidedSound
<1>7. /\ v \in [Start -> Units]
      /\ \A p \in Start : p \notin f => p \notin e /\ AtMost(u[p], v[p])
  BY <1>3, MovedGrows
<1> HIDE DEF v, f
<1>8. PICK units \in Units : units = IF Admits(t, n) THEN SplitUnits(t, n) ELSE NoUnits
  BY <1>1, <1>6, SplitFacts DEF TablesSound
<1> DEFINE s == CountedTables(t, units)
           w == CountedUnits(t, v, units)
<1>9. Tables' = s /\ counted' = w /\ estimates' = f
  BY <1>4, <1>8, Zenon DEF Counted, Tables, CountedTables, CountedUnits, v, f
<1>10. /\ TablesSound(s, w, f) /\ EstimateSound(s, w)
       /\ \A p \in Start : AtMost(v[p], w[p])
  BY <1>1, <1>6, <1>8, CountSound
<1> HIDE DEF s, w
<1>11. /\ TablesSound(Tables, counted, estimates)' /\ EstimateSound(Tables, counted)'
  BY <1>9, <1>10, TablesCarry
<1>12. push.left \cup late \subseteq Snapshot /\ push'.left \subseteq push.left
       /\ u \in [Start -> Units] /\ w \in [Start -> Units]
  BY <1>1, <1>3, <1>10 DEF EnvironmentTyped, NoPush, TablesSound, Typed
<1>13. SnapshotsSound(counted, estimates)'
  <2>1. ASSUME NEW a \in push.left \cup late, a.start \notin f
        PROVE  AtMost(a, w[a.start])
    <3>1. /\ a.start \in Start /\ a.sub \in Nat /\ a.add \in Nat
      BY <1>12 DEF Snapshot
    <3>2. AtMost(a, u[a.start])
      BY <1>1, <1>2, <1>7, <2>1, <3>1 DEF SnapshotsSound
    <3>3. AtMost(a, v[a.start])
      BY <1>7, <1>12, <2>1, <3>1, <3>2, AtMostTrans DEF Units
    <3> QED BY <1>7, <1>10, <1>12, <3>1, <3>3, AtMostTrans DEF Units
  <2> QED BY <1>9, <1>12, <2>1 DEF SnapshotsSound
<1>14. PushSound'
  BY <1>1 DEF PushSound, NoPush
<1>15. EnvironmentTyped'
  <2>1. f \subseteq Start
    <3>1. /\ estimates \subseteq Start /\ (Known(x) => x.p.start \in Start)
      BY <1>1, <1>3, TablesFields DEF EnvironmentTyped, TablesSound
    <3> QED BY <1>2, <3>1 DEF MovedStarts, f
  <2>2. /\ push' \in [at : {"idle", "send", "confirm", "end"}, left : SUBSET Snapshot]
        /\ IsFiniteSet(push'.left) /\ Cardinality(push'.left) <= PageSize
    <3>1. IsFiniteSet({}) /\ Cardinality({}) = 0
      BY FS_EmptySet
    <3>2. CASE push' = push
      BY <1>1, <3>2 DEF EnvironmentTyped
    <3>3. CASE push' = NoPush
      <4>1. 0 <= PageSize
        OBVIOUS
      <4> QED BY <3>1, <3>3, <4>1 DEF NoPush
    <3> QED BY <3>2, <3>3
  <2> QED BY <1>1, <1>9, <2>1, <2>2 DEF EnvironmentTyped
<1> QED BY <1>11, <1>13, <1>14, <1>15 DEF UsageInv

-----------------------------------------------------------------------------
(* A page of the outbox *)

LEMMA SmallestExists ==
  ASSUME NEW S \in SUBSET Nat, S # {}
  PROVE  \E m \in S : \A n \in S : m <= n
<1> DEFINE Less == {ss \in Nat \X Nat : ss[1] < ss[2]}
<1>1. IsWellFoundedOn(Less, Nat)
  BY NatLessThanWellFounded DEF OpToRel
<1>2. PICK m \in S : \A n \in S : <<n, m>> \notin Less
  <2> HIDE DEF Less
  <2> QED BY <1>1, WFMin
<1>3. \A n \in S : ~(n < m)
  BY <1>2
<1> QED BY <1>2, <1>3

LEMMA LargestStart ==
  ASSUME NEW S \in SUBSET Start, S # {}
  PROVE  \E m \in S : \A n \in S : n <= m
<1> DEFINE Left == {MaxTime - p : p \in S}
<1>1. Left \in SUBSET Nat /\ Left # {}
  <2>1. \A p \in Start : MaxTime - p \in Nat
    BY DEF Start
  <2> QED BY <2>1
<1>2. PICK x \in Left : \A y \in Left : x <= y
  <2> HIDE DEF Left
  <2> QED BY <1>1, SmallestExists
<1>3. PICK m \in S : x = MaxTime - m
  BY <1>2
<1>4. \A n \in S : MaxTime - m <= MaxTime - n
  BY <1>2, <1>3
<1> QED BY <1>3, <1>4 DEF Start

(* The earliest snapshot of a push exists. *)
LEMMA FirstFacts ==
  ASSUME NEW left \in SUBSET Snapshot, left # {}
  PROVE  First(left) \in left
<1> DEFINE Starts == {s.start : s \in left}
<1>1. Starts \in SUBSET Nat /\ Starts # {}
  <2>1. \A s \in left : s.start \in Nat
    BY StartType DEF Snapshot
  <2> QED BY <2>1
<1>2. PICK m \in Starts : \A n \in Starts : m <= n
  <2> HIDE DEF Starts
  <2> QED BY <1>1, SmallestExists
<1>3. PICK s \in left : s.start = m
  BY <1>2
<1>4. \A other \in left : s.start <= other.start
  BY <1>2, <1>3
<1> QED BY <1>3, <1>4, Zenon DEF First

(* A page holds at most PageSize periods, and some as long as one waits:   *)
(* all others of a page are before its last.                               *)
LEMMA PendingFacts ==
  ASSUME NEW box \in [Start -> Row]
  PROVE  /\ Pending(box) \subseteq {SnapshotOf(box, p) : p \in Start}
         /\ Pending(box) \subseteq Snapshot
         /\ IsFiniteSet(Pending(box)) /\ Cardinality(Pending(box)) <= PageSize
         /\ Waiting(box) # {} => Pending(box) # {}
<1> DEFINE Page == {p \in Waiting(box) : Cardinality(Before(box, p)) < PageSize}
<1>1. /\ Page \subseteq Start /\ IsFiniteSet(Page) /\ Waiting(box) \subseteq Start
      /\ Pending(box) = {SnapshotOf(box, p) : p \in Page}
  <2>1. Waiting(box) \subseteq Start /\ Page \subseteq Waiting(box)
    BY DEF Waiting
  <2>2. IsFiniteSet(Page)
    BY <2>1, WaitingFinite, FS_Subset
  <2>3. Pending(box) = {SnapshotOf(box, p) : p \in Page}
    BY DEF Pending
  <2> QED BY <2>1, <2>2, <2>3
<1>2. \A p \in Start : IsFiniteSet(Before(box, p)) /\ Cardinality(Before(box, p)) \in Nat
  BY WaitingFinite, FS_Subset, FS_CardinalityType DEF Before
<1>3. Cardinality(Page) \in Nat /\ Cardinality(Page) <= PageSize
  <2>1. CASE Page = {}
    <3>1. Cardinality(Page) = 0
      BY <2>1, FS_EmptySet
    <3> QED BY <3>1
  <2>2. CASE Page # {}
    <3>1. PICK m \in Page : \A n \in Page : n <= m
      BY <1>1, <2>2, LargestStart
    <3>2. Page \ {m} \subseteq Before(box, m)
      <4>1. ASSUME NEW n \in Page, n # m  PROVE  n \in Waiting(box) /\ n < m
        <5>1. n \in Nat /\ m \in Nat /\ n <= m
          BY <1>1, <3>1, <4>1, StartType
        <5> QED BY <4>1, <5>1
      <4> QED BY <4>1 DEF Before
    <3>3. Cardinality(Page \ {m}) <= Cardinality(Before(box, m))
      BY <1>1, <1>2, <3>1, <3>2, FS_Subset
    <3>4. Cardinality(Page \ {m}) = Cardinality(Page) - 1
      BY <1>1, <3>1, FS_RemoveElement
    <3>5. Cardinality(Page) \in Nat
      BY <1>1, FS_CardinalityType
    <3>6. Cardinality(Before(box, m)) < PageSize /\ Cardinality(Before(box, m)) \in Nat
      BY <1>1, <1>2, <3>1
    <3> HIDE DEF Page
    <3> QED BY <3>3, <3>4, <3>5, <3>6
  <2> QED BY <2>1, <2>2
<1>4. /\ IsFiniteSet(Pending(box)) /\ Cardinality(Pending(box)) <= Cardinality(Page)
  <2> DEFINE f == [p \in Page |-> SnapshotOf(box, p)]
  <2> HIDE DEF Page
  <2>1. f \in Surjection(Page, Pending(box))
    BY <1>1 DEF Surjection
  <2> HIDE DEF f
  <2> QED BY <1>1, <2>1, FS_Surjection
<1>5. Cardinality(Pending(box)) \in Nat
  BY <1>4, FS_CardinalityType
<1>6. Pending(box) \subseteq Snapshot
  <2>1. \A p \in Start : SnapshotOf(box, p) \in Snapshot
    BY DEF SnapshotOf, Snapshot, Row
  <2> HIDE DEF Page
  <2> QED BY <1>1, <2>1
<1>7. ASSUME Waiting(box) # {}  PROVE  Pending(box) # {}
  <2>1. PICK m \in Waiting(box) : \A n \in Waiting(box) : m <= n
    <3>1. Waiting(box) \in SUBSET Nat
      BY <1>1, StartType
    <3> QED BY <1>7, <3>1, SmallestExists
  <2>2. Before(box, m) = {}
    <3>1. ASSUME NEW n \in Waiting(box)  PROVE  ~(n < m)
      <4>1. n \in Nat /\ m \in Nat /\ m <= n
        BY <1>1, <2>1, StartType
      <4> QED BY <4>1
    <3> QED BY <3>1 DEF Before
  <2>3. Cardinality(Before(box, m)) < PageSize
    BY <2>2, FS_EmptySet
  <2>4. m \in Page
    BY <2>1, <2>3
  <2> HIDE DEF Page
  <2> QED BY <1>1, <2>4
<1>8. Pending(box) \subseteq {SnapshotOf(box, p) : p \in Start}
  <2> HIDE DEF Page
  <2> QED BY <1>1
<1> HIDE DEF Page
<1> QED BY <1>3, <1>4, <1>5, <1>6, <1>7, <1>8

-----------------------------------------------------------------------------
(* The alarm *)

LEMMA InvFacts ==
  ASSUME UsageInv
  PROVE  /\ Typed(Tables, counted) /\ CurrentSound(Tables, counted)
         /\ StoredSound(Tables, counted) /\ RowsSound(Tables, counted, estimates)
         /\ TablesSound(Tables, counted, estimates) /\ EstimateSound(Tables, counted)
         /\ SnapshotsSound(counted, estimates) /\ PushSound /\ EnvironmentTyped
         /\ Tables = [p |-> period, c |-> counters, o |-> outbox]
         /\ period \in Period /\ counters \in Counters /\ outbox \in [Start -> Row]
         /\ ledger \in [Start -> Row] /\ counted \in [Start -> Units]
         /\ push.left \subseteq Snapshot /\ gone \in BOOLEAN /\ now \in 0..MaxTime
BY DEF UsageInv, TablesSound, Typed, TablesType, EnvironmentTyped, Tables

LEMMA AlarmKeeps ==
  ASSUME UsageInv, AlarmFires
  PROVE  UsageInv'
<1>1. /\ push = NoPush /\ alarm' = FALSE
      /\ outbox' = IF Unsent(Tables) /\ HasRoom(Tables) THEN Staged(Tables).o ELSE outbox
      /\ push' = [at |-> IF Waiting(outbox') = {} THEN "end" ELSE "send",
                  left |-> Pending(outbox')]
      /\ UNCHANGED <<now, period, counters, ledger, late, gone, counted, estimates, faults>>
  BY DEF AlarmFires
<1>2. PICK t, u, e : t = Tables /\ u = counted /\ e = estimates
  OBVIOUS
<1>3. /\ TablesSound(t, u, e) /\ EstimateSound(t, u) /\ ledger \in [Start -> Row]
      /\ t.p = period /\ t.c = counters /\ t.o = outbox
      /\ t = [p |-> period, c |-> counters, o |-> outbox]
  BY <1>2, InvFacts DEF Tables
<1>4. PICK s : s = Tables'
  OBVIOUS
<1>5. TablesSound(s, u, e) /\ EstimateSound(s, u)
  <2>1. CASE Unsent(t) /\ HasRoom(t)
    <3>1. Known(t)
      BY <1>3, <2>1 DEF TablesSound, CurrentSound, Unsent
    <3>2. s = [p |-> t.p, c |-> t.c, o |-> Staged(t).o]
      BY <1>1, <1>2, <1>3, <1>4, <2>1 DEF Tables
    <3>3. s = Staged(t) /\ s.p = t.p
      BY <1>3, <3>1, <3>2, StagedFields DEF TablesSound
    <3> QED BY <1>3, <2>1, <3>1, <3>3, StagedSound DEF EstimateSound, SpanIsEmpty, Known
  <2>2. CASE ~(Unsent(t) /\ HasRoom(t))
    <3>1. s = t
      BY <1>1, <1>2, <1>3, <1>4, <2>2 DEF Tables
    <3> QED BY <1>3, <3>1
  <2> QED BY <2>1, <2>2
<1>6. TablesSound(Tables, counted, estimates)' /\ EstimateSound(Tables, counted)'
  BY <1>1, <1>2, <1>4, <1>5, TablesCarry
<1>7. outbox' \in [Start -> Row] /\ \A p \in Start : AtMost(outbox'[p], counted[p])
  <2>1. s.o = outbox'
    BY <1>4 DEF Tables
  <2> QED BY <1>2, <1>5, <2>1 DEF TablesSound, Typed, TablesType, RowsSound
<1>8. PICK box \in [Start -> Row] : box = outbox'
  BY <1>7
<1>9. /\ push'.left = Pending(box) /\ Pending(box) \subseteq Snapshot
      /\ Pending(box) \subseteq {SnapshotOf(box, p) : p \in Start}
      /\ IsFiniteSet(Pending(box)) /\ Cardinality(Pending(box)) <= PageSize
      /\ push'.at = IF Waiting(box) = {} THEN "end" ELSE "send"
      /\ Waiting(box) # {} => Pending(box) # {}
  BY <1>1, <1>8, PendingFacts
<1>10. EnvironmentTyped'
  BY <1>1, <1>8, <1>9, InvFacts DEF EnvironmentTyped
<1>11. SnapshotsSound(counted, estimates)'
  <2>1. ASSUME NEW a \in Pending(box)  PROVE  AtMost(a, counted[a.start])
    <3>1. PICK p \in Start : a = SnapshotOf(box, p)
      BY <1>9, <2>1
    <3> QED BY <1>7, <1>8, <3>1 DEF SnapshotOf, AtMost
  <2> QED BY <1>1, <1>9, <2>1, InvFacts DEF SnapshotsSound
<1>12. PushSound'
  BY <1>9 DEF PushSound
<1> QED BY <1>6, <1>10, <1>11, <1>12 DEF UsageInv

(* Recording a snapshot: the control plane keeps the greater units. *)
LEMMA RecordFacts ==
  ASSUME UsageInv, NEW s \in push.left \cup late, RecordUsage(s)
  PROVE  /\ ledger' \in [Start -> Row]
         /\ \A p \in Start : AtMost(ledger[p], ledger'[p])
         /\ \A p \in Start : p \notin estimates => AtMost(ledger'[p], counted[p])
         /\ ~gone => AtMost(s, ledger'[s.start])
<1>1. /\ ledger \in [Start -> Row] /\ counted \in [Start -> Units]
      /\ \A p \in Start : p \notin estimates => AtMost(ledger[p], counted[p])
      /\ s \in Snapshot
      /\ s.start \notin estimates => AtMost(s, counted[s.start])
  BY InvFacts DEF EnvironmentTyped, RowsSound, SnapshotsSound
<1>2. /\ s.start \in Start /\ s.end \in Nat /\ s.sub \in Nat /\ s.add \in Nat
  BY <1>1 DEF Snapshot
<1>3. \A p \in Start : AtMost(ledger[p], ledger[p])
  BY <1>1 DEF AtMost, Row
<1>4. CASE gone
  BY <1>1, <1>3, <1>4 DEF RecordUsage
<1>5. CASE ~gone
  <2> DEFINE row == Put(ledger[s.start], s.end, s)
  <2>1. /\ row \in Row /\ AtMost(ledger[s.start], row) /\ AtMost(s, row)
        /\ s.start \notin estimates => AtMost(row, counted[s.start])
    BY <1>1, <1>2, PutFacts
  <2>2. ledger' = [ledger EXCEPT ![s.start] = row]
    BY <1>5 DEF RecordUsage
  <2> HIDE DEF row
  <2> QED BY <1>1, <1>2, <1>3, <2>1, <2>2
<1> QED BY <1>4, <1>5

LEMMA LedgerGrows ==
  ASSUME UsageInv, ledger' \in [Start -> Row],
         \A p \in Start : AtMost(ledger[p], ledger'[p]),
         \A p \in Start : p \notin estimates => AtMost(ledger'[p], counted[p]),
         UNCHANGED <<now, period, counters, outbox, gone, counted, estimates>>
  PROVE  TablesSound(Tables, counted, estimates)' /\ EstimateSound(Tables, counted)'
<1>1. Tables' = Tables
  BY DEF Tables
<1>2. \A p \in Start : Stored(Tables, p)' \in Row /\ AtMost(Stored(Tables, p), Stored(Tables, p)')
                       /\ Stored(Tables, p) \in Row
  <2>1. ASSUME NEW p \in Start
        PROVE  /\ Stored(Tables, p)' \in Row /\ AtMost(Stored(Tables, p), Stored(Tables, p)')
               /\ Stored(Tables, p) \in Row
    <3>1. /\ ledger[p] \in Row /\ ledger'[p] \in Row /\ outbox[p] \in Row
          /\ AtMost(ledger[p], ledger'[p])
      BY InvFacts
    <3>2. Tables.o = outbox
      BY DEF Tables
    <3> QED BY <1>1, <3>1, <3>2 DEF Stored, Put, Larger, AtMost, Row
  <2> QED BY <2>1
<1>3. Typed(Tables, counted)'
  BY <1>1, InvFacts DEF Typed
<1>4. CurrentSound(Tables, counted)'
  BY <1>1, InvFacts DEF CurrentSound, Known
<1>5. StoredSound(Tables, counted)'
  <2>1. Known(Tables) => SentOf(Tables.c) \in Units /\ Tables.p.start \in Start
    BY InvFacts, CurrentUnits, TablesFields
  <2>2. ASSUME ~gone, NEW p \in Start, p # Tables.p.start
        PROVE  AtMost(counted[p], Stored(Tables, p)')
    <3>1. AtMost(counted[p], Stored(Tables, p)) /\ counted[p] \in Units
      BY <2>2, InvFacts DEF StoredSound
    <3> QED BY <1>2, <3>1, AtMostTrans DEF Units, Row
  <2>3. ASSUME ~gone, Known(Tables), NEW q \in Start, q = Tables.p.start
        PROVE  AtMost(SentOf(Tables.c), Stored(Tables, q)')
    <3>1. AtMost(SentOf(Tables.c), Stored(Tables, q))
      BY <2>3, InvFacts DEF StoredSound
    <3>2. Stored(Tables, q)' \in Row /\ Stored(Tables, q) \in Row
      BY <1>2
    <3> QED BY <1>2, <2>1, <2>3, <3>1, <3>2, AtMostTrans DEF Units, Row
  <2>4. ASSUME ~gone, Known(Tables)
        PROVE  AtMost(SentOf(Tables.c), Stored(Tables, Tables.p.start)')
    <3>1. PICK q \in Start : q = Tables.p.start
      BY <2>1, <2>4
    <3>2. AtMost(SentOf(Tables.c), Stored(Tables, q)')
      BY <2>3, <2>4, <3>1
    <3> QED BY <1>1, <3>1, <3>2 DEF Stored
  <2> QED BY <1>1, <2>2, <2>4 DEF StoredSound, Known, Stored
<1>6. RowsSound(Tables, counted, estimates)'
  BY <1>1, InvFacts DEF RowsSound
<1>7. EstimateSound(Tables, counted)'
  BY <1>1, InvFacts DEF EstimateSound, SpanIsEmpty, Known
<1> QED BY <1>3, <1>4, <1>5, <1>6, <1>7 DEF TablesSound

(* The steps of a push that may record a snapshot. *)
LEMMA PushKeeps ==
  ASSUME UsageInv,
         UNCHANGED <<now, period, counters, outbox, gone, counted, estimates>>,
         UNCHANGED ledger \/ \E s \in push.left \cup late : RecordUsage(s),
         alarm' \in BOOLEAN, faults' \in 0..MaxFaults,
         late' \subseteq push.left \cup late,
         \/ push' = NoPush
         \/ /\ push'.left = push.left
            /\ push' \in [at : {"idle", "send", "confirm", "end"}, left : SUBSET Snapshot],
         push'.at = "confirm" => push.at \in {"send", "confirm"},
         push'.at = "send" => push.at = "send",
         push'.at = "confirm" /\ push.at = "send" => RecordUsage(First(push.left))
  PROVE  UsageInv'
<1>1. /\ ledger' \in [Start -> Row]
      /\ \A p \in Start : AtMost(ledger[p], ledger'[p])
      /\ \A p \in Start : p \notin estimates => AtMost(ledger'[p], counted[p])
  <2>1. CASE UNCHANGED ledger
    <3>1. \A p \in Start : AtMost(ledger[p], ledger[p])
      BY InvFacts DEF AtMost, Row
    <3> QED BY <2>1, <3>1, InvFacts DEF RowsSound
  <2>2. CASE \E s \in push.left \cup late : RecordUsage(s)
    BY <2>2, RecordFacts
  <2> QED BY <2>1, <2>2
<1>2. TablesSound(Tables, counted, estimates)' /\ EstimateSound(Tables, counted)'
  BY <1>1, LedgerGrows
<1>3. /\ push' \in [at : {"idle", "send", "confirm", "end"}, left : SUBSET Snapshot]
      /\ push'.left \subseteq push.left /\ IsFiniteSet(push'.left)
      /\ Cardinality(push'.left) <= PageSize
  <2>1. CASE push' = NoPush
    <3>1. IsFiniteSet({}) /\ Cardinality({}) = 0
      BY FS_EmptySet
    <3> QED BY <2>1, <3>1 DEF NoPush
  <2>2. CASE push'.left = push.left /\ push' \in [at : {"idle", "send", "confirm", "end"},
                                                  left : SUBSET Snapshot]
    BY <2>2, InvFacts DEF EnvironmentTyped
  <2> QED BY <2>1, <2>2
<1>4. EnvironmentTyped'
  BY <1>1, <1>3, InvFacts DEF EnvironmentTyped
<1>5. SnapshotsSound(counted, estimates)'
  BY <1>3, InvFacts DEF SnapshotsSound
<1>6. PushSound'
  <2>1. CASE push' = NoPush
    BY <2>1 DEF PushSound, NoPush
  <2>2. CASE push'.left = push.left
    <3>1. push'.at \in {"send", "confirm"} => push.left # {} /\ First(push.left) \in push.left
      BY InvFacts, FirstFacts DEF PushSound
    <3>2. ASSUME push'.at = "confirm", ~gone
          PROVE  AtMost(First(push.left), ledger'[First(push.left).start])
      <4>1. PICK s \in push.left : s = First(push.left)
        BY <3>1, <3>2
      <4>2. s.start \in Start /\ s.sub \in Nat /\ s.add \in Nat
        BY InvFacts DEF Snapshot
      <4>3. CASE push.at = "send"
        BY <3>2, <4>1, <4>3, RecordFacts
      <4>4. CASE push.at = "confirm"
        <5>1. AtMost(s, ledger[s.start])
          BY <3>2, <4>1, <4>4, InvFacts DEF PushSound
        <5>2. ledger[s.start] \in Row /\ ledger'[s.start] \in Row
          BY <1>1, <4>2, InvFacts
        <5> QED BY <1>1, <4>1, <4>2, <5>1, <5>2, AtMostTrans DEF Row
      <4> QED BY <3>2, <4>3, <4>4
    <3> QED BY <2>2, <3>1, <3>2 DEF PushSound
  <2> QED BY <2>1, <2>2
<1> QED BY <1>2, <1>4, <1>5, <1>6 DEF UsageInv

LEMMA SendKeeps ==
  ASSUME UsageInv, Send \/ SendFails \/ ExecuteLate \/ Crash \/ EndAlarm
  PROVE  UsageInv'
<1>1. push.at = "send" => First(push.left) \in push.left
  BY InvFacts, FirstFacts DEF PushSound
<1>2. /\ push \in [at : {"idle", "send", "confirm", "end"}, left : SUBSET Snapshot]
      /\ alarm \in BOOLEAN /\ faults \in 0..MaxFaults
  BY InvFacts DEF EnvironmentTyped
<1>3. faults < MaxFaults => faults + 1 \in 0..MaxFaults
  BY <1>2
<1>4. CASE Send
  <2>1. push' = [push EXCEPT !.at = "confirm"] /\ push.at = "send"
    BY <1>4 DEF Send
  <2>2. push'.left = push.left /\ push'.at = "confirm"
        /\ push' \in [at : {"idle", "send", "confirm", "end"}, left : SUBSET Snapshot]
    BY <1>2, <2>1
  <2> QED BY <1>1, <1>2, <1>4, <2>2, PushKeeps DEF Send, Unpushed
<1>5. CASE SendFails
  <2>1. push' = [push EXCEPT !.at = "end"] /\ push.at = "send"
    BY <1>5 DEF SendFails
  <2>2. push'.left = push.left /\ push'.at = "end"
        /\ push' \in [at : {"idle", "send", "confirm", "end"}, left : SUBSET Snapshot]
    BY <1>2, <2>1
  <2>3. UNCHANGED ledger \/ \E s \in push.left \cup late : RecordUsage(s)
    BY <1>1, <1>5, <2>1 DEF SendFails
  <2>4. late' \subseteq push.left \cup late
    BY <1>1, <1>5, <2>1 DEF SendFails
  <2> QED BY <1>2, <1>3, <1>5, <2>2, <2>3, <2>4, PushKeeps DEF SendFails, Unpushed, Faulty
<1>6. CASE ExecuteLate
  BY <1>2, <1>6, PushKeeps DEF ExecuteLate, Unpushed
<1>7. CASE Crash
  <2>1. late' \subseteq push.left \cup late
    BY <1>1, <1>7 DEF Crash
  <2> QED BY <1>2, <1>3, <1>7, <2>1, PushKeeps DEF Crash, Faulty, NoPush
<1>8. CASE EndAlarm
  <2>1. alarm' \in BOOLEAN
    BY <1>8 DEF EndAlarm, ScheduleSync
  <2> QED BY <1>2, <1>8, <2>1, PushKeeps DEF EndAlarm, NoPush
<1> QED BY <1>4, <1>5, <1>6, <1>7, <1>8

(* A row leaves the outbox only when it is still what was sent, so that    *)
(* the ledger already holds it.                                            *)
LEMMA ConfirmKeeps ==
  ASSUME UsageInv, Confirm
  PROVE  UsageInv'
<1>1. push.at = "confirm" /\ UNCHANGED <<now, period, alarm, ledger, late, gone, counted, estimates, faults>>
  BY DEF Confirm
<1>2. PICK s \in push.left : s = First(push.left)
  BY <1>1, InvFacts, FirstFacts DEF PushSound
<1>3. /\ s \in Snapshot /\ s.start \in Start /\ s.end \in Nat /\ s.sub \in Nat /\ s.add \in Nat
      /\ ~gone => AtMost(s, ledger[s.start])
  BY <1>1, <1>2, InvFacts DEF Snapshot, PushSound
<1>4. /\ outbox' = Confirmed(outbox, s)
      /\ counters' = IF period.start = s.start /\ period.end = s.end
                     THEN [counters EXCEPT !.sentSub = s.sub, !.sentAdd = counters.base + s.add]
                     ELSE counters
      /\ push' = [at |-> IF push.left \ {s} = {} THEN "end" ELSE "send", left |-> push.left \ {s}]
  BY <1>2 DEF Confirm
<1>5. /\ outbox' \in [Start -> Row] /\ Waiting(outbox') \subseteq Waiting(outbox)
      /\ \A p \in Start : \/ outbox'[p] = outbox[p]
                          \/ /\ p = s.start /\ outbox'[p] = NoRow
                             /\ outbox[p].sub = s.sub /\ outbox[p].add = s.add
  <2>1. outbox \in [Start -> Row] /\ NoRow \in Row
    BY InvFacts DEF NoRow, Row
  <2>2. CASE SnapshotOf(outbox, s.start) = s
    <3>1. outbox' = [outbox EXCEPT ![s.start] = NoRow]
      BY <1>4, <2>2 DEF Confirmed
    <3>2. outbox[s.start].sub = s.sub /\ outbox[s.start].add = s.add
      BY <2>2 DEF SnapshotOf
    <3> QED BY <1>3, <2>1, <3>1, <3>2 DEF Waiting
  <2>3. CASE SnapshotOf(outbox, s.start) # s
    <3>1. outbox' = outbox
      BY <1>4, <2>3 DEF Confirmed
    <3> QED BY <2>1, <3>1
  <2> QED BY <2>2, <2>3
<1>6. /\ counters' \in Counters
      /\ counters'.sub = counters.sub /\ counters'.add = counters.add
      /\ counters'.base = counters.base
      /\ \/ counters' = counters
         \/ /\ period.start = s.start
            /\ counters'.sentSub = s.sub /\ counters'.sentAdd = counters.base + s.add
  <2>1. /\ counters \in Counters /\ counters.base \in Nat
    BY InvFacts DEF Counters
  <2>2. PICK sent \in Nat : sent = counters.base + s.add
    BY <1>3, <2>1
  <2>3. CASE period.start = s.start /\ period.end = s.end
    <3>1. counters' = [counters EXCEPT !.sentSub = s.sub, !.sentAdd = sent]
      BY <1>4, <2>2, <2>3
    <3> QED BY <1>3, <2>1, <2>2, <2>3, <3>1 DEF Counters
  <2>4. CASE ~(period.start = s.start /\ period.end = s.end)
    BY <1>4, <2>1, <2>4
  <2> QED BY <2>3, <2>4
<1>7. PICK t, r : t = Tables /\ r = Tables'
  OBVIOUS
<1>8. /\ t = [p |-> period, c |-> counters, o |-> outbox]
      /\ r = [p |-> period, c |-> counters', o |-> outbox']
      /\ Typed(t, counted) /\ CurrentSound(t, counted) /\ StoredSound(t, counted)
      /\ RowsSound(t, counted, estimates) /\ EstimateSound(t, counted)
  BY <1>1, <1>7, InvFacts DEF Tables
<1>9. Typed(r, counted)
  <2>1. Cardinality(Waiting(outbox')) <= Cardinality(Waiting(outbox))
    BY <1>5, WaitingFinite, FS_Subset
  <2>2. Cardinality(Waiting(outbox)) <= MaxPending
    BY <1>8 DEF Typed
  <2>3. Cardinality(Waiting(outbox')) <= MaxPending
    BY <2>1, <2>2, WaitingFinite
  <2>4. r \in TablesType
    BY <1>5, <1>6, <1>8, InvFacts DEF TablesType
  <2> QED BY <1>8, <2>3, <2>4, InvFacts DEF Typed
<1>10. CurrentSound(r, counted)
  <2>1. OfPeriod(r.c) = OfPeriod(t.c)
    BY <1>6, <1>8 DEF OfPeriod
  <2>2. r.c.base <= r.c.add /\ r.c.base <= r.c.sentAdd
    <3>1. counters.base <= counters.add /\ counters.base <= counters.sentAdd
          /\ counters.base \in Nat
      BY <1>8, InvFacts DEF CurrentSound, Counters
    <3> QED BY <1>3, <1>6, <1>8, <3>1
  <2>3. ~Known(r) => counters' = counters
    BY <1>3, <1>6, <1>8, StartType DEF Known
  <2> QED BY <1>6, <1>8, <2>1, <2>2, <2>3 DEF CurrentSound, Known
<1>11. ASSUME ~gone, NEW p \in Start  PROVE  Stored(r, p) = Stored(t, p)
  <2>1. CASE outbox'[p] = outbox[p]
    BY <1>8, <2>1 DEF Stored
  <2>2. CASE /\ p = s.start /\ outbox'[p] = NoRow
             /\ outbox[p].sub = s.sub /\ outbox[p].add = s.add
    <3>1. ledger[p].sub \in Nat /\ ledger[p].add \in Nat
      BY InvFacts DEF Row
    <3> QED BY <1>3, <1>8, <1>11, <2>2, <3>1 DEF Stored, Put, Larger, NoRow, AtMost
  <2> QED BY <1>5, <2>1, <2>2
<1>12. StoredSound(r, counted)
  <2>1. ASSUME ~gone, Known(r)  PROVE  AtMost(SentOf(r.c), Stored(r, r.p.start))
    <3>1. r.p.start = t.p.start /\ t.p.start \in Start /\ Known(t)
      BY <1>8, <2>1, TablesFields DEF Known
    <3>2. CASE counters' = counters
      BY <1>8, <1>11, <2>1, <3>1, <3>2 DEF StoredSound
    <3>3. CASE /\ period.start = s.start
               /\ counters'.sentSub = s.sub /\ counters'.sentAdd = counters.base + s.add
      <4>1. counters.base \in Nat /\ ledger[s.start] \in Row /\ outbox'[s.start] \in Row
        BY <1>3, <1>5, InvFacts DEF Counters
      <4>2. SentOf(r.c) = [sub |-> s.sub, add |-> s.add]
        BY <1>3, <1>6, <1>8, <3>3, <4>1 DEF SentOf
      <4>3. AtMost(s, ledger[s.start]) /\ AtMost(ledger[s.start], Stored(r, s.start))
        BY <1>3, <1>8, <2>1, <4>1, PutFacts DEF Stored, Row
      <4>4. Stored(r, s.start).sub \in Nat /\ Stored(r, s.start).add \in Nat
        BY <1>8, <4>1, PutFacts DEF Stored, Row
      <4> QED BY <1>3, <1>8, <3>3, <4>1, <4>2, <4>3, <4>4 DEF AtMost, Row
    <3> QED BY <1>6, <3>2, <3>3
  <2>2. ASSUME ~gone, NEW p \in Start, p # r.p.start
        PROVE  AtMost(counted[p], Stored(r, p))
    BY <1>8, <1>11, <2>2 DEF StoredSound
  <2> QED BY <2>1, <2>2 DEF StoredSound
<1>13. RowsSound(r, counted, estimates)
  <2>1. \A p \in Start : AtMost(NoRow, counted[p])
    BY InvFacts DEF AtMost, NoRow, Units
  <2> QED BY <1>5, <1>8, <2>1 DEF RowsSound
<1>14. EstimateSound(r, counted)
  BY <1>8 DEF EstimateSound, SpanIsEmpty, Known
<1>15. TablesSound(Tables, counted, estimates)' /\ EstimateSound(Tables, counted)'
  <2>1. PICK u, e : u = counted /\ e = estimates
    OBVIOUS
  <2>2. TablesSound(r, u, e) /\ EstimateSound(r, u)
    BY <1>9, <1>10, <1>12, <1>13, <1>14, <2>1 DEF TablesSound
  <2> QED BY <1>1, <1>7, <2>1, <2>2, TablesCarry
<1>16. /\ push' \in [at : {"idle", "send", "confirm", "end"}, left : SUBSET Snapshot]
       /\ push'.left \subseteq push.left /\ IsFiniteSet(push'.left)
       /\ Cardinality(push'.left) <= PageSize
       /\ push'.at # "confirm" /\ (push'.at = "send" => push'.left # {})
  <2>1. /\ IsFiniteSet(push.left) /\ Cardinality(push.left) <= PageSize
        /\ push.left \subseteq Snapshot
    BY InvFacts DEF EnvironmentTyped
  <2>2. /\ IsFiniteSet(push.left \ {s})
        /\ Cardinality(push.left \ {s}) <= Cardinality(push.left)
        /\ Cardinality(push.left \ {s}) \in Nat /\ Cardinality(push.left) \in Nat
    BY <2>1, FS_Subset, FS_CardinalityType
  <2> QED BY <1>4, <2>1, <2>2
<1>17. EnvironmentTyped'
  BY <1>1, <1>16, InvFacts DEF EnvironmentTyped
<1>18. SnapshotsSound(counted, estimates)'
  BY <1>1, <1>16, InvFacts DEF SnapshotsSound
<1>19. PushSound'
  BY <1>16 DEF PushSound
<1> QED BY <1>15, <1>17, <1>18, <1>19 DEF UsageInv

-----------------------------------------------------------------------------
(* The invariant holds *)

LEMMA InitKeeps == Init => UsageInv
<1> SUFFICES ASSUME Init  PROVE  UsageInv
  OBVIOUS
<1>1. /\ now = 0 /\ period = NoPeriod
      /\ counters = [sub |-> 0, add |-> 0, base |-> 0, sentSub |-> 0, sentAdd |-> 0]
      /\ outbox = [p \in Start |-> NoRow] /\ ledger = [p \in Start |-> NoRow]
      /\ alarm = FALSE /\ gone = FALSE /\ push = NoPush /\ late = {}
      /\ counted = [p \in Start |-> NoUnits] /\ estimates = {} /\ faults = 0
  BY DEF Init
<1>2. /\ NoRow \in Row /\ NoUnits \in Units
      /\ AtMost(NoRow, NoUnits) /\ AtMost(NoUnits, Put(NoRow, 0, NoRow))
  BY DEF NoRow, Row, NoUnits, Units, AtMost, Put, Larger
<1>3. IsFiniteSet({}) /\ Cardinality({}) = 0
  BY FS_EmptySet
<1>4. Tables = [p |-> period, c |-> counters, o |-> outbox]
  BY DEF Tables
<1>5. ~Known(Tables) /\ Tables.p = NoPeriod /\ Tables.o = outbox /\ Tables.c = counters
  BY <1>1, <1>4 DEF Known, NoPeriod
<1>6. Typed(Tables, counted)
  <2>1. Waiting(outbox) = {}
    BY <1>1 DEF Waiting
  <2>2. period \in Period /\ counters \in Counters
    BY <1>1 DEF NoPeriod, Period, Counters
  <2>3. Tables \in TablesType
    BY <1>1, <1>2, <1>4, <2>2 DEF TablesType
  <2> QED BY <1>1, <1>2, <1>3, <1>5, <2>1, <2>3 DEF Typed
<1>7. CurrentSound(Tables, counted)
  BY <1>1, <1>5 DEF CurrentSound
<1>8. StoredSound(Tables, counted)
  BY <1>1, <1>2, <1>5 DEF StoredSound, Stored
<1>9. RowsSound(Tables, counted, estimates)
  BY <1>1, <1>2, <1>5 DEF RowsSound
<1>10. EstimateSound(Tables, counted)
  BY <1>5 DEF EstimateSound
<1>11. EnvironmentTyped
  <2>1. now \in 0..MaxTime /\ faults \in 0..MaxFaults /\ 0 <= PageSize
    BY <1>1
  <2>2. ledger \in [Start -> Row]
    BY <1>1, <1>2
  <2>3. /\ push \in [at : {"idle", "send", "confirm", "end"}, left : SUBSET Snapshot]
        /\ IsFiniteSet(push.left) /\ Cardinality(push.left) <= PageSize
    BY <1>1, <1>3, <2>1 DEF NoPush
  <2> QED BY <1>1, <2>1, <2>2, <2>3 DEF EnvironmentTyped
<1>12. SnapshotsSound(counted, estimates) /\ PushSound
  BY <1>1 DEF SnapshotsSound, PushSound, NoPush
<1> QED BY <1>6, <1>7, <1>8, <1>9, <1>10, <1>11, <1>12 DEF UsageInv, TablesSound

(* The clock only moves away from the start of an estimate, and a deleted  *)
(* organization only loosens what the ledger must hold.                    *)
LEMMA SurroundingsKeep ==
  ASSUME UsageInv,
         UNCHANGED <<period, counters, outbox, alarm, push, ledger, late, counted,
                     estimates, faults>>,
         now' \in 0..MaxTime /\ now' >= now, gone' \in BOOLEAN /\ (gone => gone')
  PROVE  UsageInv'
<1>1. Tables' = Tables
  BY DEF Tables
<1>2. Typed(Tables, counted)' /\ CurrentSound(Tables, counted)'
      /\ RowsSound(Tables, counted, estimates)'
  BY <1>1, InvFacts DEF Typed, CurrentSound, RowsSound, Known
<1>3. StoredSound(Tables, counted)'
  BY <1>1, InvFacts DEF StoredSound, Stored, Known
<1>4. EstimateSound(Tables, counted)'
  <2>1. Known(Tables) => Tables.p.start \in Nat
    BY InvFacts, TablesFields
  <2>2. now \in Nat /\ now' \in Nat
    BY InvFacts, StartType DEF Start
  <2> QED BY <1>1, <2>1, <2>2, InvFacts DEF EstimateSound, SpanIsEmpty, Known
<1>5. EnvironmentTyped'
  BY InvFacts DEF EnvironmentTyped
<1>6. SnapshotsSound(counted, estimates)' /\ PushSound'
  BY InvFacts DEF SnapshotsSound, PushSound
<1> QED BY <1>2, <1>3, <1>4, <1>5, <1>6 DEF UsageInv, TablesSound

LEMMA NextKeeps == UsageInv /\ [Next]_vars => UsageInv'
<1> SUFFICES ASSUME UsageInv, [Next]_vars  PROVE  UsageInv'
  OBVIOUS
<1>1. /\ alarm \in BOOLEAN /\ faults \in 0..MaxFaults /\ now \in 0..MaxTime
      /\ gone \in BOOLEAN
  BY InvFacts DEF EnvironmentTyped
<1>2. CASE Check
  <2>1. PICK kv \in Configs, n \in Counts : \E t \in Decided(kv) : Counted(kv, t, n)
    BY <1>2 DEF Check
  <2>2. alarm' \in BOOLEAN /\ faults' \in 0..MaxFaults
    BY <1>1, <1>2 DEF Check, ScheduleSync
  <2> QED BY <1>2, <2>1, <2>2, CheckKeeps DEF Check
<1>3. CASE CheckUnscheduled
  <2>1. PICK kv \in Configs, n \in Counts : \E t \in Decided(kv) : Counted(kv, t, n)
    BY <1>3 DEF CheckUnscheduled
  <2>2. alarm' \in BOOLEAN /\ faults' \in 0..MaxFaults
    BY <1>1, <1>3 DEF CheckUnscheduled, Faulty
  <2> QED BY <1>3, <2>1, <2>2, CheckKeeps DEF CheckUnscheduled
<1>4. CASE AlarmFires
  BY <1>4, AlarmKeeps
<1>5. CASE Send \/ SendFails \/ ExecuteLate \/ Crash \/ EndAlarm
  BY <1>5, SendKeeps
<1>6. CASE Confirm
  BY <1>6, ConfirmKeeps
<1>7. CASE Tick
  <2>1. now' \in 0..MaxTime /\ now' >= now
    BY <1>1, <1>7 DEF Tick
  <2> QED BY <1>1, <1>7, <2>1, SurroundingsKeep DEF Tick
<1>8. CASE DeleteOrganization
  BY <1>1, <1>8, SurroundingsKeep DEF DeleteOrganization
<1>9. CASE UNCHANGED vars
  BY <1>1, <1>9, SurroundingsKeep DEF vars
<1> QED BY <1>2, <1>3, <1>4, <1>5, <1>6, <1>7, <1>8, <1>9 DEF Next

(* The tracker's invariant holds of every state it reaches: types, the     *)
(* current period's counters, where ended periods' units are, what rows    *)
(* and snapshots claim, and the empty span before an estimate.             *)
THEOREM UsageInvariance == Spec => []UsageInv
BY InitKeeps, NextKeeps, PTL DEF Spec

LEMMA InvIsKept == UsageInv => UsageIsKept
<1> SUFFICES ASSUME UsageInv  PROVE  UsageIsKept
  OBVIOUS
<1>1. /\ Tables.p = period /\ Tables.c = counters /\ Tables.o = outbox
  BY DEF Tables
<1>2. TypeOK
  <2>1. Cardinality(Waiting(outbox)) <= MaxPending
    BY <1>1, InvFacts DEF Typed
  <2> QED BY <2>1, InvFacts DEF TypeOK, EnvironmentTyped, Period, Counters
<1>3. period.start # Unknown => counted[period.start] = OfPeriod(counters)
  BY <1>1, InvFacts DEF CurrentSound, Known
<1>4. ASSUME NEW p \in Start, p # period.start, ~gone
      PROVE  AtMost(counted[p], Put(ledger[p], 0, outbox[p]))
  BY <1>1, <1>4, InvFacts DEF StoredSound, Stored
<1>5. \A p \in Start : /\ AtMost(outbox[p], counted[p])
                       /\ p \notin estimates => AtMost(ledger[p], counted[p])
  BY <1>1, InvFacts DEF RowsSound
<1> QED BY <1>2, <1>3, <1>4, <1>5 DEF UsageIsKept

(* Whatever the clock, the configurations and the faults of a push, the    *)
(* units of a period that ended are staged or recorded, and no row but a   *)
(* corrected estimate's claims more than was admitted.                     *)
THEOREM UsageKept == Spec => []UsageIsKept
BY UsageInvariance, InvIsKept, PTL

-----------------------------------------------------------------------------
(* The sum over all periods: AddonTotal is the last of the sums up to each *)
(* period.  Each fact about sums is shown of the first period without it.  *)

Sums(g, u, m) == \A n \in 0..m : g[n] = (IF n = 0 THEN 0 ELSE g[n - 1]) + u[n].add

LEMMA StartSteps ==
  /\ MaxTime \in Start /\ MaxTime \in Nat
  /\ \A n \in Start : n # 0 => n - 1 \in Start /\ n - 1 \in Nat /\ ~(n <= n - 1)
<1>1. MaxTime \in Nat
  OBVIOUS
<1> QED BY <1>1 DEF Start

LEMMA SumsExist ==
  ASSUME NEW u \in [Start -> Units], NEW m \in Start
  PROVE  \E g \in [0..m -> Nat] : Sums(g, u, m)
<1> DEFINE Missing == {n \in Start : ~\E g \in [0..n -> Nat] : Sums(g, u, n)}
<1>1. SUFFICES ASSUME Missing # {}  PROVE  FALSE
  OBVIOUS
<1>2. PICK n \in Missing : \A k \in Missing : n <= k
  <2>1. Missing \in SUBSET Nat
    BY StartType
  <2> HIDE DEF Missing
  <2> QED BY <1>1, <2>1, SmallestExists
<1>3. n \in Nat /\ n \in Start /\ u[n].add \in Nat
  BY <1>2, StartType DEF Units
<1>4. CASE n = 0
  <2> DEFINE g == [k \in 0..0 |-> u[n].add]
  <2>1. g \in [0..n -> Nat] /\ Sums(g, u, n)
    BY <1>3, <1>4 DEF Sums
  <2> QED BY <1>2, <2>1
<1>5. CASE n # 0
  <2>1. n - 1 \in Start /\ n - 1 \in Nat /\ n - 1 \notin Missing
    <3>1. n - 1 \in Start /\ n - 1 \in Nat /\ ~(n <= n - 1)
      BY <1>3, <1>5, StartSteps
    <3> QED BY <1>2, <3>1
  <2>2. PICK g \in [0..(n - 1) -> Nat] : Sums(g, u, n - 1)
    BY <2>1
  <2> DEFINE h == [k \in 0..n |-> IF k = n THEN g[n - 1] + u[n].add ELSE g[k]]
  <2>3. h \in [0..n -> Nat]
    <3>1. g[n - 1] + u[n].add \in Nat
      <4>1. n - 1 \in 0..(n - 1)
        BY <2>1
      <4>2. g[n - 1] \in Nat
        BY <4>1
      <4> QED BY <1>3, <4>2
    <3>2. ASSUME NEW k \in 0..n, k # n  PROVE  g[k] \in Nat
      <4>1. k \in 0..(n - 1)
        BY <1>3, <3>2
      <4> QED BY <4>1
    <3> QED BY <3>1, <3>2
  <2>4. ASSUME NEW k \in 0..n
        PROVE  h[k] = (IF k = 0 THEN 0 ELSE h[k - 1]) + u[k].add
    <3>1. CASE k = n
      <4>1. h[n] = g[n - 1] + u[n].add /\ h[n - 1] = g[n - 1]
        BY <1>3, <2>1
      <4> QED BY <1>5, <3>1, <4>1
    <3>2. CASE k # n
      <4>1. k \in 0..(n - 1) /\ (k # 0 => k - 1 \in 0..n /\ k - 1 # n)
        BY <1>3, <2>1, <2>4, <3>2
      <4>2. h[k] = g[k] /\ (k # 0 => h[k - 1] = g[k - 1])
        BY <2>4, <3>2, <4>1
      <4> HIDE DEF h
      <4> QED BY <2>2, <4>1, <4>2 DEF Sums
    <3> QED BY <3>1, <3>2
  <2> HIDE DEF h
  <2>5. Sums(h, u, n)
    BY <2>4 DEF Sums
  <2> QED BY <1>2, <2>3, <2>5
<1> QED BY <1>4, <1>5

LEMMA TotalIsLastSum ==
  ASSUME NEW u \in [Start -> Units]
  PROVE  \E g \in [Start -> Nat] : Sums(g, u, MaxTime) /\ AddonTotal(u) = g[MaxTime]
<1> DEFINE Following(f) == [p \in Start |-> (IF p = 0 THEN 0 ELSE f[p - 1]) + u[p].add]
           chosen == CHOOSE f : f = Following(f)
<1>1. MaxTime \in Start /\ MaxTime \in Nat
  BY StartSteps
<1>2. PICK g \in [0..MaxTime -> Nat] : Sums(g, u, MaxTime)
  BY <1>1, SumsExist
<1>3. g = Following(g)
  BY <1>2 DEF Sums, Start
<1>4. chosen = Following(chosen)
  <2> HIDE DEF Following
  <2> QED BY <1>3
<1>5. AddonTotal(u) = chosen[MaxTime]
  BY DEF AddonTotal
<1> HIDE DEF chosen
<1>6. \A p \in Start : chosen[p] = (IF p = 0 THEN 0 ELSE chosen[p - 1]) + u[p].add
  BY <1>4
<1>7. \A p \in Start : chosen[p] \in Nat
  <2> DEFINE Odd == {p \in Start : chosen[p] \notin Nat}
  <2>1. SUFFICES ASSUME Odd # {}  PROVE  FALSE
    OBVIOUS
  <2>2. PICK n \in Odd : \A k \in Odd : n <= k
    <3>1. Odd \in SUBSET Nat
      BY StartType
    <3> HIDE DEF Odd
    <3> QED BY <2>1, <3>1, SmallestExists
  <2>3. n \in Nat /\ n \in Start /\ u[n].add \in Nat
    BY <2>2, StartType DEF Units
  <2>4. CASE n = 0
    BY <1>6, <2>2, <2>3, <2>4
  <2>5. CASE n # 0
    <3>1. n - 1 \in Start /\ n - 1 \in Nat /\ ~(n <= n - 1)
      BY <2>3, <2>5, StartSteps
    <3>2. n - 1 \in Start /\ chosen[n - 1] \in Nat
      BY <2>2, <3>1
    <3> QED BY <1>6, <2>2, <2>3, <2>5, <3>2
  <2> QED BY <2>4, <2>5
<1>8. chosen \in [Start -> Nat] /\ Sums(chosen, u, MaxTime)
  <2>1. DOMAIN chosen = Start
    BY <1>4
  <2>2. chosen = [p \in Start |-> chosen[p]]
    BY <1>4
  <2> HIDE DEF Following
  <2> QED BY <1>6, <1>7, <2>2 DEF Sums, Start
<1> QED BY <1>5, <1>8

(* Changing one period's units changes the total by as much. *)
LEMMA TotalChanges ==
  ASSUME NEW u \in [Start -> Units], NEW v \in [Start -> Units], NEW q \in Start,
         \A p \in Start \ {q} : v[p] = u[p]
  PROVE  /\ AddonTotal(u) \in Nat /\ AddonTotal(v) \in Nat
         /\ AddonTotal(v) + u[q].add = AddonTotal(u) + v[q].add
<1>1. PICK g \in [Start -> Nat] : Sums(g, u, MaxTime) /\ AddonTotal(u) = g[MaxTime]
  BY TotalIsLastSum
<1>2. PICK h \in [Start -> Nat] : Sums(h, v, MaxTime) /\ AddonTotal(v) = h[MaxTime]
  BY TotalIsLastSum
<1> DEFINE Moves(n) == IF n < q THEN h[n] = g[n] ELSE h[n] + u[q].add = g[n] + v[q].add
           Odd == {n \in Start : ~Moves(n)}
<1>3. \A n \in Start : /\ g[n] = (IF n = 0 THEN 0 ELSE g[n - 1]) + u[n].add
                       /\ h[n] = (IF n = 0 THEN 0 ELSE h[n - 1]) + v[n].add
  BY <1>1, <1>2 DEF Sums, Start
<1>4. MaxTime \in Start /\ MaxTime \in Nat /\ q \in Nat /\ q <= MaxTime
  BY StartType, StartSteps
<1>5. Odd = {}
  <2>1. SUFFICES ASSUME Odd # {}  PROVE  FALSE
    OBVIOUS
  <2>2. PICK n \in Odd : \A k \in Odd : n <= k
    <3>1. Odd \in SUBSET Nat
      BY StartType
    <3> HIDE DEF Odd
    <3> QED BY <2>1, <3>1, SmallestExists
  <2>3. /\ n \in Nat /\ n \in Start /\ ~Moves(n)
        /\ u[n].add \in Nat /\ v[n].add \in Nat /\ u[q].add \in Nat /\ v[q].add \in Nat
        /\ g[n] \in Nat /\ h[n] \in Nat
        /\ n # q => u[n].add = v[n].add
    BY <2>2, StartType DEF Units
  <2>4. CASE n = 0
    <3>1. g[n] = u[n].add /\ h[n] = v[n].add
      BY <1>3, <2>3, <2>4
    <3> QED BY <1>4, <2>3, <2>4, <3>1
  <2>5. CASE n # 0
    <3>1. n - 1 \in Start /\ n - 1 \in Nat /\ ~(n <= n - 1)
      BY <2>3, <2>5, StartSteps
    <3>2. n - 1 \in Start /\ Moves(n - 1) /\ g[n - 1] \in Nat /\ h[n - 1] \in Nat
      BY <2>2, <3>1
    <3>3. g[n] = g[n - 1] + u[n].add /\ h[n] = h[n - 1] + v[n].add
      BY <1>3, <2>3, <2>5
    <3> HIDE DEF Odd
    <3> QED BY <1>4, <2>3, <3>2, <3>3
  <2> QED BY <2>4, <2>5
<1>6. Moves(MaxTime)
  BY <1>4, <1>5
<1> QED BY <1>1, <1>2, <1>4, <1>6

LEMMA TotalOfNothing ==
  ASSUME NEW u \in [Start -> Units], \A p \in Start : u[p] = NoUnits
  PROVE  AddonTotal(u) = 0
<1>1. PICK g \in [Start -> Nat] : Sums(g, u, MaxTime) /\ AddonTotal(u) = g[MaxTime]
  BY TotalIsLastSum
<1> DEFINE Odd == {n \in Start : g[n] # 0}
<1>2. \A n \in Start : g[n] = (IF n = 0 THEN 0 ELSE g[n - 1]) + 0
  BY <1>1 DEF Sums, Start, NoUnits
<1>3. Odd = {}
  <2>1. SUFFICES ASSUME Odd # {}  PROVE  FALSE
    OBVIOUS
  <2>2. PICK n \in Odd : \A k \in Odd : n <= k
    <3>1. Odd \in SUBSET Nat
      BY StartType
    <3> HIDE DEF Odd
    <3> QED BY <2>1, <3>1, SmallestExists
  <2>3. n \in Nat /\ n \in Start
    BY <2>2, StartType
  <2>4. CASE n = 0
    BY <1>2, <2>2, <2>3, <2>4
  <2>5. CASE n # 0
    <3>1. n - 1 \in Start /\ n - 1 \in Nat /\ ~(n <= n - 1)
      BY <2>3, <2>5, StartSteps
    <3>2. n - 1 \in Start /\ g[n - 1] = 0
      BY <2>2, <3>1
    <3> QED BY <1>2, <2>2, <2>3, <2>5, <3>2
  <2> QED BY <2>4, <2>5
<1>4. MaxTime \in Start
  BY StartSteps
<1> QED BY <1>1, <1>3, <1>4

-----------------------------------------------------------------------------
(* Nobody gets more than the entitlement *)

(* The addon counter runs on from period to period and is the total.       *)
EntitlementSound(t, u) ==
  /\ \A p \in Start : \E kv \in Configs : u[p].sub <= kv.monthly
  /\ AddonTotal(u) = t.c.add
  /\ \E kv \in Configs : t.c.add <= kv.addon

(* A correction takes units along and gives none away. *)
LEMMA MovedEntitled ==
  ASSUME NEW t, NEW u, NEW e, TablesSound(t, u, e), EstimateSound(t, u),
         NEW kv \in Configs
  PROVE  /\ AddonTotal(MovedUnits(t, u, kv)) = AddonTotal(u)
         /\ \A p \in Start : \E q \in Start : MovedUnits(t, u, kv)[p] = u[q]
<1>1. u \in [Start -> Units]
  BY DEF TablesSound, Typed
<1>2. CASE ~(Known(t) /\ Corrects(kv, t.p))
  BY <1>2 DEF MovedUnits
<1>3. CASE Known(t) /\ Corrects(kv, t.p)
  <2> DEFINE start == kv.start
             old == t.p.start
             v == MovedUnits(t, u, kv)
             w == [u EXCEPT ![start] = u[old]]
  <2>1. /\ start \in Start /\ old \in Start /\ start # old
        /\ u[start] = NoUnits /\ u[old] \in Units
        /\ v = [u EXCEPT ![start] = u[old], ![old] = NoUnits]
    BY <1>3, CorrectionSwaps
  <2>2. NoUnits \in Units /\ NoUnits.add = 0
    BY DEF NoUnits, Units
  <2>3. /\ w \in [Start -> Units] /\ w[start] = u[old] /\ w[old] = u[old]
        /\ \A p \in Start \ {start} : w[p] = u[p]
    BY <1>1, <2>1
  <2>4. /\ v \in [Start -> Units] /\ v[start] = u[old] /\ v[old] = NoUnits
        /\ \A p \in Start \ {old} : v[p] = w[p]
    BY <1>1, <2>1, <2>2
  <2> HIDE DEF v, w, start, old
  <2>5. /\ AddonTotal(u) \in Nat /\ AddonTotal(w) \in Nat
        /\ AddonTotal(w) + u[start].add = AddonTotal(u) + w[start].add
    BY <1>1, <2>1, <2>3, TotalChanges
  <2>6. /\ AddonTotal(v) \in Nat
        /\ AddonTotal(v) + w[old].add = AddonTotal(w) + v[old].add
    BY <2>1, <2>3, <2>4, TotalChanges
  <2>7. u[old].add \in Nat
    BY <2>1 DEF Units
  <2>8. AddonTotal(v) = AddonTotal(u)
    BY <2>1, <2>2, <2>3, <2>4, <2>5, <2>6, <2>7
  <2>9. ASSUME NEW p \in Start  PROVE  \E q \in Start : v[p] = u[q]
    <3>1. v[p] \in {u[old], u[start], u[p]}
      BY <2>1, <2>3, <2>4
    <3> QED BY <2>1, <3>1
  <2> QED BY <2>8, <2>9 DEF v
<1> QED BY <1>2, <1>3

LEMMA CountEntitled ==
  ASSUME NEW t, NEW u, NEW e, TablesSound(t, u, e), Known(t), EntitlementSound(t, u),
         NEW kv \in Configs, t.p.monthly = kv.monthly, t.p.addon = kv.addon,
         NEW n \in Nat, NEW units,
         units = IF Admits(t, n) THEN SplitUnits(t, n) ELSE NoUnits
  PROVE  EntitlementSound(CountedTables(t, units), CountedUnits(t, u, units))
<1> DEFINE start == t.p.start
           v == CountedUnits(t, u, units)
           s == CountedTables(t, units)
<1>1. /\ start \in Start /\ u \in [Start -> Units] /\ u[start] = OfPeriod(t.c)
      /\ t.c \in Counters /\ t.c.sub \in Nat /\ t.c.add \in Nat /\ t.c.base \in Nat
      /\ t.c.base <= t.c.add
  BY TablesFields DEF TablesSound, Typed, CurrentSound
<1>2. kv.monthly \in Nat /\ kv.addon \in Nat
  OBVIOUS
<1>3. /\ FreeUnits(t) \in Nat /\ PaidUnits(t) \in Nat
      /\ FreeUnits(t) + t.c.sub <= kv.monthly \/ FreeUnits(t) = 0
      /\ PaidUnits(t) + t.c.add <= kv.addon \/ PaidUnits(t) = 0
  BY <1>1, <1>2 DEF FreeUnits, PaidUnits, Larger
<1>4. /\ units.sub \in Nat /\ units.add \in Nat
      /\ units.sub <= FreeUnits(t) /\ units.add <= PaidUnits(t)
  <2>1. CASE ~Admits(t, n)
    BY <1>3, <2>1 DEF NoUnits
  <2>2. CASE Admits(t, n)
    BY <1>3, <2>2 DEF Admits, SplitUnits
  <2> QED BY <2>1, <2>2
<1>5. u[start].sub = t.c.sub /\ u[start].add \in Nat
  BY <1>1 DEF OfPeriod, Units
<1>6. /\ v \in [Start -> Units]
      /\ v[start] = [sub |-> u[start].sub + units.sub, add |-> u[start].add + units.add]
      /\ \A p \in Start \ {start} : v[p] = u[p]
  BY <1>1, <1>4 DEF CountedUnits, Units
<1>7. s.c.add = t.c.add + units.add
  BY <1>1 DEF CountedTables, Counters
<1> HIDE DEF v, s
<1>8. AddonTotal(v) = s.c.add
  <2>1. /\ AddonTotal(u) \in Nat /\ AddonTotal(v) \in Nat
        /\ AddonTotal(v) + u[start].add = AddonTotal(u) + v[start].add
    BY <1>1, <1>6, TotalChanges
  <2>2. AddonTotal(u) = t.c.add
    BY DEF EntitlementSound
  <2>3. v[start].add = u[start].add + units.add
    BY <1>6
  <2> QED BY <1>1, <1>4, <1>5, <1>7, <2>1, <2>2, <2>3
<1>9. ASSUME NEW p \in Start  PROVE  \E offer \in Configs : v[p].sub <= offer.monthly
  <2>1. PICK offer \in Configs : u[p].sub <= offer.monthly
    BY DEF EntitlementSound
  <2>2. CASE p # start
    BY <1>6, <2>1, <2>2
  <2>3. CASE p = start
    <3>1. v[p].sub = t.c.sub + units.sub
      BY <1>5, <1>6, <2>3
    <3>2. CASE units.sub = 0
      BY <1>1, <1>5, <2>1, <2>3, <3>1, <3>2
    <3>3. CASE units.sub # 0
      <4>1. t.c.sub + units.sub <= kv.monthly
        BY <1>1, <1>2, <1>3, <1>4, <3>3
      <4> QED BY <3>1, <4>1
    <3> QED BY <3>2, <3>3
  <2> QED BY <2>2, <2>3
<1>10. \E offer \in Configs : s.c.add <= offer.addon
  <2>1. PICK offer \in Configs : t.c.add <= offer.addon
    BY DEF EntitlementSound
  <2>2. CASE units.add = 0
    BY <1>1, <1>7, <2>1, <2>2
  <2>3. CASE units.add # 0
    <3>1. t.c.add + units.add <= kv.addon
      BY <1>1, <1>2, <1>3, <1>4, <2>3
    <3> QED BY <1>7, <3>1
  <2> QED BY <2>2, <2>3
<1> QED BY <1>8, <1>9, <1>10 DEF EntitlementSound, v, s

LEMMA CheckEntitled ==
  ASSUME UsageInv, EntitlementSound(Tables, counted), NEW kv \in Configs, NEW n \in Counts,
         NEW t \in Decided(kv), Counted(kv, t, n)
  PROVE  EntitlementSound(Tables, counted)'
<1>1. /\ TablesSound(Tables, counted, estimates) /\ EstimateSound(Tables, counted)
      /\ ledger \in [Start -> Row] /\ now \in 0..MaxTime /\ n \in Nat
  BY InvFacts
<1>2. PICK x, u, e : x = Tables /\ u = counted /\ e = estimates
  OBVIOUS
<1>3. TablesSound(x, u, e) /\ EstimateSound(x, u) /\ EntitlementSound(x, u)
  BY <1>1, <1>2
<1>4. Moved(kv) = MovedUnits(x, u, kv)
  BY <1>2, Zenon DEF Moved, MovedUnits, Known, Tables
<1>5. t \in UNION {Roll(r) : r \in Configure(x, kv)}
  BY <1>2 DEF Decided
<1> DEFINE v == MovedUnits(x, u, kv)
           f == MovedStarts(x, e, kv)
<1>6. /\ TablesSound(t, v, f) /\ Known(t)
      /\ t.c.add = x.c.add /\ t.p.monthly = kv.monthly /\ t.p.addon = kv.addon
  BY <1>1, <1>3, <1>5, DecidedSound
<1>7. EntitlementSound(t, v)
  <2>1. /\ AddonTotal(v) = AddonTotal(u)
        /\ \A p \in Start : \E q \in Start : v[p] = u[q]
    BY <1>3, MovedEntitled
  <2> HIDE DEF v
  <2> QED BY <1>3, <1>6, <2>1 DEF EntitlementSound
<1> HIDE DEF v, f
<1>8. PICK units : units = IF Admits(t, n) THEN SplitUnits(t, n) ELSE NoUnits
  OBVIOUS
<1> DEFINE s == CountedTables(t, units)
           w == CountedUnits(t, v, units)
<1>9. Tables' = s /\ counted' = w
  BY <1>4, <1>8, Zenon DEF Counted, Tables, CountedTables, CountedUnits, v
<1>10. EntitlementSound(s, w)
  BY <1>1, <1>6, <1>7, <1>8, CountEntitled
<1> HIDE DEF s, w
<1> QED BY <1>9, <1>10 DEF EntitlementSound

LEMMA NextEntitled ==
  UsageInv /\ EntitlementSound(Tables, counted) /\ [Next]_vars
    => EntitlementSound(Tables, counted)'
<1> SUFFICES ASSUME UsageInv, EntitlementSound(Tables, counted), [Next]_vars
             PROVE  EntitlementSound(Tables, counted)'
  OBVIOUS
<1>1. CASE Check \/ CheckUnscheduled
  <2>1. PICK kv \in Configs, n \in Counts : \E t \in Decided(kv) : Counted(kv, t, n)
    BY <1>1 DEF Check, CheckUnscheduled
  <2> QED BY <2>1, CheckEntitled
<1>2. ASSUME UNCHANGED counted, counters'.add = counters.add
      PROVE  EntitlementSound(Tables, counted)'
  <2>1. Tables'.c.add = Tables.c.add
    BY <1>2 DEF Tables
  <2> QED BY <1>2, <2>1 DEF EntitlementSound
<1>3. CASE Confirm
  <2>1. counters \in Counters
    BY InvFacts
  <2>2. counters'.add = counters.add
    BY <1>3, <2>1 DEF Confirm, Counters
  <2> QED BY <1>2, <1>3, <2>2 DEF Confirm
<1>4. CASE AlarmFires \/ Send \/ SendFails \/ ExecuteLate \/ EndAlarm \/ Crash
  BY <1>2, <1>4 DEF AlarmFires, Send, SendFails, ExecuteLate, EndAlarm, Crash, Unpushed
<1>5. CASE Tick \/ DeleteOrganization \/ UNCHANGED vars
  BY <1>2, <1>5 DEF Tick, DeleteOrganization, vars
<1> QED BY <1>1, <1>3, <1>4, <1>5 DEF Next

LEMMA InitEntitled == Init => EntitlementSound(Tables, counted)
<1> SUFFICES ASSUME Init  PROVE  EntitlementSound(Tables, counted)
  OBVIOUS
<1>1. /\ counted = [p \in Start |-> NoUnits] /\ Tables.c.add = 0
  BY DEF Init, Tables
<1>2. counted \in [Start -> Units] /\ \A p \in Start : counted[p] = NoUnits
  BY <1>1 DEF NoUnits, Units
<1>3. AddonTotal(counted) = 0
  BY <1>2, TotalOfNothing
<1>4. PICK kv \in Configs : kv.monthly \in Nat /\ kv.addon \in Nat
  OBVIOUS
<1> QED BY <1>1, <1>2, <1>3, <1>4 DEF EntitlementSound, NoUnits

(* However periods begin, end, roll over and are corrected, a period gives *)
(* away at most some monthly allowance and all periods together at most    *)
(* the addons of some configuration.                                       *)
THEOREM EntitlementKept == Spec => []WithinEntitlement
<1>1. EntitlementSound(Tables, counted) => WithinEntitlement
  <2> SUFFICES ASSUME EntitlementSound(Tables, counted)  PROVE  WithinEntitlement
    OBVIOUS
  <2>1. Tables.c.add = AddonTotal(counted)
    BY DEF EntitlementSound
  <2> QED BY <2>1 DEF EntitlementSound, WithinEntitlement
<1> QED BY <1>1, UsageInvariance, InitEntitled, NextEntitled, PTL DEF Spec
=============================================================================
