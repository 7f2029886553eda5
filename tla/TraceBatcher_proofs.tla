------------------------ MODULE TraceBatcher_proofs ------------------------
(***************************************************************************)
(* Proofs about TraceBatcher, whatever the messages, modes, sizes and      *)
(* numbers of faults and crashes: every row, record and late insert agree  *)
(* on what is stored, so nothing is stored twice or lost; and the          *)
(* bookkeeping in memory that decides whether a shard still flushes is     *)
(* never wrong in a way that leaves traces behind.                         *)
(*                                                                         *)
(* The first lemmas are about the model's operators: recursions, the       *)
(* selection of rows and their division into parts.  Then come the tables, *)
(* staging, the flush and the memory, one part of the invariant each, and  *)
(* at the end the invariant itself and the theorems.                       *)
(***************************************************************************)
EXTENDS TraceBatcher, FiniteSetTheorems, SequenceTheorems,
        WellFoundedInduction, TLAPS

(* A set of numbers has a smallest. *)
LEMMA SmallestExists ==
  ASSUME NEW S \in SUBSET Nat, S # {}
  PROVE  \E m \in S : \A n \in S : m <= n
<1> DEFINE Less == {ss \in Nat \X Nat : ss[1] < ss[2]}
<1>1. IsWellFoundedOn(Less, Nat)
  BY NatLessThanWellFounded DEF OpToRel
<1>2. PICK m \in S : \A n \in S : <<n, m>> \notin Less
  <2> HIDE DEF Less
  <2> QED BY <1>1, WFMin
<1>3. \A n \in S : ~(n < m)
  BY <1>2
<1> QED BY <1>2, <1>3

(* What holds of 0 and climbs by one holds up to the end. *)
LEMMA Climb ==
  ASSUME NEW last \in Nat, NEW Good, 0 \in Good,
         \A n \in 1..last : n - 1 \in Good => n \in Good
  PROVE  0..last \subseteq Good
<1> DEFINE Bad == (0..last) \ Good
<1>1. SUFFICES ASSUME Bad # {}  PROVE  FALSE
  OBVIOUS
<1>2. PICK n \in Bad : \A k \in Bad : n <= k
  <2>1. Bad \in SUBSET Nat
    OBVIOUS
  <2> HIDE DEF Bad
  <2> QED BY <1>1, <2>1, SmallestExists
<1>3. n \in 1..last /\ n - 1 \in 0..last /\ ~(n <= n - 1)
  BY <1>2
<1> QED BY <1>2, <1>3

(* Values that follow from one another step by step exist. *)
Follows(g, base, next, last) ==
  g[0] = base /\ \A n \in 1..last : g[n] = next[n][g[n - 1]]

(* A recursive function over 0..last exists. *)
LEMMA RecursionExists ==
  ASSUME NEW S, NEW base \in S, NEW last \in Nat, NEW next \in [1..last -> [S -> S]]
  PROVE  \E g \in [0..last -> S] : Follows(g, base, next, last)
<1> DEFINE Good == {m \in 0..last : \E g \in [0..m -> S] : Follows(g, base, next, m)}
<1>1. 0 \in Good
  <2> DEFINE g == [k \in 0..0 |-> base]
  <2>1. 0 \in 0..0 /\ 1..0 = {}
    OBVIOUS
  <2>2. g \in [0..0 -> S]
    BY Zenon
  <2>3. g[0] = base
    BY <2>1
  <2> HIDE DEF g
  <2> QED BY <2>1, <2>2, <2>3 DEF Follows
<1>2. ASSUME NEW m \in 1..last, m - 1 \in Good  PROVE  m \in Good
  <2>1. PICK g \in [0..(m - 1) -> S] : Follows(g, base, next, m - 1)
    BY <1>2
  <2> DEFINE h == [k \in 0..m |-> IF k = m THEN next[m][g[m - 1]] ELSE g[k]]
  <2>2. m - 1 \in 0..(m - 1) /\ g[m - 1] \in S /\ next[m] \in [S -> S]
    OBVIOUS
  <2>3. h \in [0..m -> S]
    BY <2>2
  <2>4. h[0] = base
    BY <2>1 DEF Follows
  <2>5. ASSUME NEW n \in 1..m  PROVE  h[n] = next[n][h[n - 1]]
    <3>1. CASE n = m
      BY <3>1
    <3>2. CASE n # m
      <4>1. n \in 1..(m - 1) /\ n - 1 \in 0..m /\ n - 1 # m /\ n \in 0..m
        BY <3>2
      <4>2. h[n] = g[n] /\ h[n - 1] = g[n - 1]
        BY <3>2, <4>1
      <4> HIDE DEF h
      <4> QED BY <2>1, <4>1, <4>2 DEF Follows
    <3> QED BY <3>1, <3>2
  <2> HIDE DEF h
  <2>6. Follows(h, base, next, m)
    BY <2>4, <2>5 DEF Follows
  <2> QED BY <2>3, <2>6
<1>3. 0..last \subseteq Good
  <2> HIDE DEF Good
  <2> QED BY <1>1, <1>2, Climb
<1>4. last \in 0..last
  OBVIOUS
<1> QED BY <1>3, <1>4

(* The ids of a set of rows in their order. *)
Increasing(s) == \A m, n \in DOMAIN s : m < n => s[m] < s[n]

(* A set of places has a largest. *)
LEMMA LargestExists ==
  ASSUME NEW last \in Nat, NEW S \in SUBSET (1..last), S # {}
  PROVE  \E m \in S : \A n \in S : n <= m
<1> DEFINE Left == {last - p : p \in S}
<1>1. Left \in SUBSET Nat /\ Left # {}
  <2>1. \A p \in 1..last : last - p \in Nat
    OBVIOUS
  <2> QED BY <2>1
<1>2. PICK x \in Left : \A y \in Left : x <= y
  <2> HIDE DEF Left
  <2> QED BY <1>1, SmallestExists
<1>3. PICK m \in S : x = last - m
  BY <1>2
<1>4. \A n \in S : last - m <= last - n
  BY <1>2, <1>3
<1> QED BY <1>3, <1>4

(* The places of a set can be put in order. *)
LEMMA OrderExists ==
  ASSUME NEW last \in Nat, NEW ids \in SUBSET (1..last)
  PROVE  /\ IsFiniteSet(ids) /\ Cardinality(ids) \in Nat
         /\ \E s \in [1..Cardinality(ids) -> ids] :
              Increasing(s) /\ \A i \in ids : \E n \in DOMAIN s : s[n] = i
<1> DEFINE Ordered(S) ==
             \E s \in [1..Cardinality(S) -> S] :
               Increasing(s) /\ \A i \in S : \E n \in DOMAIN s : s[n] = i
           Good == {n \in Nat : \A S \in SUBSET (1..last) : Cardinality(S) = n => Ordered(S)}
<1>1. \A S \in SUBSET (1..last) : IsFiniteSet(S) /\ Cardinality(S) \in Nat
  <2>1. IsFiniteSet(1..last)
    BY FS_Interval
  <2> QED BY <2>1, FS_Subset, FS_CardinalityType
<1>2. 0 \in Good
  <2>1. SUFFICES ASSUME NEW S \in SUBSET (1..last), Cardinality(S) = 0
                 PROVE  Ordered(S)
    OBVIOUS
  <2>2. S = {}
    BY <1>1, <2>1, FS_EmptySet
  <2> DEFINE s == [n \in 1..0 |-> n]
  <2>3. s \in [1..Cardinality(S) -> S] /\ Increasing(s)
    BY <2>1 DEF Increasing
  <2> QED BY <2>2, <2>3
<1>3. ASSUME NEW n \in 1..Cardinality(ids), n - 1 \in Good  PROVE  n \in Good
  <2>1. n \in Nat
    BY <1>1
  <2>2. SUFFICES ASSUME NEW S \in SUBSET (1..last), Cardinality(S) = n
                 PROVE  Ordered(S)
    BY <2>1
  <2>3. S # {}
    BY <1>1, <1>3, <2>2, FS_EmptySet
  <2>4. PICK x \in S : \A y \in S : y <= x
    BY <2>3, LargestExists
  <2>5. Cardinality(S \ {x}) = n - 1 /\ S \ {x} \in SUBSET (1..last)
    BY <1>1, <2>2, <2>4, FS_RemoveElement
  <2>6. Ordered(S \ {x})
    <3> HIDE DEF Ordered
    <3> QED BY <1>3, <2>5
  <2>7. PICK s \in [1..(n - 1) -> S \ {x}] :
          Increasing(s) /\ \A i \in S \ {x} : \E k \in DOMAIN s : s[k] = i
    BY <2>5, <2>6
  <2> DEFINE t == [k \in 1..n |-> IF k = n THEN x ELSE s[k]]
  <2>8. \A k \in 1..n : k = n \/ k \in 1..(n - 1)
    BY <2>1
  <2>9. t \in [1..n -> S]
    BY <2>4, <2>7, <2>8
  <2>10. Increasing(t)
    <3>1. SUFFICES ASSUME NEW a \in 1..n, NEW b \in 1..n, a < b
                   PROVE  t[a] < t[b]
      BY DEF Increasing
    <3>2. a \in 1..(n - 1)
      BY <2>8, <3>1
    <3>3. s[a] \in S /\ s[a] # x /\ s[a] \in 1..last /\ x \in 1..last
      BY <2>4, <2>7, <3>2
    <3>4. CASE b = n
      BY <2>4, <3>1, <3>2, <3>3, <3>4
    <3>5. CASE b # n
      BY <2>7, <2>8, <3>1, <3>2, <3>5 DEF Increasing
    <3> QED BY <3>4, <3>5
  <2>11. \A i \in S : \E k \in 1..n : t[k] = i
    <3>1. n \in 1..n /\ t[n] = x
      BY <1>3
    <3>2. ASSUME NEW i \in S \ {x}  PROVE  \E k \in 1..n : t[k] = i
      <4>1. PICK k \in 1..(n - 1) : s[k] = i
        BY <2>7
      <4>2. k \in 1..n /\ k # n
        BY <2>1
      <4> QED BY <4>1, <4>2
    <3> QED BY <3>1, <3>2
  <2> HIDE DEF t
  <2> QED BY <2>2, <2>9, <2>10, <2>11
<1>4. 0..Cardinality(ids) \subseteq Good
  <2>1. Cardinality(ids) \in Nat
    BY <1>1
  <2> HIDE DEF Good
  <2> QED BY <1>2, <1>3, <2>1, Climb
<1>5. Cardinality(ids) \in Good
  BY <1>1, <1>4
<1> QED BY <1>1, <1>5

(* InOrder lists every id of the set once. *)
LEMMA InOrderFacts ==
  ASSUME NEW last \in Nat, NEW ids \in SUBSET (1..last)
  PROVE  /\ InOrder(ids) \in Seq(ids)
         /\ Len(InOrder(ids)) = Cardinality(ids) /\ Cardinality(ids) \in Nat
         /\ \A m, n \in 1..Cardinality(ids) : InOrder(ids)[m] = InOrder(ids)[n] => m = n
         /\ ids # {} => Cardinality(ids) > 0
<1>1. IsFiniteSet(ids) /\ Cardinality(ids) \in Nat
  BY OrderExists
<1>2. \E s \in [1..Cardinality(ids) -> ids] : \A m, n \in DOMAIN s : m < n => s[m] < s[n]
  BY OrderExists DEF Increasing
<1>3. /\ InOrder(ids) \in [1..Cardinality(ids) -> ids]
      /\ \A m, n \in DOMAIN InOrder(ids) : m < n => InOrder(ids)[m] < InOrder(ids)[n]
  BY <1>2, Zenon DEF InOrder
<1>4. InOrder(ids) \in Seq(ids) /\ Len(InOrder(ids)) = Cardinality(ids)
  BY <1>1, <1>3
<1>5. ASSUME NEW m \in 1..Cardinality(ids), NEW n \in 1..Cardinality(ids), m # n
      PROVE  InOrder(ids)[m] # InOrder(ids)[n]
  <2>1. InOrder(ids)[m] \in 1..last /\ InOrder(ids)[n] \in 1..last
    BY <1>3
  <2>2. m < n \/ n < m
    BY <1>1, <1>5
  <2> QED BY <1>3, <2>1, <2>2
<1>6. ids # {} => Cardinality(ids) > 0
  BY <1>1, FS_EmptySet
<1> QED BY <1>1, <1>4, <1>5, <1>6

-----------------------------------------------------------------------------
(* Parts of a batch *)

(* The ids of all parts differ, and are these. *)
Distinct(parts) ==
  \A p, q \in DOMAIN parts :
    \A i \in DOMAIN parts[p], j \in DOMAIN parts[q] :
      parts[p][i] = parts[q][j] => p = q /\ i = j
Held(parts, ids) ==
  Distinct(parts) /\ \A p \in DOMAIN parts : \A i \in DOMAIN parts[p] : parts[p][i] \in ids

(* A new part, or a longer last part, with an id of its own. *)
LEMMA HeldWithPart ==
  ASSUME NEW D, NEW ids \in SUBSET D, NEW parts \in Seq(Seq(D)), Held(parts, ids),
         NEW x \in D \ ids
  PROVE  Held(Append(parts, <<x>>), ids \cup {x})
<1> DEFINE longer == Append(parts, <<x>>)
<1>1. <<x>> \in Seq(D) /\ DOMAIN <<x>> = {1} /\ <<x>>[1] = x
  OBVIOUS
<1>2. /\ DOMAIN longer = DOMAIN parts \cup {Len(parts) + 1}
      /\ \A p \in DOMAIN parts : longer[p] = parts[p] /\ p # Len(parts) + 1
      /\ longer[Len(parts) + 1] = <<x>>
  BY <1>1, AppendProperties
<1> HIDE DEF longer
<1>3. ASSUME NEW p \in DOMAIN longer, NEW i \in DOMAIN longer[p]
      PROVE  longer[p][i] \in ids \cup {x}
  BY <1>1, <1>2 DEF Held
<1>4. ASSUME NEW p \in DOMAIN longer, NEW q \in DOMAIN longer,
             NEW i \in DOMAIN longer[p], NEW j \in DOMAIN longer[q],
             longer[p][i] = longer[q][j]
      PROVE  p = q /\ i = j
  <2>1. CASE p \in DOMAIN parts /\ q \in DOMAIN parts
    BY <1>2, <1>4, <2>1 DEF Held, Distinct
  <2>2. CASE p = Len(parts) + 1 /\ q = Len(parts) + 1
    BY <1>1, <1>2, <2>2
  <2>3. CASE p = Len(parts) + 1 /\ q \in DOMAIN parts
    BY <1>1, <1>2, <1>4, <2>3 DEF Held
  <2>4. CASE q = Len(parts) + 1 /\ p \in DOMAIN parts
    BY <1>1, <1>2, <1>4, <2>4 DEF Held
  <2> QED BY <1>2, <2>1, <2>2, <2>3, <2>4
<1>5. Held(longer, ids \cup {x})
  BY <1>3, <1>4 DEF Held, Distinct
<1> QED BY <1>5 DEF longer

(* The last place of a longer sequence. *)
LEMMA Lasts ==
  ASSUME NEW S, NEW seq \in Seq(S)
  PROVE  /\ Len(seq) + 1 \in 1..(Len(seq) + 1)
         /\ \A p \in 1..(Len(seq) + 1) : p # Len(seq) + 1 => p \in 1..Len(seq)
OBVIOUS

(* The last part gets one more id. *)
LEMMA HeldWithLonger ==
  ASSUME NEW D, NEW ids \in SUBSET D, NEW done \in Seq(Seq(D)), NEW current \in Seq(D),
         Held(Append(done, current), ids), NEW x \in D \ ids
  PROVE  Held(Append(done, Append(current, x)), ids \cup {x})
<1> DEFINE before == Append(done, current)
           after == Append(done, Append(current, x))
           last == Len(done) + 1
<1>1. /\ Append(current, x) \in Seq(D)
      /\ DOMAIN Append(current, x) = DOMAIN current \cup {Len(current) + 1}
      /\ \A i \in DOMAIN current : Append(current, x)[i] = current[i] /\ i # Len(current) + 1
      /\ Append(current, x)[Len(current) + 1] = x
  BY AppendProperties
<1>2. /\ DOMAIN after = DOMAIN before /\ last \in DOMAIN before
      /\ before[last] = current /\ after[last] = Append(current, x)
      /\ \A p \in DOMAIN before : p # last => after[p] = before[p]
  <2>1. /\ Len(before) = last /\ Len(after) = last
        /\ before \in Seq(Seq(D)) /\ after \in Seq(Seq(D))
        /\ \A p \in 1..Len(done) : before[p] = done[p] /\ after[p] = done[p]
        /\ before[last] = current /\ after[last] = Append(current, x)
    BY <1>1, AppendProperties
  <2>2. DOMAIN before = 1..last /\ DOMAIN after = 1..last /\ Len(done) \in Nat
    <3> HIDE DEF before, after
    <3> QED BY <2>1
  <2>3. last \in 1..last /\ \A p \in 1..last : p # last => p \in 1..Len(done)
    BY Lasts
  <2> HIDE DEF before, after, last
  <2> QED BY <2>1, <2>2, <2>3
<1>3. Held(before, ids)
  OBVIOUS
<1> HIDE DEF before, after, last
<1>4. ASSUME NEW p \in DOMAIN after, NEW i \in DOMAIN after[p]
      PROVE  \/ i \in DOMAIN before[p] /\ after[p][i] = before[p][i] /\ after[p][i] \in ids
             \/ p = last /\ i = Len(current) + 1 /\ after[p][i] = x
  BY <1>1, <1>2, <1>3 DEF Held
<1>5. ASSUME NEW p \in DOMAIN after, NEW q \in DOMAIN after,
             NEW i \in DOMAIN after[p], NEW j \in DOMAIN after[q],
             after[p][i] = after[q][j]
      PROVE  p = q /\ i = j
  <2>1. x \notin ids
    OBVIOUS
  <2>2. p \in DOMAIN before /\ q \in DOMAIN before
    BY <1>2
  <2> QED BY <1>3, <1>4, <1>5, <2>1, <2>2 DEF Held, Distinct
<1>6. Held(after, ids \cup {x})
  BY <1>4, <1>5 DEF Held, Distinct
<1> QED BY <1>6 DEF after

(* splitRowsByBytes puts every row in one part. *)
SplitState(ids) == [done : Seq(Seq(ids)), current : Seq(ids), bytes : Nat]
AllParts(split) == Append(split.done, split.current)

(* One row more, in the open part or in a new one. *)
LEMMA AddRowFacts ==
  ASSUME NEW D, NEW split \in SplitState(D), NEW size \in Nat, NEW x \in D
  PROVE  /\ AddRowTo(split, size, x) \in SplitState(D)
         /\ AddRowTo(split, size, x).current # <<>>
         /\ \A ids \in SUBSET D :
              x \notin ids /\ Held(AllParts(split), ids)
                => Held(AllParts(AddRowTo(split, size, x)), ids \cup {x})
<1>1. /\ split.done \in Seq(Seq(D)) /\ split.current \in Seq(D) /\ split.bytes \in Nat
      /\ split = [done |-> split.done, current |-> split.current, bytes |-> split.bytes]
  BY DEF SplitState
<1> DEFINE cost == size + (IF split.current # <<>> THEN 1 ELSE 0)
<1>2. cost \in Nat /\ split.bytes + cost \in Nat
  BY <1>1
<1>3. /\ <<x>> \in Seq(D) /\ <<x>> # <<>>
      /\ Append(split.done, split.current) \in Seq(Seq(D))
      /\ Append(split.current, x) \in Seq(D) /\ Append(split.current, x) # <<>>
  BY <1>1, AppendProperties
<1>4. CASE split.current # <<>> /\ split.bytes + cost > MaxBytes
  <2>1. AddRowTo(split, size, x) =
          [done |-> Append(split.done, split.current), current |-> <<x>>, bytes |-> cost]
    BY <1>4 DEF AddRowTo
  <2>2. AddRowTo(split, size, x) \in SplitState(D)
    BY <1>2, <1>3, <2>1 DEF SplitState
  <2>3. AllParts(AddRowTo(split, size, x)) = Append(AllParts(split), <<x>>)
    BY <2>1 DEF AllParts
  <2>4. AddRowTo(split, size, x).current # <<>> /\ AllParts(split) \in Seq(Seq(D))
    BY <1>3, <2>1 DEF AllParts
  <2>5. ASSUME NEW ids \in SUBSET D, x \notin ids, Held(AllParts(split), ids)
        PROVE  Held(AllParts(AddRowTo(split, size, x)), ids \cup {x})
    <3>1. PICK parts \in Seq(Seq(D)) : parts = AllParts(split)
      BY <2>4
    <3>2. Held(parts, ids) /\ x \in D \ ids
      BY <2>5, <3>1
    <3>3. Held(Append(parts, <<x>>), ids \cup {x})
      BY <3>2, HeldWithPart
    <3> QED BY <2>3, <3>1, <3>3
  <2> QED BY <2>2, <2>4, <2>5
<1>5. CASE ~(split.current # <<>> /\ split.bytes + cost > MaxBytes)
  <2>1. AddRowTo(split, size, x) =
          [done |-> split.done, current |-> Append(split.current, x),
           bytes |-> split.bytes + cost]
    BY <1>1, <1>5 DEF AddRowTo
  <2>2. AddRowTo(split, size, x) \in SplitState(D)
    BY <1>1, <1>2, <1>3, <2>1 DEF SplitState
  <2>3. AllParts(AddRowTo(split, size, x)) = Append(split.done, Append(split.current, x))
    BY <2>1 DEF AllParts
  <2>4. AddRowTo(split, size, x).current # <<>>
    BY <1>3, <2>1
  <2>5. ASSUME NEW ids \in SUBSET D, x \notin ids, Held(AllParts(split), ids)
        PROVE  Held(AllParts(AddRowTo(split, size, x)), ids \cup {x})
    <3>1. Held(Append(split.done, split.current), ids)
      BY <2>5 DEF AllParts
    <3> QED BY <1>1, <2>3, <2>5, <3>1, HeldWithLonger
  <2> QED BY <2>2, <2>4, <2>5
<1> QED BY <1>4, <1>5

(* splitRowsByBytes loses no row and repeats none. *)
LEMMA SplitFacts ==
  ASSUME NEW table \in Seq(Row), NEW D \in SUBSET DOMAIN table, NEW ids \in Seq(D),
         \A m, n \in 1..Len(ids) : ids[m] = ids[n] => m = n
  PROVE  LET parts == SplitRowsByBytes(table, ids)
         IN  /\ parts \in Seq(Seq(D)) /\ Held(parts, D)
             /\ ids # <<>> => parts # <<>>
<1> DEFINE size(n) == Bytes[table[ids[n]].key]
           empty == [done |-> <<>>, current |-> <<>>, bytes |-> 0]
           Following(f) == [n \in 0..Len(ids) |->
                              IF n = 0 THEN empty ELSE AddRowTo(f[n - 1], size(n), ids[n])]
           split == CHOOSE f : f = Following(f)
           last == split[Len(ids)]
           parts == SplitRowsByBytes(table, ids)
<1>1. Len(ids) \in Nat /\ \A n \in 1..Len(ids) : ids[n] \in D /\ size(n) \in Nat
  <2>1. ASSUME NEW n \in 1..Len(ids)  PROVE  ids[n] \in D /\ size(n) \in Nat
    <3>1. ids[n] \in D /\ ids[n] \in DOMAIN table
      OBVIOUS
    <3>2. table[ids[n]] \in Row
      BY <3>1
    <3> QED BY <3>1, <3>2, BatcherAssumption DEF Row
  <2> QED BY <2>1
<1>2. empty \in SplitState(D) /\ Held(AllParts(empty), {})
  <2>1. empty \in SplitState(D)
    BY DEF SplitState
  <2>2. /\ Append(<<>>, <<>>) = <<<<>>>>
        /\ DOMAIN <<<<>>>> = {1} /\ <<<<>>>>[1] = <<>> /\ DOMAIN <<>> = {}
    OBVIOUS
  <2>3. AllParts(empty) = <<<<>>>>
    BY <2>2 DEF AllParts
  <2> HIDE DEF empty
  <2> QED BY <2>1, <2>2, <2>3 DEF Held, Distinct
<1>3. parts = IF last.current = <<>> THEN last.done ELSE Append(last.done, last.current)
  BY DEF SplitRowsByBytes
<1> HIDE DEF size, empty, parts
<1>4. \E g : g = Following(g)
  <2> DEFINE next == [n \in 1..Len(ids) |->
                        [s \in SplitState(D) |-> AddRowTo(s, size(n), ids[n])]]
  <2>1. next \in [1..Len(ids) -> [SplitState(D) -> SplitState(D)]]
    BY <1>1, AddRowFacts
  <2>2. PICK g \in [0..Len(ids) -> SplitState(D)] : Follows(g, empty, next, Len(ids))
    <3>1. Len(ids) \in Nat /\ empty \in SplitState(D)
      BY <1>1, <1>2
    <3> HIDE DEF next
    <3> QED BY <2>1, <3>1, RecursionExists
  <2>3. \A n \in 1..Len(ids) : g[n] = AddRowTo(g[n - 1], size(n), ids[n])
    <3>1. \A n \in 1..Len(ids) : n - 1 \in 0..Len(ids)
      BY <1>1
    <3> QED BY <2>2, <3>1 DEF Follows
  <2>4. \A n \in 0..Len(ids) : n = 0 \/ n \in 1..Len(ids)
    BY <1>1
  <2>5. g = [n \in 0..Len(ids) |-> g[n]]
    BY <2>2
  <2>6. g = Following(g)
    BY <2>2, <2>3, <2>4, <2>5 DEF Follows
  <2> QED BY <2>6
<1>5. split = Following(split)
  <2> HIDE DEF Following
  <2> QED BY <1>4
<1> HIDE DEF split
<1>15. \A n \in 0..Len(ids) :
         split[n] = IF n = 0 THEN empty ELSE AddRowTo(split[n - 1], size(n), ids[n])
  BY <1>5
<1>6. split[0] = empty
  BY <1>1, <1>15
<1>7. \A n \in 1..Len(ids) : split[n] = AddRowTo(split[n - 1], size(n), ids[n])
  <2>1. \A n \in 1..Len(ids) : n \in 0..Len(ids) /\ n # 0
    BY <1>1
  <2> QED BY <1>15, <2>1
<1> HIDE DEF Following
<1> DEFINE Seen(n) == {ids[k] : k \in 1..n}
           Fine(n) == /\ split[n] \in SplitState(D) /\ Held(AllParts(split[n]), Seen(n))
                      /\ n # 0 => split[n].current # <<>>
           Good == {n \in 0..Len(ids) : Fine(n)}
<1>8. 0 \in Good
  <2>1. Seen(0) = {}
    OBVIOUS
  <2>2. 0 \in 0..Len(ids)
    BY <1>1
  <2> HIDE DEF Seen
  <2>3. Fine(0)
    BY <1>2, <1>6, <2>1
  <2> QED BY <2>2, <2>3
<1>9. ASSUME NEW n \in 1..Len(ids), n - 1 \in Good  PROVE  n \in Good
  <2>1. n \in 0..Len(ids) /\ n # 0 /\ \A k \in 1..n : k \in 1..Len(ids) /\ (k = n \/ k \in 1..(n - 1))
    BY <1>1
  <2>2. Seen(n) = Seen(n - 1) \cup {ids[n]}
    <3>1. n \in 1..n /\ \A k \in 1..(n - 1) : k \in 1..n
      BY <1>1
    <3> QED BY <2>1, <3>1
  <2>3. ids[n] \notin Seen(n - 1) /\ Seen(n - 1) \in SUBSET D
    <3>1. \A k \in 1..(n - 1) : k \in 1..Len(ids) /\ k # n
      BY <1>1
    <3> QED BY <1>1, <3>1
  <2> HIDE DEF Seen
  <2>4. split[n - 1] \in SplitState(D) /\ Held(AllParts(split[n - 1]), Seen(n - 1))
    BY <1>9
  <2>5. split[n] = AddRowTo(split[n - 1], size(n), ids[n]) /\ size(n) \in Nat /\ ids[n] \in D
    BY <1>1, <1>7
  <2>7. /\ split[n] \in SplitState(D) /\ split[n].current # <<>>
        /\ Held(AllParts(split[n]), Seen(n - 1) \cup {ids[n]})
    <3>1. /\ AddRowTo(split[n - 1], size(n), ids[n]) \in SplitState(D)
          /\ AddRowTo(split[n - 1], size(n), ids[n]).current # <<>>
      BY <2>4, <2>5, AddRowFacts
    <3>2. \A I \in SUBSET D : ids[n] \notin I /\ Held(AllParts(split[n - 1]), I)
            => Held(AllParts(AddRowTo(split[n - 1], size(n), ids[n])), I \cup {ids[n]})
      BY <2>4, <2>5, AddRowFacts
    <3> QED BY <2>3, <2>4, <2>5, <3>1, <3>2
  <2>6. Fine(n)
    BY <2>2, <2>7
  <2> QED BY <2>1, <2>6
<1>10. Len(ids) \in Good
  <2>1. 0..Len(ids) \subseteq Good
    <3> HIDE DEF Good
    <3> QED BY <1>1, <1>8, <1>9, Climb
  <2>2. Len(ids) \in 0..Len(ids)
    BY <1>1
  <2> QED BY <2>1, <2>2
<1>11. last \in SplitState(D) /\ Held(AllParts(last), Seen(Len(ids)))
  BY <1>10
<1>12. Seen(Len(ids)) \subseteq D
  BY <1>1
<1>13. CASE ids # <<>>
  <2>1. Len(ids) # 0
    BY <1>13
  <2>2. last.current # <<>>
    BY <1>10, <2>1
  <2>3. parts = AllParts(last)
    BY <1>3, <2>2 DEF AllParts
  <2>4. parts \in Seq(Seq(D)) /\ parts # <<>>
    <3>1. last.done \in Seq(Seq(D)) /\ last.current \in Seq(D)
      BY <1>11 DEF SplitState
    <3> HIDE DEF last
    <3> QED BY <2>3, <3>1, AppendProperties DEF AllParts
  <2>5. Held(parts, D)
    <3> HIDE DEF Seen, last
    <3> QED BY <1>11, <1>12, <2>3 DEF Held
  <2> QED BY <2>4, <2>5 DEF parts
<1>14. CASE ids = <<>>
  <2>1. last = empty
    BY <1>6, <1>14
  <2>2. parts = <<>>
    <3> HIDE DEF last
    <3> QED BY <1>3, <2>1 DEF empty
  <2>3. <<>> \in Seq(Seq(D)) /\ Held(<<>>, D)
    BY DEF Held, Distinct
  <2> QED BY <1>14, <2>2, <2>3 DEF parts
<1> QED BY <1>13, <1>14

-----------------------------------------------------------------------------
(* Where a flush goes next *)

(* A healthy row is in the table. *)
LEMMA HealthyInTable ==
  ASSUME NEW table, NEW recs, NEW target
  PROVE  HealthyFor(table, recs, target) \subseteq DOMAIN table
BY DEF HealthyFor

(* selectHealthyRows selects healthy rows, each once. *)
LEMMA SelectFacts ==
  ASSUME NEW table \in Seq(Row), NEW recs, NEW target
  PROVE  LET ids == HealthyFor(table, recs, target)
             selected == SelectHealthyRows(table, recs, target)
         IN  /\ selected \in Seq(ids) /\ ids \in SUBSET DOMAIN table
             /\ \A m, n \in 1..Len(selected) : selected[m] = selected[n] => m = n
             /\ ids # {} => selected # <<>>
<1> DEFINE ids == HealthyFor(table, recs, target)
           all == InOrder(ids)
           last == IF Len(all) < BatchSize THEN Len(all) ELSE BatchSize
           selected == SubSeq(all, 1, last)
<1>1. ids \in SUBSET (1..Len(table)) /\ Len(table) \in Nat
  BY HealthyInTable
<1>2. SelectHealthyRows(table, recs, target) = selected
  BY DEF SelectHealthyRows
<1>3. BatchSize \in Nat \ {0}
  BY BatcherAssumption
<1> HIDE DEF ids
<1>4. /\ all \in Seq(ids) /\ Len(all) = Cardinality(ids) /\ Len(all) \in Nat
      /\ \A m, n \in 1..Len(all) : all[m] = all[n] => m = n
      /\ ids # {} => Len(all) > 0
  <2>1. PICK size \in Nat : size = Len(table)
    BY <1>1
  <2> QED BY <1>1, <2>1, InOrderFacts
<1> HIDE DEF all
<1>5. last \in Nat /\ last <= Len(all) /\ (Len(all) > 0 => last > 0)
  BY <1>3, <1>4
<1> HIDE DEF last
<1>6. \A i \in 1..last : i \in 1..Len(all) /\ all[i] \in ids
  BY <1>4, <1>5
<1>7. /\ selected \in Seq(ids) /\ Len(selected) = last
      /\ \A i \in 1..last : selected[i] = all[i]
  <2>1. /\ selected \in Seq(ids)
        /\ Len(selected) = (IF 1 <= last THEN last - 1 + 1 ELSE 0)
        /\ \A i \in 1..(last - 1 + 1) : selected[i] = all[1 + i - 1]
    BY <1>5, <1>6, SubSeqProperties
  <2>2. last - 1 + 1 = last /\ \A i \in 1..last : 1 + i - 1 = i
    BY <1>5
  <2> HIDE DEF selected
  <2> QED BY <1>5, <2>1, <2>2
<1> HIDE DEF selected
<1>8. \A m, n \in 1..Len(selected) : selected[m] = selected[n] => m = n
  BY <1>4, <1>6, <1>7
<1>9. ids # {} => selected # <<>>
  BY <1>4, <1>5, <1>7
<1>10. ids \in SUBSET DOMAIN table
  BY <1>1
<1> QED BY <1>2, <1>7, <1>8, <1>9, <1>10 DEF ids

FlushRecord(ids) ==
  [at : {"none", "parse", "wait"}, by : Runs, targets : Seq(Targets),
   batches : Seq(Seq(ids)), stack : Seq(Seq(ids)), retry : BOOLEAN]

(* What a flush still has to send is sendable. *)
Holds(f, table, recs, md) ==
  /\ f \in FlushRecord(DOMAIN table) /\ f.targets # <<>>
  /\ Range(f.targets) \subseteq Range(md)
  /\ Held(f.stack \o f.batches, HealthyFor(table, recs, Head(f.targets)))
Ready(f, table, recs, md) ==
  Holds(f, table, recs, md) /\ f.at = "parse" /\ f.stack # <<>>

(* A sequence is its head and its tail. *)
LEMMA HeadAndTail ==
  ASSUME NEW S, NEW seq \in Seq(S), seq # <<>>
  PROVE  /\ <<Head(seq)>> \o Tail(seq) = seq /\ Head(seq) = seq[1] /\ Head(seq) \in S
         /\ Tail(seq) \in Seq(S) /\ <<Head(seq)>> \in Seq(S) /\ <<Head(seq)>> # <<>>
<1>1. <<Head(seq)>> \o Tail(seq) = seq
  <2>1. /\ Head(seq) \in S /\ Tail(seq) \in Seq(S) /\ Len(Tail(seq)) = Len(seq) - 1
        /\ \A i \in 1..Len(Tail(seq)) : Tail(seq)[i] = seq[i + 1]
    BY HeadTailProperties
  <2>2. <<Head(seq)>> \in Seq(S) /\ Len(<<Head(seq)>>) = 1 /\ <<Head(seq)>>[1] = Head(seq)
    BY <2>1
  <2>3. PICK h \in Seq(S) : h = <<Head(seq)>>
    BY <2>2
  <2>4. PICK t \in Seq(S) : t = Tail(seq)
    BY <2>1
  <2>5. /\ h \o t \in Seq(S) /\ Len(h \o t) = Len(h) + Len(t)
        /\ \A i \in 1..(Len(h) + Len(t)) :
             (h \o t)[i] = IF i <= Len(h) THEN h[i] ELSE t[i - Len(h)]
    BY ConcatProperties
  <2>6. Len(seq) \in Nat /\ Len(seq) # 0 /\ Head(seq) = seq[1]
    OBVIOUS
  <2>7. Len(h \o t) = Len(seq)
    BY <2>1, <2>2, <2>3, <2>4, <2>5, <2>6
  <2>8. ASSUME NEW i \in 1..Len(seq)  PROVE  (h \o t)[i] = seq[i]
    <3>1. CASE i = 1
      BY <2>1, <2>2, <2>3, <2>4, <2>5, <2>6, <3>1
    <3>2. CASE i # 1
      <4>1. i - 1 \in 1..Len(t) /\ ~(i <= Len(h)) /\ i \in 1..(Len(h) + Len(t))
        BY <2>1, <2>2, <2>3, <2>4, <2>6, <3>2
      <4>2. (h \o t)[i] = t[i - 1]
        BY <2>2, <2>3, <2>5, <4>1
      <4>3. t[i - 1] = seq[i - 1 + 1] /\ i - 1 + 1 = i
        BY <2>1, <2>4, <4>1
      <4> QED BY <4>2, <4>3
    <3> QED BY <3>1, <3>2
  <2>9. h \o t = seq
    BY <2>5, <2>7, <2>8, SeqEqual
  <2> QED BY <2>3, <2>4, <2>9
<1>2. /\ Head(seq) = seq[1] /\ Head(seq) \in S /\ Tail(seq) \in Seq(S)
      /\ <<Head(seq)>> \in Seq(S) /\ <<Head(seq)>> # <<>>
  OBVIOUS
<1> QED BY <1>1, <1>2

(* No flush is a flush record. *)
LEMMA NoFlushIsTyped ==
  ASSUME NEW ids
  PROVE  NoFlush \in FlushRecord(ids)
BY DEF NoFlush, FlushRecord, Runs

(* A target that is started on has a part of healthy rows to send. *)
LEMMA NextTargetReady ==
  ASSUME NEW table \in Seq(Row), NEW recs, NEW md, NEW by \in Runs,
         NEW targets \in Seq(Targets), Range(targets) \subseteq Range(md)
  PROVE  LET next == NextTarget(by, targets, table, recs)
         IN  next = NoFlush \/ Ready(next, table, recs, md)
<1> DEFINE ready == {n \in DOMAIN targets : HealthyFor(table, recs, targets[n]) # {}}
           n == CHOOSE k \in ready : \A j \in ready : k <= j
           selected == SelectHealthyRows(table, recs, targets[n])
           parts == SplitRowsByBytes(table, selected)
           rest == SubSeq(targets, n, Len(targets))
           next == [at |-> "parse", by |-> by, targets |-> rest,
                    batches |-> Tail(parts), stack |-> <<Head(parts)>>, retry |-> FALSE]
<1>1. NextTarget(by, targets, table, recs) = IF ready = {} THEN NoFlush ELSE next
  BY DEF NextTarget
<1>2. SUFFICES ASSUME ready # {}  PROVE  Ready(next, table, recs, md)
  BY <1>1
<1>3. n \in ready
  <2>1. ready \in SUBSET Nat
    OBVIOUS
  <2> HIDE DEF ready
  <2>2. \E k \in ready : \A j \in ready : k <= j
    BY <1>2, <2>1, SmallestExists
  <2> QED BY <2>2, Zenon
<1>4. /\ n \in DOMAIN targets /\ n \in 1..Len(targets) /\ Len(targets) \in Nat
      /\ HealthyFor(table, recs, targets[n]) # {}
  <2>1. n \in DOMAIN targets /\ HealthyFor(table, recs, targets[n]) # {}
    <3> HIDE DEF n
    <3> QED BY <1>3
  <2> HIDE DEF n
  <2> QED BY <2>1
<1> HIDE DEF ready, n
<1> DEFINE target == targets[n]
           ids == HealthyFor(table, recs, target)
<1>5. /\ parts \in Seq(Seq(ids)) /\ Held(parts, ids) /\ parts # <<>>
      /\ ids \in SUBSET DOMAIN table
  <2>1. /\ selected \in Seq(ids) /\ ids \in SUBSET DOMAIN table /\ selected # <<>>
        /\ \A i, j \in 1..Len(selected) : selected[i] = selected[j] => i = j
    BY <1>4, SelectFacts
  <2> HIDE DEF selected, ids
  <2> QED BY <2>1, SplitFacts
<1>6. /\ rest \in Seq(Targets) /\ rest # <<>> /\ Head(rest) = target
      /\ Range(rest) \subseteq Range(targets)
  <2>1. \A i \in n..Len(targets) : i \in 1..Len(targets) /\ targets[i] \in Targets
    BY <1>4
  <2>2. n \in Int /\ Len(targets) \in Int /\ n <= Len(targets)
    BY <1>4
  <2>3. /\ rest \in Seq(Targets) /\ Len(rest) = Len(targets) - n + 1
        /\ \A i \in 1..(Len(targets) - n + 1) : rest[i] = targets[n + i - 1]
    BY <2>1, <2>2, SubSeqProperties
  <2> HIDE DEF rest
  <2>4. rest # <<>> /\ 1 \in 1..(Len(targets) - n + 1) /\ n + 1 - 1 = n /\ Head(rest) = rest[1]
    BY <2>2, <2>3
  <2>5. \A i \in DOMAIN rest : n + i - 1 \in DOMAIN targets /\ rest[i] = targets[n + i - 1]
    BY <1>4, <2>3
  <2> QED BY <2>3, <2>4, <2>5 DEF Range
<1> HIDE DEF parts, rest, ids
<1>7. /\ parts \in Seq(Seq(DOMAIN table)) /\ <<Head(parts)>> \o Tail(parts) = parts
      /\ Tail(parts) \in Seq(Seq(DOMAIN table)) /\ <<Head(parts)>> \in Seq(Seq(DOMAIN table))
      /\ <<Head(parts)>> # <<>>
  <2>1. Seq(ids) \subseteq Seq(DOMAIN table)
    BY <1>5, SeqMonotonic
  <2>2. parts \in Seq(Seq(DOMAIN table))
    BY <1>5, <2>1, SeqMonotonic
  <2> QED BY <1>5, <2>2, HeadAndTail
<1>8. next \in FlushRecord(DOMAIN table)
  BY <1>6, <1>7 DEF FlushRecord
<1>9. Held(next.stack \o next.batches, HealthyFor(table, recs, Head(next.targets)))
  BY <1>5, <1>6, <1>7 DEF ids
<1> QED BY <1>6, <1>7, <1>8, <1>9 DEF Ready, Holds

(* A flush has its six fields. *)
HasShape(f) ==
  f = [at |-> f.at, by |-> f.by, targets |-> f.targets,
       batches |-> f.batches, stack |-> f.stack, retry |-> f.retry]

(* So has a flush that goes on. *)
LEMMA NextBatchReady ==
  ASSUME NEW table \in Seq(Row), NEW recs, NEW md, NEW f, Holds(f, table, recs, md)
  PROVE  LET next == NextBatch(f, table, recs)
         IN  next = NoFlush \/ Ready(next, table, recs, md)
<1>1. /\ f.by \in Runs /\ f.targets \in Seq(Targets) /\ f.retry \in BOOLEAN
      /\ f.batches \in Seq(Seq(DOMAIN table)) /\ f.stack \in Seq(Seq(DOMAIN table))
      /\ f.targets # <<>> /\ Range(f.targets) \subseteq Range(md)
      /\ Held(f.stack \o f.batches, HealthyFor(table, recs, Head(f.targets)))
  BY DEF Holds, FlushRecord
<1>5. HasShape(f)
  BY DEF Holds, FlushRecord, HasShape
<1>2. CASE f.stack # <<>>
  <2> DEFINE next == [f EXCEPT !.at = "parse"]
  <2>1. next = [at |-> "parse", by |-> f.by, targets |-> f.targets, batches |-> f.batches,
                stack |-> f.stack, retry |-> f.retry]
    BY <1>5 DEF HasShape
  <2>2. NextBatch(f, table, recs) = next
    BY <1>2 DEF NextBatch
  <2> HIDE DEF next
  <2>3. next \in FlushRecord(DOMAIN table)
    BY <1>1, <2>1 DEF FlushRecord
  <2> QED BY <1>1, <1>2, <2>1, <2>2, <2>3 DEF Ready, Holds
<1>3. CASE f.stack = <<>> /\ (f.retry \/ f.batches = <<>>)
  <2>1. Tail(f.targets) \in Seq(Targets) /\ Range(Tail(f.targets)) \subseteq Range(md)
    <3>1. PICK s \in Seq(Targets) : s = f.targets /\ s # <<>>
      BY <1>1
    <3>2. /\ Tail(s) \in Seq(Targets) /\ Len(Tail(s)) = Len(s) - 1
          /\ \A i \in 1..Len(Tail(s)) : Tail(s)[i] = s[i + 1]
      BY <3>1, HeadTailProperties
    <3>3. \A i \in DOMAIN Tail(s) : i + 1 \in DOMAIN s /\ Tail(s)[i] = s[i + 1]
      BY <3>2
    <3>4. Range(Tail(s)) \subseteq Range(s)
      BY <3>3 DEF Range
    <3> QED BY <1>1, <3>1, <3>2, <3>4
  <2>2. NextBatch(f, table, recs) = NextTarget(f.by, Tail(f.targets), table, recs)
    BY <1>3 DEF NextBatch
  <2>3. PICK t \in Seq(Targets) : t = Tail(f.targets)
    BY <2>1
  <2>4. PICK by \in Runs : by = f.by
    BY <1>1
  <2>5. LET next == NextTarget(by, t, table, recs)
        IN  next = NoFlush \/ Ready(next, table, recs, md)
    BY <2>1, <2>3, NextTargetReady
  <2> QED BY <2>2, <2>3, <2>4, <2>5
<1>4. CASE f.stack = <<>> /\ ~(f.retry \/ f.batches = <<>>)
  <2> DEFINE next == [f EXCEPT !.at = "parse", !.stack = <<Head(f.batches)>>,
                               !.batches = Tail(@)]
  <2>1. next = [at |-> "parse", by |-> f.by, targets |-> f.targets,
                batches |-> Tail(f.batches), stack |-> <<Head(f.batches)>>,
                retry |-> f.retry]
    <3>1. PICK h : h = <<Head(f.batches)>>
      OBVIOUS
    <3>2. PICK t : t = Tail(f.batches)
      OBVIOUS
    <3>3. [f EXCEPT !.at = "parse", !.stack = h, !.batches = t] =
            [at |-> "parse", by |-> f.by, targets |-> f.targets, batches |-> t,
             stack |-> h, retry |-> f.retry]
      <4>1. PICK g : g = [f EXCEPT !.at = "parse"]
        OBVIOUS
      <4>2. g = [at |-> "parse", by |-> f.by, targets |-> f.targets,
                 batches |-> f.batches, stack |-> f.stack, retry |-> f.retry]
        BY <1>5, <4>1 DEF HasShape
      <4>3. PICK k : k = [g EXCEPT !.stack = h]
        OBVIOUS
      <4>4. k = [at |-> "parse", by |-> f.by, targets |-> f.targets,
                 batches |-> f.batches, stack |-> h, retry |-> f.retry]
        BY <4>2, <4>3
      <4>5. [k EXCEPT !.batches = t] =
              [at |-> "parse", by |-> f.by, targets |-> f.targets, batches |-> t,
               stack |-> h, retry |-> f.retry]
        BY <4>4
      <4> QED BY <4>1, <4>3, <4>5
    <3>4. next = [f EXCEPT !.at = "parse", !.stack = h, !.batches = t]
      BY <1>5, <3>1, <3>2 DEF HasShape
    <3> QED BY <3>1, <3>2, <3>3, <3>4
  <2>2. NextBatch(f, table, recs) = next
    BY <1>4 DEF NextBatch
  <2> HIDE DEF next
  <2>3. /\ <<Head(f.batches)>> \o Tail(f.batches) = f.batches
        /\ Tail(f.batches) \in Seq(Seq(DOMAIN table))
        /\ <<Head(f.batches)>> \in Seq(Seq(DOMAIN table)) /\ <<Head(f.batches)>> # <<>>
    <3>1. PICK b \in Seq(Seq(DOMAIN table)) : b = f.batches
      BY <1>1
    <3>2. b # <<>>
      BY <1>4, <3>1
    <3>3. /\ <<Head(b)>> \o Tail(b) = b /\ Tail(b) \in Seq(Seq(DOMAIN table))
          /\ <<Head(b)>> \in Seq(Seq(DOMAIN table)) /\ <<Head(b)>> # <<>>
      BY <3>2, HeadAndTail
    <3> QED BY <3>1, <3>3
  <2>4. f.stack \o f.batches = f.batches
    BY <1>1, <1>4, ConcatEmptySeq
  <2>5. next \in FlushRecord(DOMAIN table)
    BY <1>1, <2>1, <2>3 DEF FlushRecord
  <2>6. /\ next.at = "parse" /\ next.targets = f.targets
        /\ next.stack = <<Head(f.batches)>> /\ next.batches = Tail(f.batches)
    BY <2>1
  <2>7. next.stack \o next.batches = f.stack \o f.batches
    BY <2>3, <2>4, <2>6
  <2>8. Held(next.stack \o next.batches, HealthyFor(table, recs, Head(next.targets)))
    BY <1>1, <2>6, <2>7
  <2> QED BY <1>1, <2>2, <2>3, <2>5, <2>6, <2>8 DEF Ready, Holds
<1> QED BY <1>2, <1>3, <1>4

-----------------------------------------------------------------------------
(* The part in hand *)

(* A sequence of one. *)
LEMMA Single ==
  ASSUME NEW S, NEW h \in S
  PROVE  <<h>> \in Seq(S) /\ Len(<<h>>) = 1 /\ <<h>>[1] = h /\ <<h>> # <<>>
OBVIOUS

(* A sequence with one more element in front. *)
IsCons(all, h, rest) ==
  /\ 1 \in DOMAIN all /\ all[1] = h
  /\ \A p \in DOMAIN rest : p \in Nat \ {0} /\ p + 1 \in DOMAIN all /\ all[p + 1] = rest[p]
  /\ \A p \in DOMAIN all : p = 1 \/ (p - 1 \in DOMAIN rest /\ p - 1 + 1 = p)

(* Putting an element in front is IsCons. *)
LEMMA ConsFacts ==
  ASSUME NEW S, NEW h \in S, NEW rest \in Seq(S)
  PROVE  <<h>> \o rest \in Seq(S) /\ IsCons(<<h>> \o rest, h, rest)
<1>1. PICK s \in Seq(S) : s = <<h>> /\ Len(s) = 1 /\ s[1] = h
  BY Single
<1>2. PICK all : all = s \o rest
  OBVIOUS
<1>3. /\ all \in Seq(S) /\ Len(all) = 1 + Len(rest)
      /\ \A i \in 1..(1 + Len(rest)) : all[i] = IF i <= 1 THEN s[i] ELSE rest[i - 1]
  BY <1>1, <1>2, ConcatProperties
<1>4. PICK n \in Nat : n = Len(rest)
  OBVIOUS
<1>5. DOMAIN all = 1..(1 + n) /\ DOMAIN rest = 1..n
  BY <1>3, <1>4
<1>6. all[1] = h /\ 1 \in DOMAIN all
  BY <1>1, <1>3, <1>4, <1>5
<1>7. ASSUME NEW p \in 1..n
      PROVE  p \in Nat \ {0} /\ p + 1 \in 1..(1 + n) /\ all[p + 1] = rest[p]
  <2>1. p \in Nat \ {0} /\ p + 1 \in 1..(1 + n) /\ ~(p + 1 <= 1) /\ p + 1 - 1 = p
    OBVIOUS
  <2> QED BY <1>3, <1>4, <2>1
<1>8. \A p \in 1..(1 + n) : p = 1 \/ (p - 1 \in 1..n /\ p - 1 + 1 = p)
  OBVIOUS
<1> QED BY <1>1, <1>2, <1>3, <1>5, <1>6, <1>7, <1>8 DEF IsCons

Regroups(s, t, u) == (s \o t) \o u = s \o (t \o u)

(* Concatenation associates, of three parts and of four. *)
LEMMA Associativity ==
  \A S : \A s, t, u \in Seq(S) : Regroups(s, t, u)
BY ConcatAssociative, Zenon DEF Regroups

(* The head of the stack comes first of all parts. *)
LEMMA StackIsCons ==
  ASSUME NEW S, NEW stack \in Seq(S), NEW batches \in Seq(S), stack # <<>>
  PROVE  /\ Head(stack) \in S /\ Tail(stack) \in Seq(S) /\ Tail(stack) \o batches \in Seq(S)
         /\ stack \o batches = <<Head(stack)>> \o (Tail(stack) \o batches)
<1>1. PICK h \in S : h = Head(stack)
  BY HeadAndTail
<1>2. PICK t \in Seq(S) : t = Tail(stack)
  BY HeadAndTail
<1>3. PICK s \in Seq(S) : s = <<h>>
  BY Single
<1>4. stack = s \o t
  BY <1>1, <1>2, <1>3, HeadAndTail
<1>5. (s \o t) \o batches = s \o (t \o batches)
  <2>1. Regroups(s, t, batches)
    BY Associativity, Zenon
  <2> QED BY <2>1, Zenon DEF Regroups
<1>6. t \o batches \in Seq(S)
  BY ConcatProperties, Zenon
<1> QED BY <1>1, <1>2, <1>3, <1>4, <1>5, <1>6

Associates(s, t, u, v) == ((s \o t) \o u) \o v = s \o (t \o (u \o v))

LEMMA FourParts ==
  ASSUME NEW S, NEW s \in Seq(S), NEW t \in Seq(S), NEW u \in Seq(S), NEW v \in Seq(S)
  PROVE  Associates(s, t, u, v)
<1>1. s \o t \in Seq(S) /\ u \o v \in Seq(S)
  BY ConcatProperties
<1>2. ((s \o t) \o u) \o v = (s \o t) \o (u \o v)
  <2>1. Regroups(s \o t, u, v)
    BY <1>1, Associativity, Zenon
  <2> QED BY <2>1, Zenon DEF Regroups
<1>3. PICK uv \in Seq(S) : uv = u \o v
  BY <1>1
<1>4. (s \o t) \o uv = s \o (t \o uv)
  <2>1. Regroups(s, t, uv)
    BY Associativity, Zenon
  <2> QED BY <2>1, Zenon DEF Regroups
<1> QED BY <1>2, <1>3, <1>4 DEF Associates

(* The other parts share no row with it. *)
LEMMA HeldPopped ==
  ASSUME NEW old, NEW new, NEW ids, Held(old, ids), 1 \in DOMAIN old,
         \A p \in DOMAIN new : p \in Nat \ {0} /\ p + 1 \in DOMAIN old /\ old[p + 1] = new[p]
  PROVE  Held(new, ids \ Range(old[1])) /\ Range(old[1]) \subseteq ids
<1>1. ASSUME NEW p \in DOMAIN new, NEW i \in DOMAIN new[p]
      PROVE  new[p][i] \in ids \ Range(old[1])
  <2>1. new[p][i] \in ids
    BY DEF Held
  <2>2. p + 1 # 1
    OBVIOUS
  <2> QED BY <2>1, <2>2 DEF Held, Distinct, Range
<1>2. ASSUME NEW p \in DOMAIN new, NEW q \in DOMAIN new,
             NEW i \in DOMAIN new[p], NEW j \in DOMAIN new[q], new[p][i] = new[q][j]
      PROVE  p = q /\ i = j
  <2>1. p + 1 = q + 1 /\ i = j
    BY <1>2 DEF Held, Distinct
  <2> QED BY <2>1
<1> QED BY <1>1, <1>2 DEF Held, Distinct, Range

(* Without the part in hand, the others hold the other rows. *)
LEMMA PopHeld ==
  ASSUME NEW D, NEW ids, NEW stack \in Seq(Seq(D)), NEW batches \in Seq(Seq(D)),
         stack # <<>>, Held(stack \o batches, ids)
  PROVE  /\ Head(stack) \in Seq(D) /\ Tail(stack) \in Seq(Seq(D))
         /\ Range(Head(stack)) \subseteq ids
         /\ Held(Tail(stack) \o batches, ids \ Range(Head(stack)))
<1>1. PICK h \in Seq(D) : h = Head(stack)
  BY StackIsCons
<1>2. PICK rest \in Seq(Seq(D)) : rest = Tail(stack) \o batches
  BY StackIsCons
<1>3. stack \o batches = <<h>> \o rest
  BY <1>1, <1>2, StackIsCons
<1>4. PICK old : old = <<h>> \o rest
  OBVIOUS
<1>5. /\ 1 \in DOMAIN old /\ old[1] = h
      /\ \A p \in DOMAIN rest : p \in Nat \ {0} /\ p + 1 \in DOMAIN old /\ old[p + 1] = rest[p]
  <2>1. IsCons(old, h, rest)
    BY <1>4, ConsFacts
  <2> QED BY <2>1 DEF IsCons
<1>6. Held(old, ids)
  BY <1>3, <1>4
<1>7. Held(rest, ids \ Range(h)) /\ Range(h) \subseteq ids
  BY <1>5, <1>6, HeldPopped
<1> QED BY <1>1, <1>2, <1>7, StackIsCons

(* Two parts of a sequence make it up. *)
LEMMA HalvesFacts ==
  ASSUME NEW D, NEW batch \in Seq(D), Len(batch) > 1
  PROVE  /\ Halves(batch) \in Seq(Seq(D)) /\ Len(Halves(batch)) = 2
         /\ LET middle == Middle(batch)
            IN  /\ middle \in 1..Len(batch) /\ DOMAIN Halves(batch)[1] = 1..middle
                /\ \A i \in 1..middle : Halves(batch)[1][i] = batch[i]
                /\ DOMAIN Halves(batch)[2] = 1..(Len(batch) - middle)
                /\ \A i \in 1..(Len(batch) - middle) : Halves(batch)[2][i] = batch[middle + i]
<1> DEFINE middle == Middle(batch)
           first == SubSeq(batch, 1, middle)
           second == SubSeq(batch, middle + 1, Len(batch))
<1>1. middle \in 1..Len(batch) /\ Len(batch) \in Nat /\ middle \in Nat
  BY DEF Middle
<1> HIDE DEF middle
<1>2. first \in Seq(D) /\ DOMAIN first = 1..middle /\ \A i \in 1..middle : first[i] = batch[i]
  <2>1. \A i \in 1..middle : i \in 1..Len(batch) /\ batch[i] \in D
    BY <1>1
  <2>2. /\ first \in Seq(D) /\ Len(first) = (IF 1 <= middle THEN middle - 1 + 1 ELSE 0)
        /\ \A i \in 1..(middle - 1 + 1) : first[i] = batch[1 + i - 1]
    BY <1>1, <2>1, SubSeqProperties
  <2>3. middle - 1 + 1 = middle /\ 1 <= middle /\ \A i \in 1..middle : 1 + i - 1 = i
    BY <1>1
  <2> HIDE DEF first
  <2> QED BY <2>2, <2>3
<1>3. /\ second \in Seq(D) /\ DOMAIN second = 1..(Len(batch) - middle)
      /\ \A i \in 1..(Len(batch) - middle) : second[i] = batch[middle + i]
  <2>1. \A i \in (middle + 1)..Len(batch) : i \in 1..Len(batch) /\ batch[i] \in D
    BY <1>1
  <2>2. /\ second \in Seq(D)
        /\ Len(second) = IF middle + 1 <= Len(batch) THEN Len(batch) - (middle + 1) + 1 ELSE 0
        /\ \A i \in 1..(Len(batch) - (middle + 1) + 1) : second[i] = batch[middle + 1 + i - 1]
    BY <1>1, <2>1, SubSeqProperties
  <2>3. /\ Len(batch) - (middle + 1) + 1 = Len(batch) - middle
        /\ \A i \in 1..(Len(batch) - middle) : middle + 1 + i - 1 = middle + i
        /\ middle + 1 <= Len(batch) \/ Len(batch) - middle = 0
    BY <1>1
  <2> HIDE DEF second
  <2>4. Len(second) = Len(batch) - middle
    BY <2>2, <2>3
  <2> QED BY <2>2, <2>3, <2>4
<1> HIDE DEF first, second
<1>4. /\ <<first, second>> \in Seq(Seq(D)) /\ Len(<<first, second>>) = 2
      /\ <<first, second>>[1] = first /\ <<first, second>>[2] = second
  BY <1>2, <1>3
<1>5. Halves(batch) = <<first, second>>
  BY DEF Halves, first, second, middle
<1> QED BY <1>1, <1>2, <1>3, <1>4, <1>5 DEF middle

(* new holds old's first part in two pieces, cut after its first middle elements. *)
SplitsHead(old, new, middle) ==
  \A p \in DOMAIN new : \A i \in DOMAIN new[p] :
    \/ p = 1 /\ i \in DOMAIN old[1] /\ i <= middle /\ new[p][i] = old[1][i]
    \/ /\ p = 2 /\ i \in Nat \ {0} /\ middle + i \in DOMAIN old[1]
       /\ new[p][i] = old[1][middle + i]
    \/ /\ p - 1 \in DOMAIN old /\ p - 1 # 1 /\ p - 1 + 1 = p
       /\ i \in DOMAIN old[p - 1] /\ new[p][i] = old[p - 1][i]

(* Halving the part in hand shares no row out twice. *)
LEMMA HeldHalved ==
  ASSUME NEW old, NEW new, NEW ids, Held(old, ids), NEW middle \in Nat, 1 \in DOMAIN old,
         SplitsHead(old, new, middle)
  PROVE  Held(new, ids)
<1> DEFINE First(p, i) == p = 1 /\ i \in DOMAIN old[1] /\ i <= middle /\ new[p][i] = old[1][i]
           Second(p, i) == /\ p = 2 /\ i \in Nat \ {0} /\ middle + i \in DOMAIN old[1]
                           /\ new[p][i] = old[1][middle + i]
           Later(p, i) == /\ p - 1 \in DOMAIN old /\ p - 1 # 1 /\ p - 1 + 1 = p
                          /\ i \in DOMAIN old[p - 1] /\ new[p][i] = old[p - 1][i]
<1>1. \A p \in DOMAIN new : \A i \in DOMAIN new[p] : First(p, i) \/ Second(p, i) \/ Later(p, i)
  BY DEF SplitsHead
<1>2. ASSUME NEW p \in DOMAIN new, NEW i \in DOMAIN new[p]  PROVE  new[p][i] \in ids
  <2>1. CASE First(p, i)
    BY <2>1 DEF Held
  <2>2. CASE Second(p, i)
    BY <2>2 DEF Held
  <2>3. CASE Later(p, i)
    BY <2>3 DEF Held
  <2> QED BY <1>1, <2>1, <2>2, <2>3
<1>3. ASSUME NEW p \in DOMAIN new, NEW q \in DOMAIN new,
             NEW i \in DOMAIN new[p], NEW j \in DOMAIN new[q], new[p][i] = new[q][j]
      PROVE  p = q /\ i = j
  <2>1. Distinct(old)
    BY DEF Held
  <2>2. CASE First(p, i) /\ First(q, j)
    BY <1>3, <2>1, <2>2 DEF Distinct
  <2>3. CASE Second(p, i) /\ Second(q, j)
    <3>1. middle + i = middle + j
      BY <1>3, <2>1, <2>3 DEF Distinct
    <3> QED BY <2>3, <3>1
  <2>4. CASE First(p, i) /\ Second(q, j)
    <3>1. i = middle + j
      BY <1>3, <2>1, <2>4 DEF Distinct
    <3> QED BY <2>4, <3>1
  <2>5. CASE Second(p, i) /\ First(q, j)
    <3>1. middle + i = j
      BY <1>3, <2>1, <2>5 DEF Distinct
    <3> QED BY <2>5, <3>1
  <2>6. CASE Later(p, i) /\ Later(q, j)
    <3>1. old[p - 1][i] = old[q - 1][j]
      BY <1>3, <2>6
    <3>2. p - 1 = q - 1 /\ i = j
      BY <2>1, <2>6, <3>1 DEF Distinct
    <3>3. p = p - 1 + 1 /\ q = q - 1 + 1
      BY <2>6
    <3> QED BY <3>2, <3>3
  <2>7. CASE Later(p, i) /\ (First(q, j) \/ Second(q, j))
    BY <1>3, <2>1, <2>7 DEF Distinct
  <2>8. CASE (First(p, i) \/ Second(p, i)) /\ Later(q, j)
    BY <1>3, <2>1, <2>8 DEF Distinct
  <2> HIDE DEF First, Second, Later
  <2> QED BY <1>1, <2>2, <2>3, <2>4, <2>5, <2>6, <2>7, <2>8
<1> QED BY <1>2, <1>3 DEF Held, Distinct

(* Both halves on the stack hold what the part held. *)
LEMMA HalvesHeld ==
  ASSUME NEW D, NEW ids, NEW stack \in Seq(Seq(D)), NEW batches \in Seq(Seq(D)),
         stack # <<>>, Held(stack \o batches, ids), Len(Head(stack)) > 1
  PROVE  LET halved == Halves(Head(stack)) \o Tail(stack)
         IN  /\ halved \in Seq(Seq(D)) /\ halved # <<>>
             /\ Held(halved \o batches, ids)
<1>1. PICK h \in Seq(D) : h = Head(stack) /\ Len(h) > 1
  BY StackIsCons
<1>2. PICK tail \in Seq(Seq(D)) : tail = Tail(stack)
  BY StackIsCons
<1>3. PICK rest \in Seq(Seq(D)) : rest = tail \o batches
  BY <1>2, StackIsCons
<1>4. PICK old : old = <<h>> \o rest /\ old = stack \o batches
  BY <1>1, <1>2, <1>3, StackIsCons
<1>5. PICK middle \in Nat : middle = Middle(h) /\ middle \in 1..Len(h)
  <2>1. Middle(h) \in 1..Len(h)
    BY <1>1, HalvesFacts
  <2> HIDE DEF Middle
  <2> QED BY <2>1
<1>6. PICK a \in Seq(D) :
        a = Halves(h)[1] /\ DOMAIN a = 1..middle /\ \A i \in 1..middle : a[i] = h[i]
  BY <1>1, <1>5, HalvesFacts
<1>7. PICK b \in Seq(D) :
        /\ b = Halves(h)[2] /\ DOMAIN b = 1..(Len(h) - middle)
        /\ \A i \in 1..(Len(h) - middle) : b[i] = h[middle + i]
  BY <1>1, <1>5, HalvesFacts
<1>8. Halves(h) = <<a>> \o <<b>>
  <2>1. Halves(h) = <<a, b>>
    BY <1>6, <1>7 DEF Halves
  <2> QED BY <2>1
<1>9. /\ Halves(h) \o tail \in Seq(Seq(D)) /\ Halves(h) \o tail # <<>>
      /\ (Halves(h) \o tail) \o batches = <<a>> \o (<<b>> \o rest)
  <2>1. PICK s \in Seq(Seq(D)) : s = <<a>> /\ s # <<>>
    BY Single
  <2>2. PICK t \in Seq(Seq(D)) : t = <<b>>
    BY Single
  <2>3. s \o t \in Seq(Seq(D)) /\ s \o t # <<>>
    BY <2>1, ConcatProperties, ConcatEqualIffEmpty, ConcatSimplifications
  <2>4. (s \o t) \o tail \in Seq(Seq(D)) /\ (s \o t) \o tail # <<>>
    BY <2>3, ConcatProperties, ConcatSimplifications
  <2>5. ((s \o t) \o tail) \o batches = s \o (t \o (tail \o batches))
    <3>1. Associates(s, t, tail, batches)
      BY FourParts
    <3> QED BY <3>1 DEF Associates
  <2> QED BY <1>3, <1>8, <2>1, <2>2, <2>4, <2>5
<1>10. PICK second \in Seq(Seq(D)) : second = <<b>> \o rest
  BY ConsFacts
<1>11. PICK new : new = <<a>> \o second
  OBVIOUS
<1>12. /\ new[1] = a
       /\ \A p \in DOMAIN new : p = 1 \/ (p - 1 \in DOMAIN second /\ p - 1 + 1 = p)
       /\ \A p \in DOMAIN second : p \in Nat \ {0} /\ new[p + 1] = second[p]
  <2>1. IsCons(new, a, second)
    BY <1>11, ConsFacts
  <2> QED BY <2>1 DEF IsCons
<1>13. /\ second[1] = b
       /\ \A p \in DOMAIN second : p = 1 \/ (p - 1 \in DOMAIN rest /\ p - 1 + 1 = p)
       /\ \A p \in DOMAIN rest : p \in Nat \ {0} /\ second[p + 1] = rest[p]
  <2>1. IsCons(second, b, rest)
    BY <1>10, ConsFacts
  <2> QED BY <2>1 DEF IsCons
<1>14. /\ old[1] = h /\ 1 \in DOMAIN old
       /\ \A p \in DOMAIN rest : p \in Nat \ {0} /\ p + 1 \in DOMAIN old /\ old[p + 1] = rest[p]
  <2>1. IsCons(old, h, rest)
    BY <1>4, ConsFacts
  <2> QED BY <2>1 DEF IsCons
<1>15. DOMAIN h = 1..Len(h) /\ Len(h) \in Nat
  OBVIOUS
<1>16. ASSUME NEW p \in DOMAIN new, NEW i \in DOMAIN new[p]
       PROVE  \/ p = 1 /\ i \in DOMAIN old[1] /\ i <= middle /\ new[p][i] = old[1][i]
              \/ /\ p = 2 /\ i \in Nat \ {0} /\ middle + i \in DOMAIN old[1]
                 /\ new[p][i] = old[1][middle + i]
              \/ /\ p - 1 \in DOMAIN old /\ p - 1 # 1 /\ p - 1 + 1 = p
                 /\ i \in DOMAIN old[p - 1] /\ new[p][i] = old[p - 1][i]
  <2>1. CASE p = 1
    <3>1. i \in 1..middle /\ i \in 1..Len(h) /\ i <= middle
      BY <1>5, <1>6, <1>12, <1>15, <2>1
    <3> QED BY <1>6, <1>12, <1>14, <1>15, <2>1, <3>1
  <2>2. CASE p # 1 /\ p - 1 = 1
    <3>1. p = 2 /\ new[p] = b
      <4>1. p - 1 \in DOMAIN second /\ p - 1 + 1 = p
        BY <1>12, <2>2
      <4>2. p = 2 /\ 1 \in DOMAIN second
        BY <2>2, <4>1
      <4> QED BY <1>12, <1>13, <4>2
    <3>2. i \in 1..(Len(h) - middle)
      BY <1>7, <3>1
    <3>3. i \in Nat \ {0} /\ middle + i \in 1..Len(h)
      BY <1>5, <1>15, <3>2
    <3> QED BY <1>7, <1>14, <1>15, <3>1, <3>2, <3>3
  <2>3. CASE p # 1 /\ p - 1 # 1
    <3>1. p - 1 \in DOMAIN second /\ p - 1 + 1 = p /\ new[p] = second[p - 1]
      BY <1>12, <2>3
    <3>2. PICK r \in DOMAIN rest : r + 1 = p - 1 /\ second[p - 1] = rest[r]
      <4>1. PICK q \in DOMAIN second : q = p - 1 /\ q # 1
        BY <2>3, <3>1
      <4>2. PICK r \in DOMAIN rest : r = q - 1 /\ r + 1 = q
        BY <1>13, <4>1
      <4>3. second[r + 1] = rest[r]
        BY <1>13
      <4> QED BY <4>1, <4>2, <4>3
    <3>3. p - 1 \in DOMAIN old /\ old[p - 1] = rest[r]
      BY <1>14, <3>2
    <3>4. new[p] = old[p - 1]
      BY <3>1, <3>2, <3>3
    <3> QED BY <2>3, <3>1, <3>3, <3>4
  <2> QED BY <2>1, <2>2, <2>3
<1>17. Held(old, ids)
  BY <1>4
<1>18. Held(new, ids)
  <2>1. SplitsHead(old, new, middle)
    BY <1>16 DEF SplitsHead
  <2>2. 1 \in DOMAIN old
    BY <1>14
  <2> QED BY <1>17, <2>1, <2>2, HeldHalved
<1> QED BY <1>1, <1>2, <1>9, <1>10, <1>11, <1>18

-----------------------------------------------------------------------------
(***************************************************************************)
(* Rows, records and what is stored.  A step goes through several tables   *)
(* (it marks, then deletes, then recounts), so all of this is stated of    *)
(* rows t, records r, what is written w, late inserts l and a ledger g.    *)
(***************************************************************************)

RecordOf(t) == [target : Targets, rows : SUBSET DOMAIN t, state : {"in_flight", "blocked"}]
InsertOf(t) == [target : Targets, rows : SUBSET DOMAIN t]

(* Everything is written at most once. *)
TablesTyped(t, r, w, l, g) ==
  /\ t \in Seq(Row) /\ r \subseteq RecordOf(t) /\ l \subseteq InsertOf(t)
  /\ w \in [Keys -> [Targets -> 0..1]] /\ g \in [Keys -> Hashes \cup {NoHash}]

SentSound(t, w) == \A i \in DOMAIN t : \A tg \in t[i].sent : w[t[i].key][tg] > 0
RecordsDiffer(r) ==
  \A a, b \in r : a # b /\ a.target = b.target => a.rows \cap b.rows = {}

(* One row per key, in the ledger from the start; only what has a row is   *)
(* written, and only what was sent everywhere is gone.                     *)
HasRow(t, k) == \E i \in DOMAIN t : t[i].key = k
KeysSound(t, g) ==
  /\ \A i, j \in DOMAIN t : t[i].key = t[j].key => i = j
  /\ \A k \in Keys : g[k] # NoHash <=> HasRow(t, k)
WrittenSound(t, w) == \A k \in Keys, tg \in Targets : w[k][tg] > 0 => HasRow(t, k)
GoneSound(t) ==
  \A i \in DOMAIN t : t[i].gone => \E md \in Modes : Range(md) \subseteq t[i].sent

(* A row that was not sent to a target and has no open record there is not *)
(* stored there.                                                           *)
UnsentSound(t, r, w) ==
  \A i \in DOMAIN t, tg \in Targets :
    t[i].sent \cap {tg} = {} /\ i \notin InOpenRecord(r, tg) => w[t[i].key][tg] = 0

(* An insert that may still be stored has a record, unless it is empty;    *)
(* none of it is stored.                                                   *)
Unstored(t, w, insert) == \A i \in insert.rows : w[t[i].key][insert.target] = 0
Names(rec, insert) == rec.target = insert.target /\ rec.rows = insert.rows
Covered(r, insert) == insert.rows # {} => \E rec \in r : Names(rec, insert)
LateSound(t, r, w, l) == \A insert \in l : Unstored(t, w, insert) /\ Covered(r, insert)

TablesSound(t, r, w, l, g) ==
  /\ TablesTyped(t, r, w, l, g)
  /\ SentSound(t, w) /\ RecordsDiffer(r) /\ KeysSound(t, g) /\ WrittenSound(t, w)
  /\ GoneSound(t) /\ UnsentSound(t, r, w) /\ LateSound(t, r, w, l)

(* What a table of rows is made of. *)
LEMMA TableFacts ==
  ASSUME NEW t \in Seq(Row)
  PROVE  /\ DOMAIN t = 1..Len(t) /\ Len(t) \in Nat
         /\ \A i \in DOMAIN t : /\ t[i] \in Row /\ t[i].key \in Keys
                                /\ t[i].sent \subseteq Targets /\ t[i].gone \in BOOLEAN
                                /\ t[i] = [key |-> t[i].key, sent |-> t[i].sent,
                                           gone |-> t[i].gone]
<1>1. DOMAIN t = 1..Len(t) /\ Len(t) \in Nat /\ \A i \in DOMAIN t : t[i] \in Row
  OBVIOUS
<1> QED BY <1>1 DEF Row

(* A function on 1..n is a sequence. *)
LEMMA IsSequence ==
  ASSUME NEW S, NEW n \in Nat, NEW f \in [1..n -> S]
  PROVE  f \in Seq(S) /\ Len(f) = n
OBVIOUS

(* Rows that only become deleted, once they were sent everywhere. *)
LEMMA DeletingKeeps ==
  ASSUME NEW t, NEW r, NEW w, NEW l, NEW g, TablesSound(t, r, w, l, g), NEW d \in Seq(Row),
         DOMAIN d = DOMAIN t,
         \A i \in DOMAIN t : d[i].key = t[i].key /\ d[i].sent = t[i].sent,
         GoneSound(d)
  PROVE  TablesSound(d, r, w, l, g)
<1>1. TablesTyped(d, r, w, l, g)
  BY DEF TablesSound, TablesTyped, RecordOf, InsertOf
<1>2. \A k \in Keys : HasRow(d, k) <=> HasRow(t, k)
  BY DEF HasRow
<1>3. SentSound(d, w) /\ WrittenSound(d, w)
  BY <1>2 DEF TablesSound, SentSound, WrittenSound
<1>4. KeysSound(d, g)
  BY <1>2 DEF TablesSound, KeysSound
<1>5. UnsentSound(d, r, w)
  BY DEF TablesSound, UnsentSound
<1>6. LateSound(d, r, w, l)
  <2>1. ASSUME NEW insert \in l  PROVE  Unstored(d, w, insert)
    <3>1. insert.rows \subseteq DOMAIN t /\ Unstored(t, w, insert)
      BY DEF TablesSound, TablesTyped, InsertOf, LateSound
    <3> QED BY <3>1 DEF Unstored
  <2> QED BY <2>1 DEF TablesSound, LateSound
<1> QED BY <1>1, <1>3, <1>4, <1>5, <1>6 DEF TablesSound

(* Deleting keeps keys and targets sent, and takes only what was sent      *)
(* everywhere.                                                             *)
LEMMA DeleteFullySentFacts ==
  ASSUME NEW t \in Seq(Row), NEW ids
  PROVE  LET d == DeleteFullySent(t, ids)
         IN  /\ d \in Seq(Row) /\ DOMAIN d = DOMAIN t /\ Len(d) = Len(t)
             /\ \A i \in DOMAIN t :
                  /\ d[i].key = t[i].key /\ d[i].sent = t[i].sent
                  /\ d[i].gone \in BOOLEAN
                  /\ t[i].gone => d[i].gone
                  /\ d[i].gone => t[i].gone \/ Range(mode) \subseteq t[i].sent
<1> DEFINE d == DeleteFullySent(t, ids)
<1>1. /\ DOMAIN d = DOMAIN t
      /\ \A i \in DOMAIN t :
           d[i] = IF i \in ids /\ FullySent(t[i]) THEN [t[i] EXCEPT !.gone = TRUE] ELSE t[i]
  BY DEF DeleteFullySent
<1> HIDE DEF d
<1>2. ASSUME NEW i \in DOMAIN t
      PROVE  /\ d[i] \in Row /\ d[i].key = t[i].key /\ d[i].sent = t[i].sent
             /\ t[i].gone => d[i].gone
             /\ d[i].gone => t[i].gone \/ Range(mode) \subseteq t[i].sent
  <2>1. t[i] \in Row
    BY TableFacts
  <2>2. CASE i \in ids /\ FullySent(t[i])
    <3>1. d[i] = [t[i] EXCEPT !.gone = TRUE]
      BY <1>1, <2>2
    <3> QED BY <2>1, <2>2, <3>1 DEF Row, FullySent
  <2>3. CASE ~(i \in ids /\ FullySent(t[i]))
    BY <1>1, <2>1, <2>3
  <2> QED BY <2>2, <2>3
<1>3. d \in [1..Len(t) -> Row] /\ Len(t) \in Nat
  <2>1. d = [i \in DOMAIN t |-> d[i]]
    BY <1>1 DEF d, DeleteFullySent
  <2> QED BY <1>2, <2>1, TableFacts
<1>4. d \in Seq(Row) /\ Len(d) = Len(t)
  BY <1>3, IsSequence
<1> QED BY <1>1, <1>2, <1>4 DEF d, Row

(* deleteFullySentTraces keeps the tables sound. *)
LEMMA DeleteKeeps ==
  ASSUME NEW t, NEW r, NEW w, NEW l, NEW g, TablesSound(t, r, w, l, g), NEW ids, mode \in Modes
  PROVE  TablesSound(DeleteFullySent(t, ids), r, w, l, g)
<1>1. t \in Seq(Row) /\ GoneSound(t)
  BY DEF TablesSound, TablesTyped
<1>2. PICK d \in Seq(Row) :
        /\ d = DeleteFullySent(t, ids) /\ DOMAIN d = DOMAIN t
        /\ \A i \in DOMAIN t :
             /\ d[i].key = t[i].key /\ d[i].sent = t[i].sent
             /\ d[i].gone => t[i].gone \/ Range(mode) \subseteq t[i].sent
  BY <1>1, DeleteFullySentFacts
<1>3. GoneSound(d)
  BY <1>1, <1>2 DEF GoneSound
<1>4. TablesSound(d, r, w, l, g)
  BY <1>2, <1>3, DeletingKeeps
<1> QED BY <1>2, <1>4

(* A record opens for rows that can be sent. *)
LEMMA OpeningKeeps ==
  ASSUME NEW t, NEW r, NEW w, NEW l, NEW g, TablesSound(t, r, w, l, g),
         NEW x \in RecordOf(t), x.rows \subseteq HealthyFor(t, r, x.target)
  PROVE  /\ TablesSound(t, r \cup {x}, w, l, g)
         /\ \A i \in x.rows : w[t[i].key][x.target] = 0
<1>1. RecordsDiffer(r \cup {x})
  <2>1. ASSUME NEW a \in r, a.target = x.target  PROVE  a.rows \cap x.rows = {}
    BY <2>1 DEF HealthyFor, InOpenRecord
  <2> QED BY <2>1 DEF TablesSound, RecordsDiffer
<1>2. UnsentSound(t, r \cup {x}, w)
  BY DEF TablesSound, UnsentSound, InOpenRecord
<1>3. LateSound(t, r \cup {x}, w, l)
  BY DEF TablesSound, LateSound, Covered
<1>4. ASSUME NEW i \in x.rows  PROVE  w[t[i].key][x.target] = 0
  <2>1. /\ i \in DOMAIN t /\ x.target \in Targets /\ x.target \notin t[i].sent
        /\ i \notin InOpenRecord(r, x.target)
    BY DEF HealthyFor, RecordOf
  <2> QED BY <2>1 DEF TablesSound, UnsentSound
<1> QED BY <1>1, <1>2, <1>3, <1>4 DEF TablesSound, TablesTyped

(* A record whose rows are not stored and will not be is dropped. *)
LEMMA DroppingKeeps ==
  ASSUME NEW t, NEW r, NEW w, NEW l, NEW g, TablesSound(t, r, w, l, g), NEW x \in r,
         \A i \in x.rows : w[t[i].key][x.target] = 0,
         \A insert \in l : insert.rows # {} => ~Names(x, insert)
  PROVE  TablesSound(t, r \ {x}, w, l, g)
<1>1. RecordsDiffer(r \ {x})
  BY DEF TablesSound, RecordsDiffer
<1>2. UnsentSound(t, r \ {x}, w)
  <2>1. ASSUME NEW i \in DOMAIN t, NEW tg \in Targets, i \notin InOpenRecord(r \ {x}, tg),
               t[i].sent \cap {tg} = {}
        PROVE  w[t[i].key][tg] = 0
    <3>1. CASE i \in InOpenRecord(r, tg)
      <4>1. i \in x.rows /\ x.target = tg
        BY <2>1, <3>1 DEF InOpenRecord
      <4> QED BY <4>1
    <3>2. CASE i \notin InOpenRecord(r, tg)
      BY <2>1, <3>2 DEF TablesSound, UnsentSound
    <3> QED BY <3>1, <3>2
  <2> QED BY <2>1 DEF UnsentSound
<1>3. LateSound(t, r \ {x}, w, l)
  BY DEF TablesSound, LateSound, Covered
<1> QED BY <1>1, <1>2, <1>3 DEF TablesSound, TablesTyped

(* Records that only change their state. *)
LEMMA RelabelKeeps ==
  ASSUME NEW t, NEW r, NEW w, NEW l, NEW g, TablesSound(t, r, w, l, g),
         NEW s \in SUBSET RecordOf(t),
         \A a \in r : \E b \in s : Names(b, a),
         \A a \in s : \E b \in r : Names(b, a),
         \A a, b \in s : a # b => \E c, d \in r : c # d /\ Names(c, a) /\ Names(d, b)
  PROVE  TablesSound(t, s, w, l, g)
<1>1. RecordsDiffer(s)
  <2>1. ASSUME NEW a \in s, NEW b \in s, a # b, a.target = b.target
        PROVE  a.rows \cap b.rows = {}
    <3>1. PICK c, d \in r : c # d /\ Names(c, a) /\ Names(d, b)
      BY <2>1
    <3>2. c.rows \cap d.rows = {}
      BY <2>1, <3>1 DEF TablesSound, RecordsDiffer, Names
    <3> QED BY <3>1, <3>2 DEF Names
  <2> QED BY <2>1 DEF RecordsDiffer
<1>2. ASSUME NEW tg  PROVE  InOpenRecord(s, tg) = InOpenRecord(r, tg)
  BY DEF InOpenRecord, Names
<1>3. UnsentSound(t, s, w)
  BY <1>2 DEF TablesSound, UnsentSound
<1>4. LateSound(t, s, w, l)
  BY DEF TablesSound, LateSound, Covered, Names
<1> QED BY <1>1, <1>3, <1>4 DEF TablesSound, TablesTyped

KeysOf(t, ids) == {t[i].key : i \in ids}

(* What w becomes when these keys are stored at a target. *)
StoredIn(u, w, keys, target) ==
  /\ u \in [Keys -> [Targets -> 0..1]]
  /\ \A k \in Keys, tg \in Targets :
       u[k][tg] = IF k \in keys /\ tg = target THEN 1 ELSE w[k][tg]

(* Row by row, what marking does. *)
Marks(m, t, ids, target) ==
  /\ m \in Seq(Row) /\ DOMAIN m = DOMAIN t /\ Len(m) = Len(t)
  /\ \A i \in DOMAIN t :
       /\ m[i].key = t[i].key /\ m[i].gone = t[i].gone
       /\ m[i].sent = IF i \in ids THEN t[i].sent \cup {target} ELSE t[i].sent

(* Marking does that. *)
LEMMA MarkSentFacts ==
  ASSUME NEW t \in Seq(Row), NEW ids, NEW target \in Targets
  PROVE  Marks(MarkSent(t, ids, target), t, ids, target)
<1> DEFINE m == MarkSent(t, ids, target)
<1>1. /\ DOMAIN m = DOMAIN t /\ m = [i \in DOMAIN t |-> m[i]]
      /\ \A i \in DOMAIN t :
           m[i] = IF i \in ids THEN [t[i] EXCEPT !.sent = t[i].sent \cup {target}] ELSE t[i]
  BY DEF MarkSent
<1> HIDE DEF m
<1>2. ASSUME NEW i \in DOMAIN t
      PROVE  /\ m[i] \in Row /\ m[i].key = t[i].key /\ m[i].gone = t[i].gone
             /\ m[i].sent = IF i \in ids THEN t[i].sent \cup {target} ELSE t[i].sent
  <2>1. t[i] \in Row
    BY TableFacts
  <2>2. CASE i \in ids
    <3>1. m[i] = [t[i] EXCEPT !.sent = t[i].sent \cup {target}]
      BY <1>1, <2>2
    <3> QED BY <2>1, <2>2, <3>1 DEF Row
  <2>3. CASE i \notin ids
    BY <1>1, <2>1, <2>3
  <2> QED BY <2>2, <2>3
<1>3. m \in [1..Len(t) -> Row] /\ Len(t) \in Nat
  BY <1>1, <1>2, TableFacts
<1>4. m \in Seq(Row) /\ Len(m) = Len(t)
  BY <1>3, IsSequence
<1> QED BY <1>1, <1>2, <1>4 DEF m, Marks

(* The row of a key is the only one. *)
LEMMA RowOfKey ==
  ASSUME NEW t, NEW g, KeysSound(t, g), NEW ids \in SUBSET DOMAIN t, NEW i \in DOMAIN t,
         t[i].key \in KeysOf(t, ids)
  PROVE  i \in ids
BY DEF KeysSound, KeysOf

(* The rows of a record are stored and marked, and the record resolved. *)
LEMMA StoringKeeps ==
  ASSUME NEW t, NEW r, NEW w, NEW l, NEW g, TablesSound(t, r, w, l, g),
         NEW x \in r, \A insert \in l : insert.rows # {} => ~Names(x, insert),
         NEW u, StoredIn(u, w, KeysOf(t, x.rows), x.target)
  PROVE  TablesSound(MarkSent(t, x.rows, x.target), r \ {x}, u, l, g)
<1>1. /\ t \in Seq(Row) /\ x.rows \subseteq DOMAIN t /\ x.target \in Targets
      /\ \A insert \in l : insert.rows \subseteq DOMAIN t /\ insert.target \in Targets
      /\ \A k \in Keys, tg \in Targets : w[k][tg] \in 0..1
  BY DEF TablesSound, TablesTyped, RecordOf, InsertOf
<1>2. PICK m :
        /\ m = MarkSent(t, x.rows, x.target) /\ m \in Seq(Row) /\ DOMAIN m = DOMAIN t
        /\ \A i \in DOMAIN t :
             /\ m[i].key = t[i].key /\ m[i].gone = t[i].gone
             /\ m[i].sent = IF i \in x.rows THEN t[i].sent \cup {x.target} ELSE t[i].sent
  <2>1. Marks(MarkSent(t, x.rows, x.target), t, x.rows, x.target)
    BY <1>1, MarkSentFacts
  <2> QED BY <2>1 DEF Marks
<1>3. \A i \in DOMAIN t : t[i].key \in Keys /\ t[i].sent \subseteq Targets
  BY <1>1, TableFacts
<1>4. \A i \in DOMAIN t : t[i].key \in KeysOf(t, x.rows) <=> i \in x.rows
  BY <1>1, RowOfKey DEF TablesSound, KeysOf
<1>5. TablesTyped(m, r \ {x}, u, l, g)
  BY <1>2 DEF TablesSound, TablesTyped, RecordOf, InsertOf, StoredIn
<1>6. \A k \in Keys : HasRow(m, k) <=> HasRow(t, k)
  BY <1>2 DEF HasRow
<1>7. SentSound(m, u)
  <2>1. ASSUME NEW i \in DOMAIN m, NEW tg \in m[i].sent  PROVE  u[m[i].key][tg] > 0
    <3>1. i \in DOMAIN t /\ m[i].key = t[i].key /\ tg \in Targets
      BY <1>1, <1>2, <1>3
    <3>2. CASE i \in x.rows /\ tg = x.target
      BY <1>3, <1>4, <3>1, <3>2 DEF StoredIn
    <3>3. CASE ~(i \in x.rows /\ tg = x.target)
      <4>1. tg \in t[i].sent
        BY <1>2, <2>1, <3>1, <3>3
      <4>2. w[t[i].key][tg] > 0
        BY <3>1, <4>1 DEF TablesSound, SentSound
      <4> QED BY <1>3, <3>1, <4>2 DEF StoredIn
    <3> QED BY <3>2, <3>3
  <2> QED BY <2>1 DEF SentSound
<1>8. RecordsDiffer(r \ {x})
  BY DEF TablesSound, RecordsDiffer
<1>9. KeysSound(m, g)
  <2>1. /\ \A i, j \in DOMAIN t : t[i].key = t[j].key => i = j
        /\ \A k \in Keys : g[k] # NoHash <=> HasRow(t, k)
    BY DEF TablesSound, KeysSound
  <2>2. \A i, j \in DOMAIN m : m[i].key = m[j].key => i = j
    BY <1>2, <2>1
  <2>3. \A k \in Keys : g[k] # NoHash <=> HasRow(m, k)
    BY <1>6, <2>1
  <2> QED BY <2>2, <2>3 DEF KeysSound
<1>10. WrittenSound(m, u)
  <2>1. ASSUME NEW k \in KeysOf(t, x.rows)  PROVE  HasRow(t, k)
    BY <1>1 DEF KeysOf, HasRow
  <2> QED BY <1>6, <2>1 DEF TablesSound, WrittenSound, StoredIn
<1>11. GoneSound(m)
  <2>1. ASSUME NEW i \in DOMAIN m, m[i].gone
        PROVE  \E md \in Modes : Range(md) \subseteq m[i].sent
    <3>1. t[i].sent \subseteq m[i].sent /\ t[i].gone
      BY <1>2, <2>1
    <3> QED BY <1>2, <3>1 DEF TablesSound, GoneSound
  <2> QED BY <2>1 DEF GoneSound
<1>12. UnsentSound(m, r \ {x}, u)
  <2>1. ASSUME NEW i \in DOMAIN m, NEW tg \in Targets, m[i].sent \cap {tg} = {},
               i \notin InOpenRecord(r \ {x}, tg)
        PROVE  u[m[i].key][tg] = 0
    <3>1. i \in DOMAIN t /\ m[i].key = t[i].key /\ t[i].sent \cap {tg} = {}
      BY <1>2, <2>1
    <3>2. ~(i \in x.rows /\ tg = x.target)
      BY <1>2, <2>1, <3>1
    <3>3. i \notin InOpenRecord(r, tg)
      BY <2>1, <3>2 DEF InOpenRecord
    <3>4. w[t[i].key][tg] = 0
      BY <3>1, <3>3 DEF TablesSound, UnsentSound
    <3> QED BY <1>3, <1>4, <3>1, <3>2, <3>4 DEF StoredIn
  <2> QED BY <2>1 DEF UnsentSound
<1>13. LateSound(m, r \ {x}, u, l)
  <2>1. ASSUME NEW insert \in l
        PROVE  Unstored(m, u, insert) /\ Covered(r \ {x}, insert)
    <3>1. Unstored(t, w, insert) /\ Covered(r, insert)
      BY DEF TablesSound, LateSound
    <3>2. ASSUME NEW i \in insert.rows
          PROVE  u[m[i].key][insert.target] = 0 /\ \E rec \in r \ {x} : Names(rec, insert)
      <4>1. PICK rec \in r : Names(rec, insert)
        BY <3>1 DEF Covered
      <4>2. rec # x
        BY <4>1
      <4>3. i \in DOMAIN t /\ m[i].key = t[i].key /\ w[t[i].key][insert.target] = 0
        BY <1>1, <1>2, <3>1 DEF Unstored
      <4>4. ~(i \in x.rows /\ insert.target = x.target)
        BY <4>1, <4>2 DEF TablesSound, RecordsDiffer, Names
      <4>5. u[m[i].key][insert.target] = 0
        BY <1>1, <1>3, <1>4, <4>3, <4>4 DEF StoredIn
      <4> QED BY <4>1, <4>2, <4>5
    <3> QED BY <3>2 DEF Unstored, Covered
  <2> QED BY <2>1 DEF LateSound
<1> QED BY <1>5, <1>7, <1>8, <1>9, <1>10, <1>11, <1>12, <1>13, <1>2 DEF TablesSound

(* Nobody waits for an insert any more. *)
LEMMA LeavingKeeps ==
  ASSUME NEW t, NEW r, NEW w, NEW l, NEW g, TablesSound(t, r, w, l, g),
         NEW insert \in InsertOf(t), Unstored(t, w, insert), Covered(r, insert)
  PROVE  TablesSound(t, r, w, l \cup {insert}, g)
BY DEF TablesSound, TablesTyped, LateSound

(* It stores some of its rows after all. *)
LEMMA LateStoringKeeps ==
  ASSUME NEW t, NEW r, NEW w, NEW l, NEW g, TablesSound(t, r, w, l, g),
         NEW insert \in l, NEW ids \in SUBSET insert.rows,
         NEW u, StoredIn(u, w, KeysOf(t, ids), insert.target)
  PROVE  TablesSound(t, r, u, l \ {insert}, g)
<1>1. /\ t \in Seq(Row) /\ l \subseteq InsertOf(t) /\ ids \subseteq DOMAIN t
      /\ insert \in InsertOf(t)
  BY DEF TablesSound, TablesTyped, InsertOf
<1>2. \A i \in DOMAIN t : t[i].key \in Keys /\ t[i].sent \subseteq Targets
  BY <1>1, TableFacts
<1>3. \A i \in DOMAIN t : t[i].key \in KeysOf(t, ids) => i \in insert.rows
  BY <1>1, RowOfKey DEF TablesSound
<1>4. Covered(r, insert)
  BY DEF TablesSound, LateSound
<1>5. TablesTyped(t, r, u, l \ {insert}, g)
  BY DEF TablesSound, TablesTyped, StoredIn
<1>6. SentSound(t, u)
  BY <1>1, <1>2 DEF TablesSound, SentSound, StoredIn
<1>7. WrittenSound(t, u)
  <2>1. ASSUME NEW k \in KeysOf(t, ids)  PROVE  HasRow(t, k)
    BY <1>1 DEF KeysOf, HasRow
  <2> QED BY <2>1 DEF TablesSound, WrittenSound, StoredIn
<1>8. UnsentSound(t, r, u)
  <2>1. ASSUME NEW i \in DOMAIN t, NEW tg \in Targets, t[i].sent \cap {tg} = {},
               i \notin InOpenRecord(r, tg)
        PROVE  u[t[i].key][tg] = 0
    <3>1. w[t[i].key][tg] = 0
      BY <2>1 DEF TablesSound, UnsentSound
    <3>2. ~(i \in insert.rows /\ tg = insert.target)
      BY <1>4, <2>1 DEF InOpenRecord, Names, Covered
    <3> QED BY <1>2, <1>3, <3>1, <3>2 DEF StoredIn
  <2> QED BY <2>1 DEF UnsentSound
<1>9. LateSound(t, r, u, l \ {insert})
  <2>1. ASSUME NEW other \in l \ {insert}
        PROVE  Unstored(t, u, other) /\ Covered(r, other)
    <3>1. Unstored(t, w, other) /\ Covered(r, other)
      BY DEF TablesSound, LateSound
    <3>3. ASSUME other.target = insert.target, NEW i \in other.rows, i \in insert.rows
          PROVE  FALSE
      <4>1. PICK x \in r : Names(x, other)
        BY <3>1, <3>3 DEF Covered
      <4>2. PICK rec \in r : Names(rec, insert)
        BY <1>4, <3>3 DEF Covered
      <4>3. CASE x = rec
        <5>1. other.target = insert.target /\ other.rows = insert.rows
          BY <4>1, <4>2, <4>3 DEF Names
        <5> QED BY <1>1, <5>1 DEF InsertOf
      <4>4. CASE x # rec
        BY <3>3, <4>1, <4>2, <4>4 DEF TablesSound, RecordsDiffer, Names
      <4> QED BY <4>3, <4>4
    <3>4. ASSUME NEW i \in other.rows  PROVE  u[t[i].key][other.target] = 0
      <4>1. i \in DOMAIN t /\ other.target \in Targets /\ w[t[i].key][other.target] = 0
        BY <1>1, <3>1 DEF Unstored, InsertOf
      <4> QED BY <1>2, <1>3, <3>3, <4>1 DEF StoredIn
    <3> QED BY <3>1, <3>4 DEF Unstored
  <2> QED BY <2>1 DEF LateSound
<1> QED BY <1>5, <1>6, <1>7, <1>8, <1>9 DEF TablesSound

(* One value of a function replaced. *)
LEMMA UpdateFacts ==
  ASSUME NEW S, NEW T, NEW f \in [S -> T], NEW a \in S, NEW b \in T
  PROVE  /\ [f EXCEPT ![a] = b] \in [S -> T]
         /\ [f EXCEPT ![a] = b][a] = b
         /\ \A q \in S : q # a => [f EXCEPT ![a] = b][q] = f[q]
OBVIOUS

(* A trace the ledger does not have gets a row. *)
LEMMA AddingKeeps ==
  ASSUME NEW t, NEW r, NEW w, NEW l, NEW g, TablesSound(t, r, w, l, g),
         NEW k \in Keys, g[k] = NoHash, NEW h \in Hashes, h # NoHash
  PROVE  TablesSound(Append(t, [key |-> k, sent |-> {}, gone |-> FALSE]), r, w, l,
                     [g EXCEPT ![k] = h])
<1>1. /\ t \in Seq(Row) /\ r \subseteq RecordOf(t) /\ l \subseteq InsertOf(t)
      /\ w \in [Keys -> [Targets -> 0..1]] /\ g \in [Keys -> Hashes \cup {NoHash}]
  BY DEF TablesSound, TablesTyped
<1>2. PICK row \in Row : row = [key |-> k, sent |-> {}, gone |-> FALSE]
  BY DEF Row
<1>3. row.key = k /\ row.sent = {} /\ row.gone = FALSE
  BY <1>2
<1>4. PICK a \in Seq(Row) :
        /\ a = Append(t, row) /\ DOMAIN a = DOMAIN t \cup {Len(t) + 1}
        /\ \A i \in DOMAIN t : a[i] = t[i]
        /\ a[Len(t) + 1] = row /\ Len(t) + 1 \notin DOMAIN t
  <2>1. Len(t) \in Nat /\ DOMAIN t = 1..Len(t) /\ Append(t, row) \in Seq(Row)
    BY <1>1, TableFacts
  <2>2. /\ DOMAIN Append(t, row) = 1..(Len(t) + 1)
        /\ \A i \in 1..Len(t) : Append(t, row)[i] = t[i]
        /\ Append(t, row)[Len(t) + 1] = row
    BY <1>1
  <2>3. 1..(Len(t) + 1) = (1..Len(t)) \cup {Len(t) + 1} /\ Len(t) + 1 \notin 1..Len(t)
    BY <2>1
  <2> QED BY <2>1, <2>2, <2>3
<1>5. PICK e \in [Keys -> Hashes \cup {NoHash}] :
        /\ e = [g EXCEPT ![k] = h]
        /\ e[k] = h /\ \A q \in Keys : q # k => e[q] = g[q]
  <2>1. g \in [Keys -> Hashes \cup {NoHash}] /\ h \in Hashes \cup {NoHash}
    BY <1>1
  <2>2. [g EXCEPT ![k] = h] = [q \in Keys |-> IF q = k THEN h ELSE g[q]]
    BY <2>1
  <2>3. PICK e : e = [q \in Keys |-> IF q = k THEN h ELSE g[q]]
    OBVIOUS
  <2>4. e \in [Keys -> Hashes \cup {NoHash}]
    BY <2>1, <2>3
  <2>5. e[k] = h /\ \A q \in Keys : q # k => e[q] = g[q]
    BY <2>3
  <2> QED BY <2>2, <2>3, <2>4, <2>5
<1>6. ~HasRow(t, k)
  BY DEF TablesSound, KeysSound
<1>7. \A q \in Keys : HasRow(a, q) <=> (HasRow(t, q) \/ q = k)
  BY <1>3, <1>4 DEF HasRow
<1>8. \A tg \in Targets : w[k][tg] = 0
  BY <1>1, <1>6 DEF TablesSound, WrittenSound
<1>9. TablesTyped(a, r, w, l, e)
  BY <1>1, <1>4 DEF TablesTyped, RecordOf, InsertOf
<1>10. KeysSound(a, e)
  <2>1. \A i, j \in DOMAIN a : a[i].key = a[j].key => i = j
    BY <1>3, <1>4, <1>6 DEF TablesSound, KeysSound, HasRow
  <2> QED BY <1>5, <1>7, <2>1 DEF TablesSound, KeysSound
<1>11. SentSound(a, w) /\ WrittenSound(a, w) /\ GoneSound(a)
  BY <1>3, <1>4, <1>7 DEF TablesSound, SentSound, WrittenSound, GoneSound
<1>12. UnsentSound(a, r, w)
  BY <1>3, <1>4, <1>8 DEF TablesSound, UnsentSound
<1>13. LateSound(a, r, w, l)
  <2>1. ASSUME NEW insert \in l  PROVE  Unstored(a, w, insert)
    <3>1. insert.rows \subseteq DOMAIN t /\ Unstored(t, w, insert)
      BY <1>1 DEF TablesSound, InsertOf, LateSound
    <3> QED BY <1>4, <3>1 DEF Unstored
  <2> QED BY <2>1 DEF TablesSound, LateSound
<1> QED BY <1>2, <1>4, <1>5, <1>9, <1>10, <1>11, <1>12, <1>13 DEF TablesSound

-----------------------------------------------------------------------------
(* Staging *)

Stages ==
  [processed : SUBSET Messages, ledger : [Keys -> Hashes \cup {NoHash}],
   repairs : SUBSET [key : Keys, old : Hashes, new : Hashes], rows : Seq(Row)]

(* What was staged stays. *)
Grown(s, z) ==
  /\ s.processed \subseteq z.processed /\ s.repairs \subseteq z.repairs
  /\ \A k \in Keys : s.ledger[k] # NoHash => z.ledger[k] = s.ledger[k]
  /\ \A i \in DOMAIN s.rows : i \in DOMAIN z.rows /\ z.rows[i] = s.rows[i]

(* A trace that was staged is in the ledger or kept as a repair. *)
IsKept(s, trace) ==
  \/ \E r \in s.repairs : r.key = trace.key /\ r.new = trace.hash
  \/ s.ledger[trace.key] = trace.hash
AllKept(s) ==
  \A m \in s.processed : \A n \in DOMAIN TracesOf[m] : IsKept(s, TracesOf[m][n])

StageSound(s, r, w, l) ==
  s \in Stages /\ TablesSound(s.rows, r, w, l, s.ledger) /\ AllKept(s)

(* The elements of a sequence. *)
LEMMA ElementsOf ==
  ASSUME NEW S, NEW seq \in Seq(S)
  PROVE  Len(seq) \in Nat /\ DOMAIN seq = 1..Len(seq) /\ \A n \in DOMAIN seq : seq[n] \in S
OBVIOUS

(* A longer sequence starts with a shorter one. *)
StartsWith(z, s) == \A i \in DOMAIN s : i \in DOMAIN z /\ z[i] = s[i]

(* Appending keeps what was there. *)
LEMMA AppendKeeps ==
  ASSUME NEW S, NEW seq \in Seq(S), NEW e \in S
  PROVE  Append(seq, e) \in Seq(S) /\ StartsWith(Append(seq, e), seq)
BY DEF StartsWith

(* The traces of a message have keys and hashes. *)
LEMMA TraceFacts ==
  ASSUME NEW m \in Messages
  PROVE  /\ TracesOf[m] \in Seq([key : Keys, hash : Hashes])
         /\ Len(TracesOf[m]) \in Nat /\ DOMAIN TracesOf[m] = 1..Len(TracesOf[m])
         /\ \A n \in DOMAIN TracesOf[m] :
              /\ TracesOf[m][n].key \in Keys /\ TracesOf[m][n].hash \in Hashes
              /\ TracesOf[m][n].hash # NoHash
<1>1. TracesOf[m] \in Seq([key : Keys, hash : Hashes]) /\ NoHash \notin Hashes
  BY BatcherAssumption
<1>2. PICK traces \in Seq([key : Keys, hash : Hashes]) : traces = TracesOf[m]
  BY <1>1
<1>3. /\ Len(traces) \in Nat /\ DOMAIN traces = 1..Len(traces)
      /\ \A n \in DOMAIN traces : traces[n] \in [key : Keys, hash : Hashes]
  BY ElementsOf
<1> QED BY <1>1, <1>2, <1>3

(* What is kept stays kept. *)
LEMMA KeptGrows ==
  ASSUME NEW s \in Stages, NEW z \in Stages, Grown(s, z)
  PROVE  \A m \in Messages : \A n \in DOMAIN TracesOf[m] :
           IsKept(s, TracesOf[m][n]) => IsKept(z, TracesOf[m][n])
<1> SUFFICES ASSUME NEW m \in Messages, NEW n \in DOMAIN TracesOf[m],
                    IsKept(s, TracesOf[m][n])
             PROVE  IsKept(z, TracesOf[m][n])
  OBVIOUS
<1>1. /\ TracesOf[m][n].key \in Keys /\ TracesOf[m][n].hash # NoHash
  BY TraceFacts
<1> QED BY <1>1 DEF IsKept, Grown

(* Growing is transitive. *)
LEMMA GrownFurther ==
  ASSUME NEW s \in Stages, NEW z \in Stages, NEW y \in Stages, Grown(s, z), Grown(z, y)
  PROVE  Grown(s, y)
<1>1. \A k \in Keys : s.ledger[k] # NoHash => y.ledger[k] = s.ledger[k]
  BY DEF Grown
<1> QED BY <1>1 DEF Grown

(* One trace *)
LEMMA StageTraceFacts ==
  ASSUME NEW s \in Stages, NEW trace \in [key : Keys, hash : Hashes]
  PROVE  /\ StageTrace(s, trace) \in Stages /\ Grown(s, StageTrace(s, trace))
         /\ IsKept(StageTrace(s, trace), trace)
         /\ StageTrace(s, trace).processed = s.processed
         /\ \A r, w, l : TablesSound(s.rows, r, w, l, s.ledger)
              => TablesSound(StageTrace(s, trace).rows, r, w, l,
                             StageTrace(s, trace).ledger)
<1> DEFINE z == StageTrace(s, trace)
<1>1. /\ trace.key \in Keys /\ trace.hash \in Hashes /\ trace.hash # NoHash
      /\ s.ledger \in [Keys -> Hashes \cup {NoHash}] /\ s.rows \in Seq(Row)
      /\ s.repairs \in SUBSET [key : Keys, old : Hashes, new : Hashes]
      /\ s.processed \in SUBSET Messages
  BY BatcherAssumption DEF Stages
<1>2. PICK row \in Row : row = [key |-> trace.key, sent |-> {}, gone |-> FALSE]
  BY <1>1 DEF Row
<1>3. CASE s.ledger[trace.key] = trace.hash
  <2>1. z = s
    BY <1>3 DEF StageTrace
  <2> HIDE DEF z
  <2> QED BY <1>3, <2>1 DEF Grown, IsKept, z
<1>4. CASE s.ledger[trace.key] # trace.hash /\ s.ledger[trace.key] = NoHash
  <2>1. PICK e : /\ e = [s.ledger EXCEPT ![trace.key] = trace.hash]
                 /\ e \in [Keys -> Hashes \cup {NoHash}]
                 /\ e[trace.key] = trace.hash
                 /\ \A q \in Keys : q # trace.key => e[q] = s.ledger[q]
    <3>1. PICK e : e = [q \in Keys |-> IF q = trace.key THEN trace.hash ELSE s.ledger[q]]
      OBVIOUS
    <3>2. [s.ledger EXCEPT ![trace.key] = trace.hash] = e
      BY <1>1, <3>1
    <3> QED BY <1>1, <3>1, <3>2
  <2>2. PICK a \in Seq(Row) : /\ a = Append(s.rows, row)
                              /\ \A i \in DOMAIN s.rows : i \in DOMAIN a /\ a[i] = s.rows[i]
    <3>1. Append(s.rows, row) \in Seq(Row) /\ StartsWith(Append(s.rows, row), s.rows)
      BY <1>1, AppendKeeps
    <3> QED BY <3>1 DEF StartsWith
  <2>3. z = [s EXCEPT !.ledger = e, !.rows = a]
    BY <1>2, <1>4, <2>1, <2>2 DEF StageTrace
  <2>4. z = [processed |-> s.processed, ledger |-> e, repairs |-> s.repairs, rows |-> a]
    BY <2>3 DEF Stages
  <2> HIDE DEF z
  <2>5. z \in Stages /\ z.processed = s.processed
    BY <1>1, <2>1, <2>2, <2>4 DEF Stages
  <2>6. Grown(s, z)
    BY <1>4, <2>1, <2>2, <2>4 DEF Grown
  <2>7. IsKept(z, trace)
    BY <2>1, <2>4 DEF IsKept
  <2>8. ASSUME NEW r, NEW w, NEW l, TablesSound(s.rows, r, w, l, s.ledger)
        PROVE  TablesSound(z.rows, r, w, l, z.ledger)
    <3>1. TablesSound(Append(s.rows, [key |-> trace.key, sent |-> {}, gone |-> FALSE]),
                      r, w, l, [s.ledger EXCEPT ![trace.key] = trace.hash])
      BY <1>1, <1>4, <2>8, AddingKeeps
    <3> QED BY <1>2, <2>1, <2>2, <2>4, <3>1
  <2> QED BY <2>5, <2>6, <2>7, <2>8 DEF z
<1>5. CASE s.ledger[trace.key] # trace.hash /\ s.ledger[trace.key] # NoHash
  <2>1. PICK repair : repair = [key |-> trace.key, old |-> s.ledger[trace.key],
                                new |-> trace.hash]
    OBVIOUS
  <2>2. repair \in [key : Keys, old : Hashes, new : Hashes]
    BY <1>1, <1>5, <2>1
  <2>3. z = [processed |-> s.processed, ledger |-> s.ledger,
             repairs |-> s.repairs \cup {repair}, rows |-> s.rows]
    BY <1>5, <2>1 DEF StageTrace, Stages
  <2> HIDE DEF z
  <2>4. z \in Stages /\ Grown(s, z) /\ z.processed = s.processed
    BY <1>1, <2>2, <2>3 DEF Stages, Grown
  <2>5. IsKept(z, trace)
    BY <2>1, <2>3 DEF IsKept
  <2> QED BY <2>3, <2>4, <2>5 DEF z
<1> QED BY <1>3, <1>4, <1>5

(* One message *)
LEMMA InsertMessageFacts ==
  ASSUME NEW s, NEW r, NEW w, NEW l, StageSound(s, r, w, l), NEW m \in Messages
  PROVE  LET z == InsertMessage(s, m)
         IN  StageSound(z, r, w, l) /\ Grown(s, z) /\ m \in z.processed
<1> DEFINE traces == TracesOf[m]
           start == [s EXCEPT !.processed = s.processed \cup {m}]
           Following(f) == [n \in 0..Len(traces) |->
                              IF n = 0 THEN start ELSE StageTrace(f[n - 1], traces[n])]
           staged == CHOOSE f : f = Following(f)
           z == InsertMessage(s, m)
<1>1. /\ s \in Stages /\ Len(traces) \in Nat
      /\ \A n \in 1..Len(traces) : traces[n] \in [key : Keys, hash : Hashes]
  <2>1. s \in Stages /\ Len(traces) \in Nat
    BY TraceFacts DEF StageSound
  <2>2. PICK all \in Seq([key : Keys, hash : Hashes]) : all = TracesOf[m]
    BY TraceFacts
  <2>3. \A n \in 1..Len(all) : all[n] \in [key : Keys, hash : Hashes]
    BY ElementsOf
  <2> QED BY <2>1, <2>2, <2>3
<1>2. z = IF m \in s.processed THEN s ELSE staged[Len(traces)]
  BY DEF InsertMessage
<1>3. CASE m \in s.processed
  <2>1. z = s
    BY <1>2, <1>3
  <2> HIDE DEF z
  <2> QED BY <1>3, <2>1 DEF Grown, z
<1>4. CASE m \notin s.processed
  <2>1. /\ start \in Stages /\ Grown(s, start) /\ start.processed = s.processed \cup {m}
        /\ start.rows = s.rows /\ start.ledger = s.ledger /\ start.repairs = s.repairs
    BY <1>1 DEF Stages, Grown
  <2>2. TablesSound(start.rows, r, w, l, start.ledger)
    BY <2>1 DEF StageSound
  <2> HIDE DEF start, z
  <2>3. \E g : g = Following(g)
    <3> DEFINE next == [n \in 1..Len(traces) |-> [x \in Stages |-> StageTrace(x, traces[n])]]
    <3>1. next \in [1..Len(traces) -> [Stages -> Stages]]
      BY <1>1, StageTraceFacts
    <3>2. PICK g \in [0..Len(traces) -> Stages] : Follows(g, start, next, Len(traces))
      <4> HIDE DEF next, traces
      <4> QED BY <1>1, <2>1, <3>1, RecursionExists
    <3>3. \A n \in 1..Len(traces) : g[n] = StageTrace(g[n - 1], traces[n])
      <4>1. \A n \in 1..Len(traces) : n - 1 \in 0..Len(traces)
        BY <1>1
      <4> QED BY <3>2, <4>1 DEF Follows
    <3>4. \A n \in 0..Len(traces) : n = 0 \/ n \in 1..Len(traces)
      BY <1>1
    <3>5. g = [n \in 0..Len(traces) |-> g[n]]
      BY <3>2
    <3>6. g = Following(g)
      <4> HIDE DEF traces, next
      <4> QED BY <3>2, <3>3, <3>4, <3>5 DEF Follows
    <3> QED BY <3>6
  <2>4. staged = Following(staged)
    <3> HIDE DEF Following
    <3> QED BY <2>3
  <2> HIDE DEF staged
  <2>5. \A n \in 0..Len(traces) :
          staged[n] = IF n = 0 THEN start ELSE StageTrace(staged[n - 1], traces[n])
    BY <2>4
  <2>6. staged[0] = start
    BY <1>1, <2>5
  <2>7. \A n \in 1..Len(traces) : staged[n] = StageTrace(staged[n - 1], traces[n])
    <3>1. \A n \in 1..Len(traces) : n \in 0..Len(traces) /\ n # 0
      BY <1>1
    <3> QED BY <2>5, <3>1
  <2> HIDE DEF Following
  <2> DEFINE Fine(n) ==
               /\ staged[n] \in Stages /\ Grown(start, staged[n])
               /\ TablesSound(staged[n].rows, r, w, l, staged[n].ledger)
               /\ staged[n].processed = start.processed
               /\ \A p \in 1..n : IsKept(staged[n], traces[p])
             Good == {n \in 0..Len(traces) : Fine(n)}
  <2>8. 0 \in Good
    <3>1. Grown(start, start) /\ 1..0 = {} /\ 0 \in 0..Len(traces)
      BY <1>1 DEF Grown
    <3> QED BY <2>1, <2>2, <2>6, <3>1
  <2>9. ASSUME NEW n \in 1..Len(traces), n - 1 \in Good  PROVE  n \in Good
    <3>1. n \in 0..Len(traces) /\ n # 0 /\ traces[n] \in [key : Keys, hash : Hashes]
          /\ \A p \in 1..n : p \in 1..Len(traces) /\ (p = n \/ p \in 1..(n - 1))
      BY <1>1
    <3>2. Fine(n - 1)
      BY <2>9
    <3>3. /\ staged[n] \in Stages /\ Grown(staged[n - 1], staged[n])
          /\ IsKept(staged[n], traces[n]) /\ staged[n].processed = start.processed
          /\ TablesSound(staged[n].rows, r, w, l, staged[n].ledger)
      <4>1. staged[n] = StageTrace(staged[n - 1], traces[n])
        BY <2>7
      <4> HIDE DEF traces
      <4> QED BY <3>1, <3>2, <4>1, StageTraceFacts
    <3>4. Grown(start, staged[n])
      <4> HIDE DEF traces
      <4> QED BY <2>1, <3>2, <3>3, GrownFurther
    <3>5. ASSUME NEW p \in 1..n  PROVE  IsKept(staged[n], traces[p])
      <4>1. CASE p = n
        BY <3>3, <4>1
      <4>2. CASE p # n
        <5>1. p \in DOMAIN traces /\ IsKept(staged[n - 1], traces[p])
          BY <3>1, <3>2, <4>2, TraceFacts
        <5> QED BY <3>2, <3>3, <5>1, KeptGrows
      <4> QED BY <4>1, <4>2
    <3>6. Fine(n)
      <4> HIDE DEF traces
      <4> QED BY <3>3, <3>4, <3>5
    <3> QED BY <3>1, <3>6
  <2>10. Len(traces) \in Good
    <3>1. 0..Len(traces) \subseteq Good
      <4> HIDE DEF Good, traces
      <4> QED BY <1>1, <2>8, <2>9, Climb
    <3>2. Len(traces) \in 0..Len(traces)
      BY <1>1
    <3> QED BY <3>1, <3>2
  <2>11. /\ z \in Stages /\ Grown(start, z) /\ TablesSound(z.rows, r, w, l, z.ledger)
         /\ z.processed = s.processed \cup {m}
         /\ \A p \in DOMAIN traces : IsKept(z, traces[p])
    <3>1. z = staged[Len(traces)] /\ DOMAIN traces = 1..Len(traces)
      BY <1>2, <1>4, TraceFacts
    <3> HIDE DEF traces
    <3> QED BY <2>1, <2>10, <3>1
  <2>12. Grown(s, z)
    BY <1>1, <2>1, <2>11, GrownFurther
  <2>13. AllKept(z)
    <3>1. ASSUME NEW q \in z.processed, NEW n \in DOMAIN TracesOf[q]
          PROVE  IsKept(z, TracesOf[q][n])
      <4>1. CASE q = m
        BY <2>11, <3>1, <4>1
      <4>2. CASE q # m
        <5>1. q \in s.processed /\ q \in Messages
          BY <1>1, <2>11, <4>2 DEF Stages
        <5>2. IsKept(s, TracesOf[q][n])
          BY <5>1 DEF StageSound, AllKept
        <5> QED BY <1>1, <2>11, <2>12, <5>1, <5>2, KeptGrows
      <4> QED BY <4>1, <4>2
    <3> QED BY <3>1 DEF AllKept
  <2> QED BY <2>11, <2>12, <2>13 DEF StageSound, z
<1> QED BY <1>3, <1>4

(* A call *)
LEMMA StagedFacts ==
  ASSUME NEW start, NEW r, NEW w, NEW l, StageSound(start, r, w, l),
         start = [processed |-> processed, ledger |-> ledger, repairs |-> repairs,
                  rows |-> rows],
         NEW call \in Calls
  PROVE  /\ StageSound(Staged(call), r, w, l) /\ Grown(start, Staged(call))
         /\ Range(call) \subseteq Staged(call).processed
<1> DEFINE Following(f) == [n \in 0..Len(call) |->
                              IF n = 0 THEN [processed |-> processed, ledger |-> ledger,
                                             repairs |-> repairs, rows |-> rows]
                              ELSE InsertMessage(f[n - 1], call[n])]
           inserted == CHOOSE f : f = Following(f)
           Sound == {s \in Stages : StageSound(s, r, w, l)}
<1>1. /\ Len(call) \in Nat /\ DOMAIN call = 1..Len(call)
      /\ \A n \in 1..Len(call) : call[n] \in Messages
  <2>1. call \in Seq(Messages)
    BY BatcherAssumption
  <2> QED BY <2>1
<1>2. Staged(call) = inserted[Len(call)]
  BY DEF Staged
<1>3. start \in Sound
  BY DEF StageSound
<1>4. \E g : g = Following(g)
  <2> DEFINE next == [n \in 1..Len(call) |-> [x \in Sound |-> InsertMessage(x, call[n])]]
  <2>1. next \in [1..Len(call) -> [Sound -> Sound]]
    <3>1. ASSUME NEW n \in 1..Len(call), NEW x \in Sound  PROVE  InsertMessage(x, call[n]) \in Sound
      <4>1. StageSound(InsertMessage(x, call[n]), r, w, l)
        BY <1>1, InsertMessageFacts
      <4> QED BY <4>1 DEF StageSound
    <3> HIDE DEF Sound
    <3> QED BY <3>1
  <2>2. PICK g \in [0..Len(call) -> Sound] : Follows(g, start, next, Len(call))
    <3> HIDE DEF next, Sound
    <3> QED BY <1>1, <1>3, <2>1, RecursionExists
  <2>3. \A n \in 1..Len(call) : g[n] = InsertMessage(g[n - 1], call[n])
    <3>1. \A n \in 1..Len(call) : n - 1 \in 0..Len(call)
      BY <1>1
    <3> HIDE DEF Sound
    <3> QED BY <2>2, <3>1 DEF Follows
  <2>4. \A n \in 0..Len(call) : n = 0 \/ n \in 1..Len(call)
    BY <1>1
  <2>5. g = [n \in 0..Len(call) |-> g[n]]
    BY <2>2
  <2>6. g = Following(g)
    <3> HIDE DEF next, Sound
    <3> QED BY <2>2, <2>3, <2>4, <2>5 DEF Follows
  <2> QED BY <2>6
<1>5. inserted = Following(inserted)
  <2> HIDE DEF Following
  <2> QED BY <1>4
<1> HIDE DEF inserted
<1>6. \A n \in 0..Len(call) :
        inserted[n] = IF n = 0 THEN start ELSE InsertMessage(inserted[n - 1], call[n])
  BY <1>5
<1>7. inserted[0] = start
  BY <1>1, <1>6
<1>8. \A n \in 1..Len(call) : inserted[n] = InsertMessage(inserted[n - 1], call[n])
  <2>1. \A n \in 1..Len(call) : n \in 0..Len(call) /\ n # 0
    BY <1>1
  <2> QED BY <1>6, <2>1
<1> HIDE DEF Following
<1> DEFINE Fine(n) ==
             /\ StageSound(inserted[n], r, w, l) /\ Grown(start, inserted[n])
             /\ \A p \in 1..n : call[p] \in inserted[n].processed
           Good == {n \in 0..Len(call) : Fine(n)}
<1>9. 0 \in Good
  <2>1. Grown(start, start) /\ 1..0 = {} /\ 0 \in 0..Len(call)
    BY <1>1 DEF Grown
  <2> QED BY <1>7, <2>1
<1>10. ASSUME NEW n \in 1..Len(call), n - 1 \in Good  PROVE  n \in Good
  <2>1. n \in 0..Len(call) /\ call[n] \in Messages
        /\ \A p \in 1..n : p = n \/ p \in 1..(n - 1)
    BY <1>1
  <2>2. Fine(n - 1)
    BY <1>10
  <2>3. /\ StageSound(inserted[n], r, w, l) /\ Grown(inserted[n - 1], inserted[n])
        /\ call[n] \in inserted[n].processed
    BY <1>8, <2>1, <2>2, InsertMessageFacts
  <2>4. Grown(start, inserted[n])
    BY <2>2, <2>3, GrownFurther DEF StageSound
  <2>5. \A p \in 1..n : call[p] \in inserted[n].processed
    BY <2>1, <2>2, <2>3 DEF Grown
  <2> QED BY <2>1, <2>3, <2>4, <2>5
<1>11. Len(call) \in Good
  <2>1. 0..Len(call) \subseteq Good
    <3> HIDE DEF Good
    <3> QED BY <1>1, <1>9, <1>10, Climb
  <2>2. Len(call) \in 0..Len(call)
    BY <1>1
  <2> QED BY <2>1, <2>2
<1>12. Fine(Len(call))
  BY <1>11
<1>13. Range(call) \subseteq Staged(call).processed
  <2>1. ASSUME NEW m \in Range(call)  PROVE  m \in Staged(call).processed
    <3>1. PICK p \in 1..Len(call) : m = call[p]
      BY <1>1 DEF Range
    <3> QED BY <1>2, <1>12, <3>1
  <2> QED BY <2>1
<1> QED BY <1>2, <1>12, <1>13

-----------------------------------------------------------------------------
(***************************************************************************)
(* The inductive invariant: the tables are sound; a flush still has to     *)
(* send rows that can be sent; what it waits for has a record of its own.  *)
(***************************************************************************)

Waiting ==
  /\ flush.at = "wait" /\ flush.stack # <<>>
  /\ Holds(flush, rows, records \ {InFlight}, mode)
  /\ InFlight \in records
  /\ \A insert \in late : insert.rows # {} => ~Names(InFlight, insert)
  /\ \A i \in Range(Batch) : written[rows[i].key][Target] = 0

FlushSound ==
  flush = NoFlush \/ Ready(flush, rows, records, mode) \/ Waiting

(* The head of the stack has been dealt with. *)
Left(f, table, recs) ==
  /\ f \in FlushRecord(DOMAIN table) /\ f.stack # <<>> /\ f.targets # <<>>
  /\ Range(f.targets) \subseteq Range(mode)
  /\ Held(Tail(f.stack) \o f.batches, HealthyFor(table, recs, Head(f.targets)))

(* Going on or ending leaves a sound flush. *)
LEMMA AdvanceKeepsFlush ==
  ASSUME NEW next, NEW by, NEW table, NEW recs, NEW count,
         next = NoFlush \/ Ready(next, table, recs, mode),
         Advance(next, by, table, recs, count), mode' = mode
  PROVE  FlushSound'
<1>1. CASE next = NoFlush
  <2>1. flush' = NoFlush
    BY <1>1 DEF Advance
  <2> QED BY <2>1 DEF FlushSound
<1>2. CASE next # NoFlush
  <2>1. flush' = next /\ rows' = table /\ records' = recs
    BY <1>2 DEF Advance
  <2>2. Ready(flush', rows', records', mode')
    BY <1>2, <2>1
  <2> QED BY <2>2 DEF FlushSound
<1> QED BY <1>1, <1>2

(* Going on or ending leaves sound tables. *)
LEMMA AdvanceKeepsTables ==
  ASSUME NEW next, NEW by, NEW table, NEW recs, NEW count, NEW u, NEW l, NEW g,
         Advance(next, by, table, recs, count), mode \in Modes,
         TablesSound(table, recs, u, l, g)
  PROVE  TablesSound(rows', records', u, l, g)
<1>1. CASE next = NoFlush
  <2>1. rows' = DeleteFullySent(table, DOMAIN table) /\ records' = recs
    BY <1>1 DEF Advance
  <2> QED BY <2>1, DeleteKeeps
<1>2. CASE next # NoFlush
  BY <1>2 DEF Advance
<1> QED BY <1>1, <1>2

(* The end of a batch leaves a sound flush. *)
LEMMA EndBatchKeepsFlush ==
  ASSUME NEW f, NEW table \in Seq(Row), NEW recs, Left(f, table, recs),
         EndBatch(f, table, recs), mode' = mode
  PROVE  FlushSound'
<1>1. HasShape(f) /\ f \in FlushRecord(DOMAIN table) /\ f.stack # <<>>
  BY DEF Left, FlushRecord, HasShape
<1>2. PICK rest \in Seq(Seq(DOMAIN table)) : rest = Tail(f.stack)
  BY <1>1, HeadTailProperties DEF FlushRecord
<1>3. PICK popped : popped = [f EXCEPT !.stack = Tail(@)]
  OBVIOUS
<1>4. popped = [at |-> f.at, by |-> f.by, targets |-> f.targets, batches |-> f.batches,
                stack |-> rest, retry |-> f.retry]
  BY <1>1, <1>2, <1>3 DEF HasShape
<1>5. Holds(popped, table, recs, mode)
  <2>1. popped \in FlushRecord(DOMAIN table)
    BY <1>1, <1>2, <1>4 DEF FlushRecord
  <2> QED BY <1>2, <1>4, <2>1 DEF Holds, Left
<1>6. PICK next : next = NextBatch(popped, table, recs)
  OBVIOUS
<1>7. next = NoFlush \/ Ready(next, table, recs, mode)
  BY <1>5, <1>6, NextBatchReady
<1>8. Advance(next, f.by, table, recs, traceCount)
  BY <1>3, <1>6 DEF EndBatch
<1> QED BY <1>7, <1>8, AdvanceKeepsFlush

(* Parts held in a set are held in a larger one. *)
LEMMA HeldWider ==
  ASSUME NEW parts, NEW ids, NEW more, Held(parts, ids), ids \subseteq more
  PROVE  Held(parts, more)
BY DEF Held

(* What a flush knows of its batch. *)
LEMMA BatchFacts ==
  ASSUME NEW recs, Holds(flush, rows, recs, mode), flush.stack # <<>>
  PROVE  /\ Target \in Targets /\ Target \in Range(mode)
         /\ Range(Batch) \subseteq HealthyFor(rows, recs, Target)
         /\ Range(Batch) \subseteq DOMAIN rows
         /\ InFlight.rows = Range(Batch) /\ InFlight.target = Target
         /\ InFlight.state = "in_flight" /\ InFlight \in RecordOf(rows)
         /\ flush \in FlushRecord(DOMAIN rows)
         /\ \A table, after :
              /\ DOMAIN table = DOMAIN rows
              /\ HealthyFor(rows, recs, Target) \ Range(Batch)
                   \subseteq HealthyFor(table, after, Target)
              => Left(flush, table, after)
<1>1. /\ flush \in FlushRecord(DOMAIN rows) /\ flush.targets # <<>>
      /\ Range(flush.targets) \subseteq Range(mode) /\ flush.stack # <<>>
      /\ Held(flush.stack \o flush.batches, HealthyFor(rows, recs, Target))
  BY DEF Holds, Target
<1>2. /\ flush.stack \in Seq(Seq(DOMAIN rows)) /\ flush.batches \in Seq(Seq(DOMAIN rows))
      /\ flush.targets \in Seq(Targets)
  BY <1>1 DEF FlushRecord
<1>3. Target \in Targets /\ Target \in Range(flush.targets)
  <2>1. PICK s \in Seq(Targets) : s = flush.targets /\ s # <<>>
    BY <1>1, <1>2
  <2>2. 1 \in DOMAIN s /\ Head(s) = s[1] /\ s[1] \in Targets
    BY <2>1
  <2> QED BY <2>1, <2>2 DEF Target, Range
<1>4. PICK stack, batches, ids :
        /\ stack = flush.stack /\ batches = flush.batches
        /\ ids = HealthyFor(rows, recs, Target)
  OBVIOUS
<1>5. /\ Range(Head(stack)) \subseteq ids
      /\ Held(Tail(stack) \o batches, ids \ Range(Head(stack)))
  BY <1>1, <1>2, <1>4, PopHeld
<1>6. ids \subseteq DOMAIN rows
  BY <1>4, HealthyInTable
<1>7. ASSUME NEW table, NEW after, DOMAIN table = DOMAIN rows,
             ids \ Range(Batch) \subseteq HealthyFor(table, after, Target)
      PROVE  Left(flush, table, after)
  <2>1. Held(Tail(flush.stack) \o flush.batches, HealthyFor(table, after, Target))
    BY <1>4, <1>5, <1>7, HeldWider DEF Batch
  <2> QED BY <1>1, <1>7, <2>1 DEF Left, Target
<1> QED BY <1>1, <1>3, <1>4, <1>5, <1>6, <1>7 DEF Batch, InFlight, RecordOf

(* Halving the part in hand *)
LEMMA HalvesReady ==
  ASSUME NEW table \in Seq(Row), NEW recs, NEW md, Holds(flush, table, recs, md),
         flush.stack # <<>>, Len(Batch) > 1, SendHalves
  PROVE  Ready(flush', table, recs, md)
<1>1. HasShape(flush) /\ flush \in FlushRecord(DOMAIN table)
  BY DEF Holds, FlushRecord, HasShape
<1>2. flush.stack \in Seq(Seq(DOMAIN table)) /\ flush.batches \in Seq(Seq(DOMAIN table))
  BY <1>1 DEF FlushRecord
<1>3. PICK halved : halved = Halves(Head(flush.stack)) \o Tail(flush.stack)
  OBVIOUS
<1>4. /\ halved \in Seq(Seq(DOMAIN table)) /\ halved # <<>>
      /\ Held(halved \o flush.batches, HealthyFor(table, recs, Head(flush.targets)))
  BY <1>2, <1>3, HalvesHeld DEF Holds, Batch
<1>5. flush' = [at |-> "parse", by |-> flush.by, targets |-> flush.targets,
                batches |-> flush.batches, stack |-> halved, retry |-> flush.retry]
  BY <1>1, <1>3 DEF SendHalves, HasShape, Batch
<1>6. PICK f : f = flush'
  OBVIOUS
<1>7. f \in FlushRecord(DOMAIN table)
  BY <1>1, <1>4, <1>5, <1>6 DEF FlushRecord
<1>8. Ready(f, table, recs, md)
  BY <1>4, <1>5, <1>6, <1>7 DEF Ready, Holds
<1> QED BY <1>6, <1>8

SendingSound ==
  mode \in Modes /\ TablesSound(rows, records, written, late, ledger) /\ FlushSound

(* Storing what was not stored stores it once. *)
LEMMA StoreFacts ==
  ASSUME NEW w \in [Keys -> [Targets -> 0..1]], w = written, NEW keys, NEW all, NEW target,
         keys \subseteq all, Store(keys, target),
         \A k \in keys \cap Keys : w[k][target] = 0,
         \A k \in Keys : k \in all \ keys => w[k][target] = 1
  PROVE  StoredIn(written', w, all, target)
<1>1. PICK u : u = [k \in Keys |-> [tg \in Targets |->
                      IF k \in keys /\ tg = target /\ w[k][tg] < 2
                      THEN w[k][tg] + 1 ELSE w[k][tg]]]
  OBVIOUS
<1>2. written' = u
  BY <1>1 DEF Store
<1>3. \A k \in Keys, tg \in Targets :
        u[k][tg] = IF k \in keys /\ tg = target /\ w[k][tg] < 2
                   THEN w[k][tg] + 1 ELSE w[k][tg]
  BY <1>1
<1>4. \A k \in Keys, tg \in Targets : u[k][tg] = IF k \in all /\ tg = target THEN 1 ELSE w[k][tg]
  <2>1. ASSUME NEW k \in Keys, NEW tg \in Targets
        PROVE  u[k][tg] = IF k \in all /\ tg = target THEN 1 ELSE w[k][tg]
    <3>1. w[k][tg] \in 0..1
      OBVIOUS
    <3>2. CASE k \in keys /\ tg = target
      <4>1. w[k][tg] = 0 /\ k \in all
        BY <3>2
      <4> QED BY <1>3, <3>2, <4>1
    <3>3. CASE ~(k \in keys /\ tg = target)
      <4>1. u[k][tg] = w[k][tg]
        BY <1>3, <3>3
      <4> QED BY <3>3, <4>1
    <3> QED BY <3>2, <3>3
  <2> QED BY <2>1
<1>5. u \in [Keys -> [Targets -> 0..1]]
  <2>1. ASSUME NEW k \in Keys  PROVE  u[k] \in [Targets -> 0..1]
    <3>1. \A tg \in Targets : u[k][tg] \in 0..1
      BY <1>4
    <3>2. u[k] = [tg \in Targets |->
                      IF k \in keys /\ tg = target /\ w[k][tg] < 2
                      THEN w[k][tg] + 1 ELSE w[k][tg]]
      BY <1>1
    <3>3. u[k] = [tg \in Targets |-> u[k][tg]]
      BY <3>2
    <3> QED BY <3>1, <3>3
  <2>2. u = [k \in Keys |-> u[k]]
    BY <1>1
  <2> QED BY <2>1, <2>2
<1> QED BY <1>2, <1>4, <1>5 DEF StoredIn

(* Fewer records leave more rows healthy. *)
LEMMA HealthyWithout ==
  ASSUME NEW t, NEW r, NEW s, NEW tg, s \subseteq r
  PROVE  HealthyFor(t, r, tg) \subseteq HealthyFor(t, s, tg)
BY DEF HealthyFor, InOpenRecord

(* sendTraceBatchInner up to the insert. *)
LEMMA SendBatchKeepsSending ==
  SendingSound /\ SendBatch => SendingSound'
<1> SUFFICES ASSUME SendingSound, SendBatch  PROVE  SendingSound'
  OBVIOUS
<1>1. /\ rows \in Seq(Row) /\ mode \in Modes /\ TablesSound(rows, records, written, late, ledger)
  BY DEF SendingSound, TablesSound, TablesTyped
<1>2. /\ mode' = mode /\ ledger' = ledger /\ written' = written /\ late' = late
      /\ flush.at = "parse"
  BY DEF SendBatch, stored, outside
<1>3. Ready(flush, rows, records, mode)
  BY <1>2 DEF SendingSound, FlushSound, Waiting, NoFlush
<1>4. /\ Range(Batch) \subseteq HealthyFor(rows, records, Target)
      /\ InFlight \in RecordOf(rows) /\ InFlight.rows = Range(Batch) /\ InFlight.target = Target
      /\ flush \in FlushRecord(DOMAIN rows)
      /\ \A table, after :
           /\ DOMAIN table = DOMAIN rows
           /\ HealthyFor(rows, records, Target) \ Range(Batch)
                \subseteq HealthyFor(table, after, Target)
           => Left(flush, table, after)
  BY <1>3, BatchFacts DEF Ready
<1>5. CASE /\ records' = records \cup {InFlight}
           /\ flush' = [flush EXCEPT !.at = "wait"]
           /\ UNCHANGED rows
  <2>1. PICK x \in RecordOf(rows) : x = InFlight
    BY <1>4
  <2>2. /\ TablesSound(rows, records \cup {x}, written, late, ledger)
        /\ \A i \in x.rows : written[rows[i].key][x.target] = 0
    BY <1>1, <1>4, <2>1, OpeningKeeps
  <2>3. HasShape(flush)
    BY <1>4 DEF FlushRecord, HasShape
  <2>4. flush' = [at |-> "wait", by |-> flush.by, targets |-> flush.targets,
                  batches |-> flush.batches, stack |-> flush.stack, retry |-> flush.retry]
    BY <1>5, <2>3 DEF HasShape
  <2>5. InFlight' = x /\ Batch' = Batch /\ Target' = Target
    BY <2>1, <2>4 DEF InFlight, Batch, Target
  <2>6. Holds(flush', rows, records, mode)
    <3>1. PICK f : f = flush'
      OBVIOUS
    <3>2. f \in FlushRecord(DOMAIN rows)
      BY <1>4, <2>4, <3>1 DEF FlushRecord
    <3>3. Holds(f, rows, records, mode)
      BY <1>3, <2>4, <3>1, <3>2 DEF Holds, Ready
    <3> QED BY <3>1, <3>3
  <2>7. Holds(flush', rows', records' \ {InFlight'}, mode')
    <3>1. records' \ {InFlight'} \subseteq records
      BY <1>5, <2>1, <2>5
    <3>2. PICK ids, more : /\ ids = HealthyFor(rows, records, Head(flush'.targets))
                           /\ more = HealthyFor(rows, records' \ {InFlight'}, Head(flush'.targets))
      OBVIOUS
    <3>3. ids \subseteq more
      BY <3>1, <3>2, HealthyWithout
    <3>4. Held(flush'.stack \o flush'.batches, more)
      BY <2>6, <3>2, <3>3, HeldWider DEF Holds
    <3> QED BY <1>2, <1>5, <2>6, <3>2, <3>4 DEF Holds
  <2>8. \A insert \in late : insert.rows # {} => ~Names(InFlight', insert)
    <3>1. SUFFICES ASSUME NEW insert \in late, insert.rows # {}, Names(x, insert)  PROVE FALSE
      BY <2>5
    <3>2. PICK rec \in records : Names(rec, insert)
      BY <1>1, <3>1 DEF TablesSound, LateSound, Covered
    <3>3. rec.rows = x.rows /\ rec.target = x.target /\ x.rows # {}
      BY <3>1, <3>2 DEF Names
    <3> QED BY <1>4, <2>1, <3>3 DEF HealthyFor, InOpenRecord
  <2>9. Waiting'
    <3>1. flush'.at = "wait" /\ flush'.stack # <<>> /\ InFlight' \in records'
      BY <1>3, <1>5, <2>1, <2>4, <2>5 DEF Ready
    <3>2. \A i \in Range(Batch') : written'[rows'[i].key][Target'] = 0
      BY <1>2, <1>4, <1>5, <2>1, <2>2, <2>5
    <3> QED BY <1>2, <2>7, <2>8, <3>1, <3>2 DEF Waiting
  <2> QED BY <1>1, <1>2, <1>5, <2>1, <2>2, <2>9 DEF SendingSound, FlushSound
<1>6. CASE Len(Batch) > 1 /\ SendHalves /\ UNCHANGED <<rows, records>>
  <2>1. Ready(flush', rows, records, mode)
    BY <1>1, <1>3, <1>6, HalvesReady DEF Ready
  <2> QED BY <1>1, <1>2, <1>6, <2>1 DEF SendingSound, FlushSound
<1>7. CASE EndBatch(flush, rows, records \cup {Blocked})
  <2>1. PICK x : x = Blocked
    OBVIOUS
  <2>2. x \in RecordOf(rows) /\ x.rows = Range(Batch) /\ x.target = Target
    BY <1>4, <2>1 DEF Blocked, InFlight, RecordOf
  <2>3. TablesSound(rows, records \cup {x}, written, late, ledger)
    BY <1>1, <1>4, <2>2, OpeningKeeps
  <2>4. Left(flush, rows, records \cup {x})
    <3>1. HealthyFor(rows, records, Target) \ Range(Batch)
            \subseteq HealthyFor(rows, records \cup {x}, Target)
      BY <2>2 DEF HealthyFor, InOpenRecord
    <3> QED BY <1>4, <3>1
  <2>5. FlushSound'
    BY <1>1, <1>2, <1>7, <2>1, <2>4, EndBatchKeepsFlush
  <2>6. TablesSound(rows', records', written, late, ledger)
    BY <1>1, <1>7, <2>1, <2>3, AdvanceKeepsTables DEF EndBatch
  <2> QED BY <1>1, <1>2, <2>5, <2>6 DEF SendingSound
<1> QED BY <1>5, <1>6, <1>7 DEF SendBatch

(* What an answer finds. *)
LEMMA WaitingFacts ==
  ASSUME SendingSound, flush.at = "wait"
  PROVE  /\ Waiting /\ rows \in Seq(Row) /\ mode \in Modes
         /\ TablesSound(rows, records, written, late, ledger)
         /\ Range(Batch) \subseteq HealthyFor(rows, records \ {InFlight}, Target)
         /\ InFlight \in RecordOf(rows) /\ InFlight.rows = Range(Batch) /\ InFlight.target = Target
         /\ Target \in Targets /\ InFlight.state = "in_flight"
         /\ flush \in FlushRecord(DOMAIN rows)
         /\ \A i \in InFlight.rows : written[rows[i].key][InFlight.target] = 0
         /\ \A table, after :
              /\ DOMAIN table = DOMAIN rows
              /\ HealthyFor(rows, records \ {InFlight}, Target) \ Range(Batch)
                   \subseteq HealthyFor(table, after, Target)
              => Left(flush, table, after)
<1>1. /\ rows \in Seq(Row) /\ mode \in Modes /\ TablesSound(rows, records, written, late, ledger)
  BY DEF SendingSound, TablesSound, TablesTyped
<1>2. Waiting
  BY DEF SendingSound, FlushSound, Ready, NoFlush
<1>3. Holds(flush, rows, records \ {InFlight}, mode) /\ flush.stack # <<>>
  BY <1>2 DEF Waiting
<1>4. PICK recs : recs = records \ {InFlight}
  OBVIOUS
<1>5. /\ Range(Batch) \subseteq HealthyFor(rows, recs, Target)
      /\ InFlight \in RecordOf(rows) /\ InFlight.rows = Range(Batch) /\ InFlight.target = Target
      /\ Target \in Targets /\ InFlight.state = "in_flight"
      /\ flush \in FlushRecord(DOMAIN rows)
      /\ \A table, after :
           /\ DOMAIN table = DOMAIN rows
           /\ HealthyFor(rows, recs, Target) \ Range(Batch)
                \subseteq HealthyFor(table, after, Target)
           => Left(flush, table, after)
  BY <1>3, <1>4, BatchFacts
<1>6. \A i \in InFlight.rows : written[rows[i].key][InFlight.target] = 0
  BY <1>2, <1>5 DEF Waiting
<1> QED BY <1>1, <1>2, <1>4, <1>5, <1>6

(* Nothing of the insert in flight is stored: its record can be dropped. *)
LEMMA DroppedInFlight ==
  ASSUME SendingSound, flush.at = "wait"
  PROVE  TablesSound(rows, records \ {InFlight}, written, late, ledger)
<1>1. PICK x : x = InFlight
  OBVIOUS
<1>2. /\ x \in records /\ TablesSound(rows, records, written, late, ledger)
      /\ \A i \in x.rows : written[rows[i].key][x.target] = 0
      /\ \A insert \in late : insert.rows # {} => ~Names(x, insert)
  BY <1>1, WaitingFacts DEF Waiting
<1> QED BY <1>1, <1>2, DroppingKeeps

(* It can be kept for the operator instead. *)
LEMMA PreservedInFlight ==
  ASSUME SendingSound, flush.at = "wait", NEW l, TablesSound(rows, records, written, l, ledger)
  PROVE  TablesSound(rows, Preserved, written, l, ledger)
<1>1. /\ InFlight \in records /\ InFlight \in RecordOf(rows)
      /\ InFlight.rows = Range(Batch) /\ InFlight.target = Target
  BY WaitingFacts DEF Waiting
<1>2. PICK x \in records : x = InFlight
  BY <1>1
<1>3. PICK y \in RecordOf(rows) : y = Blocked
  BY <1>1 DEF Blocked, InFlight, RecordOf
<1>4. Names(x, y) /\ Names(y, x)
  BY <1>1, <1>2, <1>3 DEF Names, Blocked, InFlight
<1>5. PICK s : s = (records \ {x}) \cup {y}
  OBVIOUS
<1>6. Preserved = s
  BY <1>2, <1>3, <1>5 DEF Preserved
<1>7. records \subseteq RecordOf(rows)
  BY DEF TablesSound, TablesTyped
<1>8. s \in SUBSET RecordOf(rows)
  BY <1>3, <1>5, <1>7
<1>9. /\ \A a \in records : \E b \in s : Names(b, a)
      /\ \A a \in s : \E b \in records : Names(b, a)
  BY <1>4, <1>5 DEF Names
<1>10. ASSUME NEW a \in s, NEW b \in s, a # b
       PROVE  \E c, d \in records : c # d /\ Names(c, a) /\ Names(d, b)
  <2>1. CASE a = y
    <3>1. b \in records \ {x} /\ Names(b, b)
      BY <1>5, <1>10, <2>1 DEF Names
    <3> QED BY <1>4, <2>1, <3>1
  <2>2. CASE a # y /\ b = y
    <3>1. a \in records \ {x} /\ Names(a, a)
      BY <1>5, <1>10, <2>2 DEF Names
    <3> QED BY <1>4, <2>2, <3>1
  <2>3. CASE a # y /\ b # y
    <3>1. a \in records /\ b \in records /\ Names(a, a) /\ Names(b, b)
      BY <1>5, <1>10, <2>3 DEF Names
    <3> QED BY <1>10, <3>1
  <2> QED BY <2>1, <2>2, <2>3
<1>11. TablesSound(rows, s, written, l, ledger)
  BY <1>8, <1>9, <1>10, RelabelKeeps
<1> QED BY <1>6, <1>11

(* Whatever happens to the batch in flight, the rest can still be sent. *)
LEMMA LeftWithoutRecord ==
  ASSUME SendingSound, flush.at = "wait"
  PROVE  Left(flush, rows, records \ {InFlight}) /\ Left(flush, rows, Preserved)
<1>1. PICK recs : recs = records \ {InFlight}
  OBVIOUS
<1>2. /\ HealthyFor(rows, recs, Target) \ Range(Batch) \subseteq HealthyFor(rows, recs, Target)
      /\ HealthyFor(rows, recs, Target) \ Range(Batch) \subseteq HealthyFor(rows, Preserved, Target)
  <2>1. Preserved = recs \cup {Blocked} /\ Blocked.rows = Range(Batch)
    BY <1>1 DEF Preserved, Blocked, InFlight
  <2> QED BY <2>1 DEF HealthyFor, InOpenRecord
<1>3. Left(flush, rows, recs)
  BY <1>1, <1>2, WaitingFacts
<1>4. PICK after : after = Preserved
  OBVIOUS
<1>5. Left(flush, rows, after)
  BY <1>1, <1>2, <1>4, WaitingFacts
<1> QED BY <1>1, <1>3, <1>4, <1>5

(* HTTP 200: stored, marked and resolved. *)
LEMMA InsertConfirmedKeepsSending ==
  SendingSound /\ InsertConfirmed => SendingSound'
<1> SUFFICES ASSUME SendingSound, InsertConfirmed  PROVE  SendingSound'
  OBVIOUS
<1>1. /\ mode' = mode /\ ledger' = ledger /\ late' = late /\ flush.at = "wait"
      /\ Store(KeysIn(Range(Batch)), Target)
  BY DEF InsertConfirmed, stored
<1>2. PICK x : x = InFlight
  OBVIOUS
<1>3. /\ x \in records /\ x.rows = Range(Batch) /\ x.target = Target
      /\ x.rows \subseteq DOMAIN rows /\ Target \in Targets /\ rows \in Seq(Row)
      /\ TablesSound(rows, records, written, late, ledger) /\ mode \in Modes
      /\ \A i \in x.rows : written[rows[i].key][x.target] = 0
      /\ \A insert \in late : insert.rows # {} => ~Names(x, insert)
  BY <1>1, <1>2, WaitingFacts DEF Waiting, RecordOf
<1>4. StoredIn(written', written, KeysOf(rows, x.rows), x.target)
  <2>1. PICK w \in [Keys -> [Targets -> 0..1]] : w = written
    BY <1>3 DEF TablesSound, TablesTyped
  <2>2. KeysIn(Range(Batch)) = KeysOf(rows, x.rows)
    BY <1>3 DEF KeysIn, KeysOf
  <2>3. \A k \in KeysOf(rows, x.rows) : w[k][x.target] = 0
    BY <1>3, <2>1 DEF KeysOf
  <2>4. PICK keys : keys = KeysOf(rows, x.rows)
    OBVIOUS
  <2>5. Store(keys, x.target)
    BY <1>1, <1>3, <2>2, <2>4
  <2>6. StoredIn(written', w, keys, x.target)
    BY <2>1, <2>3, <2>4, <2>5, StoreFacts
  <2> QED BY <2>1, <2>4, <2>6
<1>5. PICK table : table = MarkSent(rows, x.rows, x.target)
  OBVIOUS
<1>6. TablesSound(table, records \ {x}, written', late, ledger)
  BY <1>3, <1>4, <1>5, StoringKeeps
<1>7. Marks(table, rows, x.rows, x.target)
  BY <1>3, <1>5, MarkSentFacts
<1>8. Left(flush, table, records \ {x})
  <2>1. DOMAIN table = DOMAIN rows
    BY <1>7 DEF Marks
  <2>2. HealthyFor(rows, records \ {x}, Target) \ Range(Batch)
          \subseteq HealthyFor(table, records \ {x}, Target)
    BY <1>3, <1>7 DEF Marks, HealthyFor
  <2> QED BY <1>1, <1>2, <2>1, <2>2, WaitingFacts
<1>9. EndBatch(flush, table, records \ {x})
  BY <1>2, <1>3, <1>5 DEF InsertConfirmed
<1>10. FlushSound'
  BY <1>1, <1>7, <1>8, <1>9, EndBatchKeepsFlush DEF Marks
<1>11. TablesSound(rows', records', written', late, ledger)
  BY <1>3, <1>6, <1>9, AdvanceKeepsTables DEF EndBatch
<1> QED BY <1>1, <1>3, <1>10, <1>11 DEF SendingSound

(* 429 or 503: resolved, to be tried again. *)
LEMMA InsertRefusedKeepsSending ==
  SendingSound /\ InsertRefusedForNow => SendingSound'
<1> SUFFICES ASSUME SendingSound, InsertRefusedForNow  PROVE  SendingSound'
  OBVIOUS
<1>1. /\ mode' = mode /\ ledger' = ledger /\ late' = late /\ written' = written
      /\ flush.at = "wait"
  BY DEF InsertRefusedForNow, stored, outside
<1>2. /\ rows \in Seq(Row) /\ mode \in Modes /\ flush \in FlushRecord(DOMAIN rows)
  BY <1>1, WaitingFacts
<1>3. PICK f : f = [flush EXCEPT !.retry = TRUE]
  OBVIOUS
<1>4. f = [at |-> flush.at, by |-> flush.by, targets |-> flush.targets,
           batches |-> flush.batches, stack |-> flush.stack, retry |-> TRUE]
  BY <1>2, <1>3 DEF FlushRecord
<1>5. PICK recs : recs = records \ {InFlight}
  OBVIOUS
<1>6. Left(f, rows, recs)
  <2>1. Left(flush, rows, recs)
    BY <1>1, <1>5, LeftWithoutRecord
  <2>2. f \in FlushRecord(DOMAIN rows)
    BY <1>2, <1>4 DEF FlushRecord
  <2> QED BY <1>4, <2>1, <2>2 DEF Left
<1>7. EndBatch(f, rows, recs)
  BY <1>3, <1>5 DEF InsertRefusedForNow
<1>8. FlushSound'
  BY <1>1, <1>2, <1>6, <1>7, EndBatchKeepsFlush
<1>9. TablesSound(rows, recs, written, late, ledger)
  BY <1>1, <1>5, DroppedInFlight
<1>10. TablesSound(rows', records', written, late, ledger)
  BY <1>2, <1>7, <1>9, AdvanceKeepsTables DEF EndBatch
<1> QED BY <1>1, <1>2, <1>8, <1>10 DEF SendingSound

(* 413: resolved, the halves to be tried. *)
LEMMA InsertTooLargeKeepsSending ==
  SendingSound /\ InsertTooLarge => SendingSound'
<1> SUFFICES ASSUME SendingSound, InsertTooLarge  PROVE  SendingSound'
  OBVIOUS
<1>1. /\ mode' = mode /\ ledger' = ledger /\ late' = late /\ written' = written
      /\ rows' = rows /\ records' = records \ {InFlight}
      /\ flush.at = "wait" /\ Len(Batch) > 1 /\ SendHalves
  BY DEF InsertTooLarge, stored, outside
<1>2. rows \in Seq(Row) /\ mode \in Modes /\ Waiting
  BY <1>1, WaitingFacts
<1>3. PICK recs : recs = records \ {InFlight}
  OBVIOUS
<1>4. Ready(flush', rows, recs, mode)
  BY <1>1, <1>2, <1>3, HalvesReady DEF Waiting
<1>5. TablesSound(rows, recs, written, late, ledger)
  BY <1>1, <1>3, DroppedInFlight
<1> QED BY <1>1, <1>2, <1>3, <1>4, <1>5 DEF SendingSound, FlushSound

(* Another 4xx: kept for the operator. *)
LEMMA InsertRejectedKeepsSending ==
  SendingSound /\ InsertRejected => SendingSound'
<1> SUFFICES ASSUME SendingSound, InsertRejected  PROVE  SendingSound'
  OBVIOUS
<1>1. /\ mode' = mode /\ ledger' = ledger /\ late' = late /\ written' = written
      /\ flush.at = "wait" /\ EndBatch(flush, rows, Preserved)
  BY DEF InsertRejected, stored, outside
<1>2. PICK recs : recs = Preserved
  OBVIOUS
<1>3. /\ rows \in Seq(Row) /\ mode \in Modes
      /\ TablesSound(rows, records, written, late, ledger) /\ Left(flush, rows, recs)
  BY <1>1, <1>2, WaitingFacts, LeftWithoutRecord
<1>4. TablesSound(rows, recs, written, late, ledger)
  BY <1>1, <1>2, <1>3, PreservedInFlight
<1>5. FlushSound'
  BY <1>1, <1>2, <1>3, EndBatchKeepsFlush
<1>6. TablesSound(rows', records', written, late, ledger)
  BY <1>1, <1>2, <1>3, <1>4, AdvanceKeepsTables DEF EndBatch
<1> QED BY <1>1, <1>3, <1>5, <1>6 DEF SendingSound

(* An insert whose outcome is unknown may still be stored. *)
LEMMA LeavingInFlight ==
  ASSUME SendingSound, flush.at = "wait"
  PROVE  TablesSound(rows, records, written,
                     late \cup {[target |-> Target, rows |-> Range(Batch)]}, ledger)
<1>1. PICK insert : insert = [target |-> Target, rows |-> Range(Batch)]
  OBVIOUS
<1>2. /\ TablesSound(rows, records, written, late, ledger) /\ InFlight \in records
      /\ InFlight \in RecordOf(rows) /\ InFlight.rows = Range(Batch) /\ InFlight.target = Target
      /\ \A i \in InFlight.rows : written[rows[i].key][InFlight.target] = 0
  BY WaitingFacts DEF Waiting
<1>3. /\ insert \in InsertOf(rows) /\ Names(InFlight, insert)
      /\ insert.target = Target /\ insert.rows = Range(Batch)
  BY <1>1, <1>2 DEF InsertOf, RecordOf, Names
<1>4. Unstored(rows, written, insert) /\ Covered(records, insert)
  BY <1>2, <1>3 DEF Unstored, Covered
<1>5. TablesSound(rows, records, written, late \cup {insert}, ledger)
  BY <1>2, <1>3, <1>4, LeavingKeeps
<1> QED BY <1>1, <1>5

(* Unknown: kept for the operator, perhaps stored later. *)
LEMMA InsertUncertainKeepsSending ==
  SendingSound /\ InsertUncertain => SendingSound'
<1> SUFFICES ASSUME SendingSound, InsertUncertain  PROVE  SendingSound'
  OBVIOUS
<1>1. /\ mode' = mode /\ ledger' = ledger /\ written' = written
      /\ late' = late \cup {[target |-> Target, rows |-> Range(Batch)]}
      /\ flush.at = "wait" /\ EndBatch(flush, rows, Preserved)
  BY DEF InsertUncertain, stored
<1>2. PICK recs, l : recs = Preserved /\ l = late'
  OBVIOUS
<1>3. rows \in Seq(Row) /\ mode \in Modes /\ Left(flush, rows, recs)
  BY <1>1, <1>2, WaitingFacts, LeftWithoutRecord
<1>4. TablesSound(rows, records, written, l, ledger)
  BY <1>1, <1>2, LeavingInFlight
<1>5. TablesSound(rows, recs, written, l, ledger)
  BY <1>1, <1>2, <1>4, PreservedInFlight
<1>6. FlushSound'
  BY <1>1, <1>2, <1>3, EndBatchKeepsFlush
<1>7. TablesSound(rows', records', written, l, ledger)
  BY <1>1, <1>2, <1>3, <1>5, AdvanceKeepsTables DEF EndBatch
<1> QED BY <1>1, <1>2, <1>3, <1>6, <1>7 DEF SendingSound

(* Steps beside the flush *)

(* Sequences over a set are sequences over a larger one. *)
LEMMA WiderSeq ==
  ASSUME NEW D, NEW E, D \subseteq E
  PROVE  Seq(D) \subseteq Seq(E)
OBVIOUS

(* A flush holds on while its rows stay healthy. *)
LEMMA HoldsOn ==
  ASSUME NEW f, NEW t, NEW recs, NEW md, Holds(f, t, recs, md), NEW z, NEW after,
         DOMAIN t \subseteq DOMAIN z,
         HealthyFor(t, recs, Head(f.targets)) \subseteq HealthyFor(z, after, Head(f.targets))
  PROVE  Holds(f, z, after, md)
<1>1. Seq(Seq(DOMAIN t)) \subseteq Seq(Seq(DOMAIN z))
  BY WiderSeq
<1>2. f \in FlushRecord(DOMAIN z)
  BY <1>1 DEF Holds, FlushRecord
<1>3. Held(f.stack \o f.batches, HealthyFor(z, after, Head(f.targets)))
  BY HeldWider DEF Holds
<1> QED BY <1>2, <1>3 DEF Holds

(* A step beside the flush leaves it sound while its rows stay healthy. *)
LEMMA FlushStays ==
  ASSUME FlushSound, flush' = flush, mode' = mode, DOMAIN rows \subseteq DOMAIN rows',
         HealthyFor(rows, records, Target) \subseteq HealthyFor(rows', records', Target),
         Waiting =>
           /\ HealthyFor(rows, records \ {InFlight}, Target)
                \subseteq HealthyFor(rows', records' \ {InFlight}, Target)
           /\ InFlight \in records'
           /\ \A insert \in late' : insert.rows # {} => ~Names(InFlight, insert)
           /\ \A i \in Range(Batch) : written'[rows'[i].key][Target] = 0
  PROVE  FlushSound'
<1>1. Target' = Target /\ Batch' = Batch /\ InFlight' = InFlight
  BY DEF Target, Batch, InFlight
<1>2. PICK f, t, z, r, s, md : f = flush /\ t = rows /\ z = rows' /\ r = records
                               /\ s = records' /\ md = mode
  OBVIOUS
<1>3. CASE flush = NoFlush
  BY <1>3 DEF FlushSound
<1>4. CASE Ready(flush, rows, records, mode)
  <2>1. Holds(f, t, r, md) /\ f.at = "parse" /\ f.stack # <<>>
    BY <1>2, <1>4 DEF Ready
  <2>2. Holds(f, z, s, md)
    BY <1>2, <2>1, HoldsOn DEF Target
  <2>3. Ready(f, z, s, md)
    BY <2>1, <2>2 DEF Ready
  <2> QED BY <1>2, <2>3 DEF FlushSound
<1>5. CASE Waiting
  <2>1. PICK x : x = InFlight
    OBVIOUS
  <2>2. Holds(f, t, r \ {x}, md) /\ f.at = "wait" /\ f.stack # <<>>
    BY <1>2, <1>5, <2>1 DEF Waiting
  <2>3. Holds(f, z, s \ {x}, md)
    BY <1>2, <1>5, <2>1, <2>2, HoldsOn DEF Target
  <2>4. Holds(flush', rows', records' \ {InFlight'}, mode')
    BY <1>1, <1>2, <2>1, <2>3
  <2>5. Waiting'
    BY <1>1, <1>2, <1>5, <2>2, <2>4 DEF Waiting
  <2> QED BY <2>5 DEF FlushSound
<1> QED BY <1>3, <1>4, <1>5 DEF FlushSound

(* Steps that touch nothing of this. *)
LEMMA SendingStands ==
  ASSUME SendingSound, UNCHANGED <<rows, records, written, late, ledger, flush, mode>>
  PROVE  SendingSound'
<1>1. /\ rows' = rows /\ records' = records /\ written' = written /\ late' = late
      /\ ledger' = ledger /\ flush' = flush /\ mode' = mode
  OBVIOUS
<1>2. FlushSound'
  BY <1>1 DEF SendingSound, FlushSound, Waiting, InFlight, Batch, Target
<1> QED BY <1>1, <1>2 DEF SendingSound

(* A flush starts sound. *)
LEMMA StartFlushKeepsFlush ==
  ASSUME NEW by \in Runs, NEW table \in Seq(Row), NEW count, mode \in Modes, mode' = mode,
         StartFlush(by, table, count)
  PROVE  FlushSound'
<1>1. mode \in Seq(Targets)
  BY BatcherAssumption
<1>2. PICK next : next = NextTarget(by, mode, table, records)
  OBVIOUS
<1>3. next = NoFlush \/ Ready(next, table, records, mode)
  BY <1>1, <1>2, NextTargetReady
<1>4. Advance(next, by, table, records, count)
  BY <1>2 DEF StartFlush
<1> QED BY <1>3, <1>4, AdvanceKeepsFlush

(* A call is one of the runs. *)
LEMMA AddRunIn ==
  ASSUME NEW call \in Calls
  PROVE  AddRun(call) \in Runs
BY DEF Runs

Current == [processed |-> processed, ledger |-> ledger, repairs |-> repairs, rows |-> rows]
StagingTyped ==
  processed \subseteq Messages /\ repairs \subseteq [key : Keys, old : Hashes, new : Hashes]

(* What a call stages, from the tables as they are. *)
LEMMA CallStaged ==
  ASSUME SendingSound, StagingTyped, AllKept(Current), NEW call \in Calls
  PROVE  /\ StageSound(Staged(call), records, written, late)
         /\ Grown(Current, Staged(call))
         /\ Range(call) \subseteq Staged(call).processed
<1>1. PICK start : start = Current
  OBVIOUS
<1>2. StageSound(start, records, written, late)
  <2>1. TablesSound(rows, records, written, late, ledger)
    BY DEF SendingSound
  <2>2. rows \in Seq(Row) /\ ledger \in [Keys -> Hashes \cup {NoHash}]
    BY <2>1 DEF TablesSound, TablesTyped
  <2>3. start \in Stages /\ start.rows = rows /\ start.ledger = ledger
    BY <1>1, <2>2 DEF Stages, StagingTyped, Current
  <2> QED BY <1>1, <2>1, <2>3 DEF StageSound
<1> QED BY <1>1, <1>2, StagedFacts DEF Current

(* addMessageTraces, with or without a flush under way. *)
LEMMA AddKeepsSending ==
  ASSUME SendingSound, StagingTyped, AllKept(Current), NEW call \in Calls,
         AddMessageTraces(call)
  PROVE  SendingSound'
<1>1. PICK s : s = Staged(call)
  OBVIOUS
<1>2. PICK count : count = CountHealthy(s.rows, records)
  OBVIOUS
<1>3. /\ mode' = mode /\ ledger' = s.ledger /\ written' = written /\ late' = late
  BY <1>1 DEF AddMessageTraces, outside
<1>4. /\ TablesSound(s.rows, records, written, late, s.ledger) /\ s.rows \in Seq(Row)
      /\ mode \in Modes /\ \A i \in DOMAIN rows : i \in DOMAIN s.rows /\ s.rows[i] = rows[i]
  BY <1>1, CallStaged DEF StageSound, SendingSound, TablesSound, TablesTyped, Grown, Current
<1>5. CASE StartFlush(AddRun(call), s.rows, count)
  <2>1. FlushSound'
    BY <1>3, <1>4, <1>5, AddRunIn, StartFlushKeepsFlush
  <2>2. TablesSound(rows', records', written, late, s.ledger)
    BY <1>4, <1>5, AdvanceKeepsTables DEF StartFlush
  <2> QED BY <1>3, <1>4, <2>1, <2>2 DEF SendingSound
<1>6. CASE rows' = s.rows /\ UNCHANGED <<records, flush>>
  <2>1. /\ DOMAIN rows \subseteq DOMAIN rows'
        /\ \A i \in DOMAIN rows : rows'[i] = rows[i]
    BY <1>4, <1>6
  <2>2. \A recs : HealthyFor(rows, recs, Target) \subseteq HealthyFor(rows', recs, Target)
    BY <2>1 DEF HealthyFor
  <2>3. Waiting =>
           /\ HealthyFor(rows, records \ {InFlight}, Target)
                \subseteq HealthyFor(rows', records' \ {InFlight}, Target)
           /\ InFlight \in records'
           /\ \A insert \in late' : insert.rows # {} => ~Names(InFlight, insert)
           /\ \A i \in Range(Batch) : written'[rows'[i].key][Target] = 0
    <3>1. SUFFICES ASSUME Waiting
                   PROVE  \A i \in Range(Batch) : written'[rows'[i].key][Target] = 0
      BY <1>3, <1>6, <2>2 DEF Waiting
    <3>2. Range(Batch) \subseteq DOMAIN rows
      BY <3>1, WaitingFacts DEF Waiting, HealthyFor
    <3> QED BY <1>3, <2>1, <3>1, <3>2 DEF Waiting
  <2>4. FlushSound'
    BY <1>3, <1>6, <2>1, <2>2, <2>3, FlushStays DEF SendingSound
  <2> QED BY <1>3, <1>4, <1>6, <2>4 DEF SendingSound
<1> QED BY <1>1, <1>2, <1>5, <1>6 DEF AddMessageTraces

(* The alarm. *)
LEMMA AlarmKeepsSending ==
  SendingSound /\ Alarm => SendingSound'
<1> SUFFICES ASSUME SendingSound, Alarm  PROVE  SendingSound'
  OBVIOUS
<1>1. /\ mode' = mode /\ ledger' = ledger /\ written' = written /\ late' = late
      /\ rows' = rows /\ records' = records
  BY DEF Alarm, stored, outside
<1>2. CASE flush' = NextTarget(AlarmRun, mode, rows, records)
  <2>1. mode \in Modes /\ mode \in Seq(Targets) /\ rows \in Seq(Row)
    BY BatcherAssumption DEF SendingSound, TablesSound, TablesTyped
  <2>2. PICK next : next = NextTarget(AlarmRun, mode, rows, records)
    OBVIOUS
  <2>3. next = NoFlush \/ Ready(next, rows, records, mode)
    BY <2>1, <2>2, NextTargetReady DEF Runs
  <2>4. FlushSound'
    BY <1>1, <1>2, <2>2, <2>3 DEF FlushSound
  <2> QED BY <1>1, <2>4 DEF SendingSound
<1>3. CASE UNCHANGED flush
  BY <1>1, <1>3, SendingStands
<1> QED BY <1>2, <1>3 DEF Alarm

(* The forced flush. *)
LEMMA ForceFlushKeepsSending ==
  SendingSound /\ ForceFlush => SendingSound'
<1> SUFFICES ASSUME SendingSound, ForceFlush  PROVE  SendingSound'
  OBVIOUS
<1>1. /\ mode' = mode /\ ledger' = ledger /\ written' = written /\ late' = late
      /\ StartFlush(ForceRun, rows, traceCount)
  BY DEF ForceFlush, stored, outside
<1>2. /\ mode \in Modes /\ rows \in Seq(Row)
      /\ TablesSound(rows, records, written, late, ledger)
  BY DEF SendingSound, TablesSound, TablesTyped
<1>3. FlushSound'
  BY <1>1, <1>2, StartFlushKeepsFlush DEF Runs
<1>4. TablesSound(rows', records', written, late, ledger)
  BY <1>1, <1>2, AdvanceKeepsTables DEF StartFlush
<1> QED BY <1>1, <1>2, <1>3, <1>4 DEF SendingSound

(* A crash leaves its insert to be stored later or never. *)
LEMMA CrashKeepsSending ==
  SendingSound /\ Crash => SendingSound'
<1> SUFFICES ASSUME SendingSound, Crash  PROVE  SendingSound'
  OBVIOUS
<1>1. /\ mode' = mode /\ ledger' = ledger /\ written' = written
      /\ rows' = rows /\ records' = records /\ flush' = NoFlush
  BY DEF Crash, stored
<1>2. TablesSound(rows, records, written, late', ledger)
  <2>1. CASE flush.at = "wait"
    <3>1. late' = late \cup {[target |-> Target, rows |-> Range(Batch)]}
      BY <2>1 DEF Crash
    <3> QED BY <2>1, <3>1, LeavingInFlight
  <2>2. CASE flush.at # "wait"
    <3>1. late' = late
      BY <2>2 DEF Crash
    <3> QED BY <3>1 DEF SendingSound
  <2> QED BY <2>1, <2>2
<1> QED BY <1>1, <1>2 DEF SendingSound, FlushSound

(* The constructor hands every open record to the operator. *)
LEMMA ConstructKeepsSending ==
  ASSUME SendingSound, Construct, flush = NoFlush
  PROVE  SendingSound'
<1>1. /\ ledger' = ledger /\ written' = written /\ late' = late /\ rows' = rows
      /\ flush' = NoFlush /\ mode' \in Modes
      /\ records' = {[r EXCEPT !.state = "blocked"] : r \in records}
  BY DEF Construct, stored, outside
<1>2. PICK t, r, s : t = rows /\ r = records /\ s = records'
  OBVIOUS
<1>3. r \subseteq RecordOf(t) /\ TablesSound(t, r, written, late, ledger)
  BY <1>2 DEF SendingSound, TablesSound, TablesTyped
<1>4. \A a \in r : /\ [a EXCEPT !.state = "blocked"] \in RecordOf(t)
                   /\ Names(a, [a EXCEPT !.state = "blocked"])
                   /\ Names([a EXCEPT !.state = "blocked"], a)
  BY <1>3 DEF RecordOf, Names
<1>5. s = {[a EXCEPT !.state = "blocked"] : a \in r}
  BY <1>1, <1>2
<1>6. s \in SUBSET RecordOf(t)
  BY <1>4, <1>5
<1>7. \A a \in r : \E b \in s : Names(b, a)
  BY <1>4, <1>5
<1>8. \A b \in s : \E a \in r : b = [a EXCEPT !.state = "blocked"] /\ Names(a, b)
  BY <1>4, <1>5
<1>9. ASSUME NEW a \in s, NEW b \in s, a # b
      PROVE  \E c, d \in r : c # d /\ Names(c, a) /\ Names(d, b)
  <2>1. PICK c \in r : a = [c EXCEPT !.state = "blocked"] /\ Names(c, a)
    BY <1>8
  <2>2. PICK d \in r : b = [d EXCEPT !.state = "blocked"] /\ Names(d, b)
    BY <1>8
  <2> QED BY <1>9, <2>1, <2>2
<1>10. TablesSound(t, s, written, late, ledger)
  BY <1>3, <1>6, <1>7, <1>8, <1>9, RelabelKeeps
<1> QED BY <1>1, <1>2, <1>10 DEF SendingSound, FlushSound

(* What is stored is stored once; the rows that wait are not. *)
LEMMA WaitingUnstored ==
  ASSUME SendingSound, Waiting, NEW ids \in SUBSET DOMAIN rows, NEW target,
         NEW u, StoredIn(u, written, KeysOf(rows, ids), target),
         target = Target => Range(Batch) \cap ids = {}
  PROVE  \A i \in Range(Batch) : i \in DOMAIN rows /\ u[rows[i].key][Target] = 0
<1>1. /\ rows \in Seq(Row) /\ Range(Batch) \subseteq DOMAIN rows /\ Target \in Targets
      /\ KeysSound(rows, ledger)
  BY WaitingFacts DEF Waiting, HealthyFor, TablesSound
<1>2. ASSUME NEW i \in Range(Batch)  PROVE  u[rows[i].key][Target] = 0
  <2>1. i \in DOMAIN rows /\ rows[i].key \in Keys
    BY <1>1, TableFacts
  <2>2. written[rows[i].key][Target] = 0
    BY DEF Waiting
  <2>3. ~(rows[i].key \in KeysOf(rows, ids) /\ Target = target)
    BY <1>1, <2>1, RowOfKey
  <2> QED BY <1>1, <2>1, <2>2, <2>3 DEF StoredIn
<1> QED BY <1>1, <1>2

(* Such an insert stores some of its rows. *)
LEMMA LateStoreKeepsSending ==
  ASSUME SendingSound, NEW insert \in late, LateStore(insert)
  PROVE  SendingSound'
<1>1. /\ mode' = mode /\ ledger' = ledger /\ rows' = rows /\ records' = records
      /\ flush' = flush /\ late' = late \ {insert}
  BY DEF LateStore, stored, memory
<1>2. PICK ids \in SUBSET insert.rows : Store(KeysIn(ids), insert.target)
  BY DEF LateStore
<1>3. /\ TablesSound(rows, records, written, late, ledger) /\ insert \in InsertOf(rows)
      /\ Unstored(rows, written, insert) /\ Covered(records, insert) /\ mode \in Modes
      /\ ids \in SUBSET DOMAIN rows
  BY DEF SendingSound, TablesSound, TablesTyped, LateSound, InsertOf
<1>4. StoredIn(written', written, KeysOf(rows, ids), insert.target)
  <2>1. PICK w \in [Keys -> [Targets -> 0..1]] : w = written
    BY <1>3 DEF TablesSound, TablesTyped
  <2>2. PICK keys : keys = KeysOf(rows, ids)
    OBVIOUS
  <2>3. KeysIn(ids) = keys
    BY <2>2 DEF KeysIn, KeysOf
  <2>4. \A k \in keys : w[k][insert.target] = 0
    BY <1>3, <2>1, <2>2 DEF KeysOf, Unstored
  <2>5. Store(keys, insert.target)
    BY <1>2, <2>3
  <2>6. StoredIn(written', w, keys, insert.target)
    BY <2>1, <2>4, <2>5, StoreFacts
  <2> QED BY <2>1, <2>2, <2>6
<1>5. PICK u : u = written'
  OBVIOUS
<1>6. TablesSound(rows, records, u, late \ {insert}, ledger)
  BY <1>3, <1>4, <1>5, LateStoringKeeps
<1>7. ASSUME Waiting
      PROVE  \A i \in Range(Batch) : i \in DOMAIN rows /\ u[rows[i].key][Target] = 0
  <2>1. insert.target = Target => Range(Batch) \cap ids = {}
    <3>1. SUFFICES ASSUME insert.target = Target, NEW i \in Range(Batch), i \in insert.rows
                   PROVE  FALSE
      OBVIOUS
    <3>2. PICK rec \in records : Names(rec, insert)
      BY <1>3, <3>1 DEF Covered
    <3>3. ~Names(InFlight, insert) /\ InFlight \in records
      BY <1>7, <3>1 DEF Waiting
    <3>4. InFlight.rows = Range(Batch) /\ InFlight.target = Target
      BY DEF InFlight
    <3>5. PICK x : x = InFlight
      OBVIOUS
    <3>6. x # rec /\ x \in records /\ x.target = rec.target /\ i \in x.rows \cap rec.rows
      BY <3>1, <3>2, <3>3, <3>4, <3>5 DEF Names
    <3> QED BY <1>3, <3>6 DEF TablesSound, RecordsDiffer
  <2> QED BY <1>3, <1>4, <1>5, <1>7, <2>1, WaitingUnstored
<1>8. FlushSound'
  BY <1>1, <1>5, <1>7, FlushStays DEF SendingSound, Waiting
<1> QED BY <1>1, <1>3, <1>5, <1>6, <1>8 DEF SendingSound

(* The operator marks the rows of a record, beside any flush. *)
LEMMA ConfirmWrittenKeepsSending ==
  ASSUME SendingSound, NEW r \in records, ConfirmWritten(r)
  PROVE  SendingSound'
<1>1. /\ mode' = mode /\ ledger' = ledger /\ flush' = flush /\ late' = late
      /\ records' = records \ {r} /\ r.state = "blocked"
      /\ rows' = DeleteFullySent(MarkSent(rows, r.rows, r.target), r.rows)
      /\ Settled(r) /\ Store(KeysIn(r.rows) \ StoredAt(r), r.target)
  BY DEF ConfirmWritten, stored
<1>2. /\ TablesSound(rows, records, written, late, ledger) /\ r \in RecordOf(rows)
      /\ rows \in Seq(Row) /\ mode \in Modes /\ r.rows \in SUBSET DOMAIN rows
      /\ r.target \in Targets /\ late \subseteq InsertOf(rows)
  BY DEF SendingSound, TablesSound, TablesTyped, RecordOf
<1>3. StoredIn(written', written, KeysOf(rows, r.rows), r.target)
  <2>1. PICK w \in [Keys -> [Targets -> 0..1]] : w = written
    BY <1>2 DEF TablesSound, TablesTyped
  <2>2. PICK keys, all : keys = KeysIn(r.rows) \ StoredAt(r) /\ all = KeysOf(rows, r.rows)
    OBVIOUS
  <2>3. KeysIn(r.rows) = all /\ keys \subseteq all
    BY <2>2 DEF KeysIn, KeysOf
  <2>4. \A k \in Keys : w[k][r.target] \in 0..1
    BY <1>2
  <2>5. \A k \in Keys : k \in all => (k \in keys <=> ~(w[k][r.target] > 0))
    BY <2>1, <2>2, <2>3 DEF StoredAt
  <2>6. \A k \in keys \cap Keys : w[k][r.target] = 0
    BY <2>3, <2>4, <2>5
  <2>7. \A k \in Keys : k \in all \ keys => w[k][r.target] = 1
    BY <2>4, <2>5
  <2>8. Store(keys, r.target)
    BY <1>1, <2>2
  <2>9. StoredIn(written', w, all, r.target)
    BY <2>1, <2>3, <2>6, <2>7, <2>8, StoreFacts
  <2> QED BY <2>1, <2>2, <2>9
<1>4. \A insert \in late : insert.rows # {} => ~Names(r, insert)
  <2>1. SUFFICES ASSUME NEW insert \in late, Names(r, insert)  PROVE  FALSE
    OBVIOUS
  <2>2. insert = [target |-> r.target, rows |-> r.rows]
    BY <1>2, <2>1 DEF InsertOf, Names
  <2> QED BY <1>1, <2>2 DEF Settled
<1>5. PICK u, marked : u = written' /\ marked = MarkSent(rows, r.rows, r.target)
  OBVIOUS
<1>6. TablesSound(marked, records \ {r}, u, late, ledger)
  BY <1>2, <1>3, <1>4, <1>5, StoringKeeps
<1>7. PICK after : after = DeleteFullySent(marked, r.rows)
  OBVIOUS
<1>8. TablesSound(after, records \ {r}, u, late, ledger)
  BY <1>2, <1>6, <1>7, DeleteKeeps
<1>9. /\ DOMAIN after = DOMAIN rows
      /\ \A i \in DOMAIN rows :
           /\ after[i].key = rows[i].key
           /\ after[i].sent = IF i \in r.rows THEN rows[i].sent \cup {r.target} ELSE rows[i].sent
           /\ after[i].gone => rows[i].gone \/ Range(mode) \subseteq after[i].sent
  <2>1. Marks(marked, rows, r.rows, r.target)
    BY <1>2, <1>5, MarkSentFacts
  <2>3. marked \in Seq(Row)
    BY <2>1 DEF Marks
  <2>2. /\ DOMAIN after = DOMAIN marked
        /\ \A i \in DOMAIN marked :
             /\ after[i].key = marked[i].key /\ after[i].sent = marked[i].sent
             /\ after[i].gone => marked[i].gone \/ Range(mode) \subseteq marked[i].sent
    BY <1>7, <2>3, DeleteFullySentFacts
  <2> QED BY <2>1, <2>2 DEF Marks
<1>10. ASSUME NEW recs \in SUBSET records, NEW tg \in Range(mode), tg = r.target => r \in recs
       PROVE  HealthyFor(rows, recs, tg) \subseteq HealthyFor(after, recs \ {r}, tg)
  <2>1. ASSUME NEW i \in HealthyFor(rows, recs, tg)
        PROVE  i \in HealthyFor(after, recs \ {r}, tg)
    <3>1. /\ i \in DOMAIN rows /\ ~rows[i].gone /\ tg \notin rows[i].sent
          /\ i \notin InOpenRecord(recs, tg)
      BY <2>1 DEF HealthyFor
    <3>2. ~(i \in r.rows /\ tg = r.target)
      BY <1>10, <3>1 DEF InOpenRecord
    <3>3. tg \notin after[i].sent /\ ~after[i].gone
      BY <1>9, <3>1, <3>2
    <3>4. i \notin InOpenRecord(recs \ {r}, tg)
      BY <3>1 DEF InOpenRecord
    <3> QED BY <1>9, <3>1, <3>3, <3>4 DEF HealthyFor
  <2> QED BY <2>1
<1>11. FlushSound'
  <2>1. rows' = after /\ records' = records \ {r} /\ written' = u
    BY <1>1, <1>5, <1>7
  <2>2. CASE flush = NoFlush
    BY <1>1, <2>2 DEF FlushSound
  <2>3. CASE Ready(flush, rows, records, mode)
    <3>1. Target \in Range(mode)
      BY <2>3, BatchFacts DEF Ready
    <3>2. HealthyFor(rows, records, Target) \subseteq HealthyFor(rows', records', Target)
      BY <1>10, <2>1, <3>1
    <3>3. ~Waiting
      BY <2>3 DEF Ready, Waiting
    <3> QED BY <1>1, <1>9, <2>1, <3>2, <3>3, FlushStays DEF SendingSound
  <2>4. CASE Waiting
    <3>1. PICK x : x = InFlight
      OBVIOUS
    <3>2. /\ x \in records /\ x.rows = Range(Batch) /\ x.target = Target
          /\ x.state = "in_flight" /\ Target \in Range(mode)
      <4>1. Target \in Range(mode)
        BY <2>4, BatchFacts DEF Waiting
      <4> QED BY <2>4, <3>1, <4>1 DEF Waiting, InFlight
    <3>3. x # r
      BY <1>1, <3>2
    <3>4. HealthyFor(rows, records, Target) \subseteq HealthyFor(rows', records', Target)
      BY <1>10, <2>1, <3>2
    <3>5. HealthyFor(rows, records \ {x}, Target)
            \subseteq HealthyFor(rows', records' \ {x}, Target)
      <4>1. r \in records \ {x} /\ records \ {x} \in SUBSET records
        BY <3>3
      <4>2. (records \ {x}) \ {r} = records' \ {x}
        BY <2>1
      <4>3. PICK recs \in SUBSET records : recs = records \ {x}
        OBVIOUS
      <4>4. HealthyFor(rows, recs, Target) \subseteq HealthyFor(after, recs \ {r}, Target)
        BY <1>10, <3>2, <4>1, <4>3
      <4> QED BY <2>1, <4>2, <4>3, <4>4
    <3>6. r.target = Target => Range(Batch) \cap r.rows = {}
      BY <1>2, <3>2, <3>3 DEF TablesSound, RecordsDiffer
    <3>7. \A i \in Range(Batch) : i \in DOMAIN rows /\ u[rows[i].key][Target] = 0
      BY <1>2, <1>3, <1>5, <2>4, <3>6, WaitingUnstored
    <3>8. \A i \in Range(Batch) : written'[rows'[i].key][Target] = 0
      BY <1>9, <2>1, <3>7
    <3> QED BY <1>1, <1>9, <2>1, <2>4, <3>1, <3>2, <3>3, <3>4, <3>5, <3>8, FlushStays
            DEF SendingSound, Waiting
  <2> QED BY <2>2, <2>3, <2>4 DEF SendingSound, FlushSound
<1> QED BY <1>1, <1>2, <1>5, <1>7, <1>8, <1>11 DEF SendingSound

(* The operator releases them. *)
LEMMA ConfirmNotWrittenKeepsSending ==
  ASSUME SendingSound, NEW r \in records, ConfirmNotWritten(r)
  PROVE  SendingSound'
<1>1. /\ mode' = mode /\ ledger' = ledger /\ flush' = flush /\ late' = late
      /\ records' = records \ {r} /\ r.state = "blocked" /\ rows' = rows /\ written' = written
      /\ Settled(r) /\ StoredAt(r) = {}
  BY DEF ConfirmNotWritten, stored, outside
<1>2. /\ TablesSound(rows, records, written, late, ledger) /\ r \in RecordOf(rows)
      /\ rows \in Seq(Row) /\ mode \in Modes /\ r.rows \in SUBSET DOMAIN rows
      /\ r.target \in Targets /\ late \subseteq InsertOf(rows)
      /\ written \in [Keys -> [Targets -> 0..1]]
  BY DEF SendingSound, TablesSound, TablesTyped, RecordOf
<1>3. \A i \in r.rows : written[rows[i].key][r.target] = 0
  <2>1. ASSUME NEW i \in r.rows  PROVE  written[rows[i].key][r.target] = 0
    <3>1. rows[i].key \in Keys
      BY <1>2, TableFacts
    <3>2. written[rows[i].key][r.target] \in 0..1
      BY <1>2, <3>1
    <3>3. ~(written[rows[i].key][r.target] > 0)
      BY <1>1 DEF StoredAt, KeysIn
    <3> QED BY <3>2, <3>3
  <2> QED BY <2>1
<1>4. \A insert \in late : insert.rows # {} => ~Names(r, insert)
  <2>1. SUFFICES ASSUME NEW insert \in late, Names(r, insert)  PROVE  FALSE
    OBVIOUS
  <2>2. insert = [target |-> r.target, rows |-> r.rows]
    BY <1>2, <2>1 DEF InsertOf, Names
  <2> QED BY <1>1, <2>2 DEF Settled
<1>5. TablesSound(rows, records \ {r}, written, late, ledger)
  BY <1>2, <1>3, <1>4, DroppingKeeps
<1>6. InFlight # r
  BY <1>1 DEF InFlight
<1>7. FlushSound'
  <2>1. /\ HealthyFor(rows, records, Target) \subseteq HealthyFor(rows, records', Target)
        /\ HealthyFor(rows, records \ {InFlight}, Target)
             \subseteq HealthyFor(rows, records' \ {InFlight}, Target)
    BY <1>1, HealthyWithout
  <2> QED BY <1>1, <1>6, <2>1, FlushStays DEF SendingSound, Waiting
<1> QED BY <1>1, <1>2, <1>5, <1>7 DEF SendingSound

-----------------------------------------------------------------------------
(* The memory, the queue and the bounds *)

MemoryTyped ==
  /\ alarm \in BOOLEAN /\ flag \in BOOLEAN /\ overdue \in BOOLEAN
  /\ tails \subseteq Runs /\ traceCount \in 0..Len(rows)
RestTyped ==
  /\ StagingTyped /\ alive \in BOOLEAN /\ returning \subseteq Calls
  /\ unacked \subseteq Messages
  /\ faults \in 0..MaxFaults /\ crashes \in 0..MaxCrashes
Idle == ~alive => flush = NoFlush /\ tails = {} /\ returning = {}

(* Healthy rows are rows. *)
LEMMA CountFacts ==
  ASSUME NEW t \in Seq(Row), NEW recs, NEW targets
  PROVE  Cardinality(Healthy(t, recs, targets)) \in 0..Len(t)
<1>1. DOMAIN t = 1..Len(t) /\ Len(t) \in Nat
  BY TableFacts
<1>2. Healthy(t, recs, targets) \subseteq 1..Len(t)
  BY <1>1 DEF Healthy, HealthyFor
<1>3. IsFiniteSet(1..Len(t)) /\ Cardinality(1..Len(t)) = Len(t)
  BY <1>1, FS_Interval
<1>4. PICK ids : ids = Healthy(t, recs, targets)
  OBVIOUS
<1>5. IsFiniteSet(ids) /\ Cardinality(ids) <= Len(t) /\ Cardinality(ids) \in Nat
  BY <1>2, <1>3, <1>4, FS_Subset, FS_CardinalityType
<1> QED BY <1>1, <1>4, <1>5

(* Advance sets the memory to values of its types. *)
LEMMA AdvanceTyped ==
  ASSUME MemoryTyped, NEW next, NEW by \in Runs, NEW table \in Seq(Row), NEW recs, NEW count,
         count \in 0..Len(table), Advance(next, by, table, recs, count)
  PROVE  MemoryTyped'
<1>1. CASE next = NoFlush
  <2>1. /\ rows' = DeleteFullySent(table, DOMAIN table)
        /\ traceCount' = CountHealthy(rows', recs)
        /\ overdue' = FALSE /\ alarm' = (alarm /\ ~flag) /\ flag' = FALSE
        /\ tails' = tails \cup {by}
    BY <1>1 DEF Advance
  <2>2. rows' \in Seq(Row)
    BY <2>1, DeleteFullySentFacts
  <2>3. traceCount' \in 0..Len(rows')
    BY <2>1, <2>2, CountFacts DEF CountHealthy
  <2> QED BY <2>1, <2>3 DEF MemoryTyped
<1>2. CASE next # NoFlush
  BY <1>2 DEF Advance, MemoryTyped
<1> QED BY <1>1, <1>2

(* So does the end of a batch. *)
LEMMA EndBatchTyped ==
  ASSUME MemoryTyped, NEW f, f.by \in Runs, NEW table \in Seq(Row), Len(table) = Len(rows),
         NEW recs, EndBatch(f, table, recs)
  PROVE  MemoryTyped'
<1>1. PICK next : Advance(next, f.by, table, recs, traceCount)
  BY DEF EndBatch
<1>2. traceCount \in 0..Len(table)
  BY DEF MemoryTyped
<1> QED BY <1>1, <1>2, AdvanceTyped

(* So does scheduleFlush. *)
LEMMA ScheduleTyped ==
  ASSUME NEW wanted, alarm \in BOOLEAN, flag \in BOOLEAN, ScheduleFlush(wanted)
  PROVE  alarm' \in BOOLEAN /\ flag' \in BOOLEAN
BY DEF ScheduleFlush

(* Steps that leave the memory alone. *)
LEMMA MemoryStands ==
  ASSUME MemoryTyped, UNCHANGED <<rows, alarm, traceCount, flag, tails, overdue>>
  PROVE  MemoryTyped'
BY DEF MemoryTyped

(* A sound flush is a flush record. *)
LEMMA FlushTyped ==
  ASSUME FlushSound
  PROVE  flush \in FlushRecord(DOMAIN rows)
BY NoFlushIsTyped DEF FlushSound, Ready, Waiting, Holds

(* The memory after a batch is sent or refused. *)
LEMMA SendBatchTyped ==
  SendingSound /\ MemoryTyped /\ SendBatch => MemoryTyped'
<1> SUFFICES ASSUME SendingSound, MemoryTyped, SendBatch  PROVE  MemoryTyped'
  OBVIOUS
<1>1. rows \in Seq(Row) /\ flush.by \in Runs
  BY FlushTyped DEF SendingSound, TablesSound, TablesTyped, FlushRecord
<1>2. CASE UNCHANGED <<rows, alarm, traceCount, flag, tails, overdue>>
  BY <1>2, MemoryStands
<1>3. CASE EndBatch(flush, rows, records \cup {Blocked})
  BY <1>1, <1>3, EndBatchTyped
<1> QED BY <1>2, <1>3 DEF SendBatch

(* The memory after an answer. *)
LEMMA InsertAnsweredTyped ==
  SendingSound /\ MemoryTyped /\ InsertAnswered => MemoryTyped'
<1> SUFFICES ASSUME SendingSound, MemoryTyped, InsertAnswered  PROVE  MemoryTyped'
  OBVIOUS
<1>1. rows \in Seq(Row) /\ flush.by \in Runs /\ HasShape(flush)
  BY FlushTyped DEF SendingSound, TablesSound, TablesTyped, FlushRecord, HasShape
<1>2. CASE InsertConfirmed
  <2>1. PICK table : table = MarkSent(rows, Range(Batch), Target)
    OBVIOUS
  <2>2. Target \in Targets
    BY <1>2, WaitingFacts DEF InsertConfirmed
  <2>3. Marks(table, rows, Range(Batch), Target)
    BY <1>1, <2>1, <2>2, MarkSentFacts
  <2>4. table \in Seq(Row) /\ Len(table) = Len(rows)
    BY <2>3 DEF Marks
  <2> QED BY <1>1, <1>2, <2>1, <2>4, EndBatchTyped DEF InsertConfirmed
<1>3. CASE InsertRefusedForNow
  <2>1. PICK f : f = [flush EXCEPT !.retry = TRUE]
    OBVIOUS
  <2>2. f.by = flush.by
    BY <1>1, <2>1 DEF HasShape
  <2> QED BY <1>1, <1>3, <2>1, <2>2, EndBatchTyped DEF InsertRefusedForNow
<1>4. CASE InsertTooLarge
  BY <1>4, MemoryStands DEF InsertTooLarge
<1>5. CASE InsertRejected
  BY <1>1, <1>5, EndBatchTyped DEF InsertRejected
<1>6. CASE InsertUncertain
  BY <1>1, <1>6, EndBatchTyped DEF InsertUncertain
<1> QED BY <1>2, <1>3, <1>4, <1>5, <1>6 DEF InsertAnswered

(* The memory and the staging tables after a call. *)
LEMMA AddTyped ==
  ASSUME SendingSound, MemoryTyped, StagingTyped, AllKept(Current), NEW call \in Calls,
         AddMessageTraces(call)
  PROVE  MemoryTyped' /\ StagingTyped'
<1>1. PICK s : s = Staged(call)
  OBVIOUS
<1>2. PICK count : count = CountHealthy(s.rows, records)
  OBVIOUS
<1>3. s \in Stages /\ s.rows \in Seq(Row)
  BY <1>1, CallStaged DEF StageSound, Stages
<1>4. StagingTyped'
  BY <1>1, <1>3 DEF AddMessageTraces, StagingTyped, Stages
<1>5. count \in 0..Len(s.rows)
  BY <1>2, <1>3, CountFacts DEF CountHealthy
<1>6. CASE StartFlush(AddRun(call), s.rows, count)
  <2>1. PICK next : Advance(next, AddRun(call), s.rows, records, count)
    BY <1>6 DEF StartFlush
  <2>2. MemoryTyped'
    BY <1>3, <1>5, <2>1, AddRunIn, AdvanceTyped
  <2> QED BY <1>4, <2>2
<1>7. ASSUME NEW wanted, rows' = s.rows, traceCount' = count, ScheduleFlush(wanted),
             UNCHANGED <<tails, overdue>>
      PROVE  MemoryTyped'
  <2>1. alarm' \in BOOLEAN /\ flag' \in BOOLEAN
    BY <1>7, ScheduleTyped DEF MemoryTyped
  <2> QED BY <1>5, <1>7, <2>1 DEF MemoryTyped
<1>8. CASE /\ rows' = s.rows /\ traceCount' = count
           /\ ScheduleFlush(count > 0 /\ ~(count >= BatchSize /\ Len(s.rows) > Len(rows)) /\ ~alarm)
           /\ UNCHANGED <<tails, overdue>>
  BY <1>4, <1>7, <1>8
<1> QED BY <1>1, <1>2, <1>6, <1>8, <1>4 DEF AddMessageTraces

(* The memory after a forced flush starts. *)
LEMMA ForceFlushTyped ==
  SendingSound /\ MemoryTyped /\ ForceFlush => MemoryTyped'
<1> SUFFICES ASSUME SendingSound, MemoryTyped, ForceFlush  PROVE  MemoryTyped'
  OBVIOUS
<1>1. rows \in Seq(Row) /\ ForceRun \in Runs
  BY DEF SendingSound, TablesSound, TablesTyped, Runs
<1>2. PICK next : Advance(next, ForceRun, rows, records, traceCount)
  BY DEF ForceFlush, StartFlush
<1>3. traceCount \in 0..Len(rows)
  BY DEF MemoryTyped
<1> QED BY <1>1, <1>2, <1>3, AdvanceTyped

(* The memory after the end of a flush. *)
LEMMA LogShippedTyped ==
  ASSUME MemoryTyped, NEW by \in tails, LogShipped(by)
  PROVE  MemoryTyped'
<1>1. PICK wanted : ScheduleFlush(wanted)
  BY DEF LogShipped
<1>2. alarm' \in BOOLEAN /\ flag' \in BOOLEAN
  BY <1>1, ScheduleTyped DEF MemoryTyped
<1> QED BY <1>2 DEF LogShipped, MemoryTyped

(* A count of healthy rows is at most their number. *)
LEMMA CountedTyped ==
  ASSUME rows' \in Seq(Row), NEW recs, NEW targets,
         traceCount' = Cardinality(Healthy(rows', recs, targets))
  PROVE  traceCount' \in 0..Len(rows')
BY CountFacts

(* The memory after the operator decided. *)
LEMMA ConfirmTyped ==
  ASSUME SendingSound, MemoryTyped, NEW r \in records, ConfirmWritten(r) \/ ConfirmNotWritten(r),
         rows' \in Seq(Row)
  PROVE  MemoryTyped'
<1>1. traceCount' \in 0..Len(rows')
  BY CountedTyped DEF ConfirmWritten, ConfirmNotWritten, CountHealthy
<1> QED BY <1>1 DEF ConfirmWritten, ConfirmNotWritten, MemoryTyped

(* The memory after a crash and after the constructor. *)
LEMMA RestartTyped ==
  ASSUME SendingSound, MemoryTyped, Crash \/ Construct
  PROVE  MemoryTyped'
<1>1. rows \in Seq(Row) /\ Len(rows) \in Nat
  BY TableFacts DEF SendingSound, TablesSound, TablesTyped
<1>2. CASE Crash
  <2>1. alarm' = (alarm \/ AlarmRunning)
    BY <1>2 DEF Crash
  <2>3. /\ rows' = rows /\ traceCount' = 0 /\ flag' = FALSE /\ tails' = {}
        /\ overdue' = overdue
    BY <1>2 DEF Crash
  <2>2. alarm' \in BOOLEAN
    <3>1. ASSUME alarm \/ AlarmRunning  PROVE  alarm' = TRUE
      BY <2>1, <3>1 DEF AlarmRunning
    <3>2. ASSUME ~(alarm \/ AlarmRunning)  PROVE  alarm' = FALSE
      BY <2>1, <3>2 DEF AlarmRunning
    <3> QED BY <3>1, <3>2
  <2>4. flag' \in BOOLEAN
    BY <2>3
  <2>6. tails' \subseteq Runs
    BY <2>3
  <2>7. traceCount' \in 0..Len(rows')
    BY <1>1, <2>3
  <2>5. overdue' \in BOOLEAN
    BY <2>3 DEF MemoryTyped
  <2> QED BY <2>2, <2>4, <2>5, <2>6, <2>7 DEF MemoryTyped
<1>3. CASE Construct
  <2>1. rows' = rows
    BY <1>3 DEF Construct
  <2>2. traceCount' \in 0..Len(rows')
    BY <1>1, <1>3, <2>1, CountedTyped DEF Construct
  <2>3. alarm' \in BOOLEAN /\ flag' \in BOOLEAN
    BY <1>3 DEF Construct, MemoryTyped
  <2> QED BY <1>3, <2>1, <2>2, <2>3 DEF Construct, MemoryTyped
<1> QED BY <1>2, <1>3

-----------------------------------------------------------------------------
(* What calls staged, and which calls run *)

RunsKnown == \A call \in Calls : Running(call) => Range(call) \subseteq processed
QueueSound ==
  AllKept(Current) /\ Messages \ unacked \subseteq processed /\ RunsKnown

(* A flush that goes on is run by who started it. *)
LEMMA NextTargetBy ==
  ASSUME NEW by, NEW targets, NEW table, NEW recs
  PROVE  LET next == NextTarget(by, targets, table, recs)
         IN  next = NoFlush \/ next.by = by
BY DEF NextTarget

(* The same of its batches. *)
LEMMA NextBatchBy ==
  ASSUME NEW f, HasShape(f), NEW table, NEW recs
  PROVE  LET next == NextBatch(f, table, recs)
         IN  next = NoFlush \/ next.by = f.by
<1>1. CASE f.stack # <<>>
  BY <1>1 DEF NextBatch, HasShape
<1>2. CASE f.stack = <<>> /\ (f.retry \/ f.batches = <<>>)
  BY <1>2, NextTargetBy DEF NextBatch
<1>3. CASE f.stack = <<>> /\ ~(f.retry \/ f.batches = <<>>)
  BY <1>3 DEF NextBatch, HasShape
<1> QED BY <1>1, <1>2, <1>3

(* The run of a call tells which call it is. *)
LEMMA AddRunDiffers ==
  ASSUME NEW c, NEW d
  PROVE  /\ AddRun(c) = AddRun(d) => c = d
         /\ AddRun(c).call = c /\ AddRun(c).kind = "add"
         /\ AddRun(c) # AlarmRun /\ AddRun(c) # ForceRun
<1>1. AddRun(c).call = c /\ AddRun(d).call = d /\ AddRun(c).kind = "add"
  BY DEF AddRun
<1>2. AlarmRun.kind = "alarm" /\ ForceRun.kind = "force"
  BY DEF AlarmRun, ForceRun
<1> QED BY <1>1, <1>2

(* Where a flush goes on, it is still the same run's. *)
LEMMA AdvanceRuns ==
  ASSUME NEW next, NEW by, NEW table, NEW recs, NEW count, next = NoFlush \/ next.by = by,
         Advance(next, by, table, recs, count), returning' = returning,
         NEW call \in Calls, Running(call)'
  PROVE  AddRun(call) \in tails \/ call \in returning \/ by = AddRun(call)
<1>1. CASE next = NoFlush
  BY <1>1 DEF Advance, Running, FlushInProgress, NoFlush
<1>2. CASE next # NoFlush
  BY <1>2 DEF Advance, Running
<1> QED BY <1>1, <1>2

(* The end of a batch starts no run. *)
LEMMA EndBatchRuns ==
  ASSUME NEW f, HasShape(f), f.by = flush.by, FlushInProgress, NEW table, NEW recs,
         EndBatch(f, table, recs), returning' = returning, NEW call \in Calls, Running(call)'
  PROVE  Running(call)
<1>1. PICK popped : popped = [f EXCEPT !.stack = Tail(@)]
  OBVIOUS
<1>2. HasShape(popped) /\ popped.by = f.by
  BY <1>1 DEF HasShape
<1>3. PICK next : next = NextBatch(popped, table, recs)
  OBVIOUS
<1>4. next = NoFlush \/ next.by = f.by
  BY <1>2, <1>3, NextBatchBy
<1>5. Advance(next, f.by, table, recs, traceCount)
  BY <1>1, <1>3 DEF EndBatch
<1>6. AddRun(call) \in tails \/ call \in returning \/ f.by = AddRun(call)
  BY <1>4, <1>5, AdvanceRuns
<1> QED BY <1>6 DEF Running

(* Nor does a step inside the flush. *)
LEMMA StandingRuns ==
  ASSUME tails' = tails, returning' = returning, flush'.by = flush.by \/ flush' = NoFlush,
         FlushInProgress, NEW call, Running(call)'
  PROVE  Running(call)
BY DEF Running, NoFlush, FlushInProgress

(* Where nothing is staged and no run starts, nothing is owed anew. *)
LEMMA QueueKeeps ==
  ASSUME QueueSound, UNCHANGED <<stored, unacked>>,
         \A call \in Calls : Running(call)' => Running(call)
  PROVE  QueueSound'
<1>1. /\ processed' = processed /\ ledger' = ledger /\ repairs' = repairs
      /\ unacked' = unacked
  BY DEF stored
<1>2. AllKept(Current')
  BY <1>1 DEF QueueSound, AllKept, IsKept, Current
<1>3. RunsKnown'
  BY <1>1 DEF QueueSound, RunsKnown
<1> QED BY <1>1, <1>2, <1>3 DEF QueueSound

(* Sending starts no run. *)
LEMMA SendBatchKeepsQueue ==
  SendingSound /\ QueueSound /\ SendBatch => QueueSound'
<1> SUFFICES ASSUME SendingSound, QueueSound, SendBatch  PROVE  QueueSound'
  OBVIOUS
<1>1. HasShape(flush) /\ FlushInProgress /\ returning' = returning /\ UNCHANGED <<stored, unacked>>
  BY FlushTyped DEF SendingSound, FlushRecord, HasShape, SendBatch, outside, FlushInProgress
<1>2. ASSUME NEW call \in Calls, Running(call)'  PROVE  Running(call)
  <2>1. CASE flush' = [flush EXCEPT !.at = "wait"] /\ tails' = tails
    <3>1. flush'.by = flush.by
      BY <1>1, <2>1 DEF HasShape
    <3> QED BY <1>1, <1>2, <2>1, <3>1, StandingRuns
  <2>2. CASE SendHalves /\ tails' = tails
    <3>1. flush'.by = flush.by
      BY <1>1, <2>2 DEF HasShape, SendHalves
    <3> QED BY <1>1, <1>2, <2>2, <3>1, StandingRuns
  <2>3. CASE EndBatch(flush, rows, records \cup {Blocked})
    BY <1>1, <1>2, <2>3, EndBatchRuns
  <2> QED BY <2>1, <2>2, <2>3 DEF SendBatch
<1> QED BY <1>1, <1>2, QueueKeeps

(* An answer starts no run. *)
LEMMA InsertAnsweredKeepsQueue ==
  SendingSound /\ QueueSound /\ InsertAnswered => QueueSound'
<1> SUFFICES ASSUME SendingSound, QueueSound, InsertAnswered  PROVE  QueueSound'
  OBVIOUS
<1>1. /\ HasShape(flush) /\ FlushInProgress /\ returning' = returning
      /\ UNCHANGED <<stored, unacked>>
  BY FlushTyped
     DEF SendingSound, FlushRecord, HasShape, InsertAnswered, InsertConfirmed,
         InsertRefusedForNow, InsertTooLarge, InsertRejected, InsertUncertain, outside,
         FlushInProgress
<1>2. ASSUME NEW call \in Calls, Running(call)'  PROVE  Running(call)
  <2>1. CASE InsertConfirmed \/ InsertRejected \/ InsertUncertain
    <3>1. PICK table, recs : EndBatch(flush, table, recs)
      BY <2>1 DEF InsertConfirmed, InsertRejected, InsertUncertain
    <3> QED BY <1>1, <1>2, <3>1, EndBatchRuns
  <2>2. CASE InsertRefusedForNow
    <3>1. PICK f : f = [flush EXCEPT !.retry = TRUE]
      OBVIOUS
    <3>2. HasShape(f) /\ f.by = flush.by
      BY <1>1, <3>1 DEF HasShape
    <3>3. EndBatch(f, rows, records \ {InFlight})
      BY <2>2, <3>1 DEF InsertRefusedForNow
    <3> QED BY <1>1, <1>2, <3>2, <3>3, EndBatchRuns
  <2>3. CASE InsertTooLarge
    <3>1. flush'.by = flush.by /\ tails' = tails
      BY <1>1, <2>3 DEF HasShape, SendHalves, InsertTooLarge
    <3> QED BY <1>1, <1>2, <3>1, StandingRuns
  <2> QED BY <2>1, <2>2, <2>3 DEF InsertAnswered
<1> QED BY <1>1, <1>2, QueueKeeps

(* A call has staged its messages when it runs on. *)
LEMMA AddKeepsQueue ==
  ASSUME SendingSound, StagingTyped, QueueSound, NEW call \in Calls, AddMessageTraces(call)
  PROVE  QueueSound'
<1>1. PICK s : s = Staged(call)
  OBVIOUS
<1>2. /\ AllKept(s) /\ processed \subseteq s.processed /\ Range(call) \subseteq s.processed
  BY <1>1, CallStaged DEF QueueSound, StageSound, Grown, Current
<1>3. /\ processed' = s.processed /\ ledger' = s.ledger /\ repairs' = s.repairs
      /\ unacked' = unacked
  BY <1>1 DEF AddMessageTraces, outside
<1>4. AllKept(Current')
  BY <1>2, <1>3 DEF AllKept, IsKept, Current
<1>5. ASSUME NEW other \in Calls, Running(other)'  PROVE  other = call \/ Running(other)
  <2>1. CASE /\ StartFlush(AddRun(call), s.rows, CountHealthy(s.rows, records))
             /\ returning' = returning
    <3>1. PICK next : next = NextTarget(AddRun(call), mode, s.rows, records)
      OBVIOUS
    <3>2. Advance(next, AddRun(call), s.rows, records, CountHealthy(s.rows, records))
      BY <2>1, <3>1 DEF StartFlush
    <3>3. next = NoFlush \/ next.by = AddRun(call)
      BY <3>1, NextTargetBy
    <3>4. AddRun(other) \in tails \/ other \in returning \/ AddRun(call) = AddRun(other)
      BY <1>5, <2>1, <3>2, <3>3, AdvanceRuns
    <3> QED BY <3>4, AddRunDiffers DEF Running
  <2>2. CASE returning' = returning \cup {call} /\ UNCHANGED <<flush, tails>>
    BY <1>5, <2>2 DEF Running, FlushInProgress
  <2> QED BY <1>1, <2>1, <2>2 DEF AddMessageTraces
<1>6. RunsKnown'
  <2>1. ASSUME NEW other \in Calls, Running(other)'  PROVE  Range(other) \subseteq processed'
    BY <1>2, <1>3, <1>5, <2>1 DEF QueueSound, RunsKnown
  <2> QED BY <2>1 DEF RunsKnown
<1> QED BY <1>2, <1>3, <1>4, <1>6 DEF QueueSound

(* Only staged messages are acknowledged. *)
LEMMA ReturnKeepsQueue ==
  ASSUME QueueSound, NEW call \in Calls, Return(call)
  PROVE  QueueSound'
<1>1. /\ processed' = processed /\ ledger' = ledger /\ repairs' = repairs
      /\ flush' = flush /\ tails' = tails /\ returning' \subseteq returning
      /\ unacked' = unacked \/ unacked' = unacked \ Range(call)
  BY DEF Return, stored
<1>2. Range(call) \subseteq processed
  BY DEF QueueSound, RunsKnown, Running, Return
<1>3. AllKept(Current')
  BY <1>1 DEF QueueSound, AllKept, IsKept, Current
<1>4. RunsKnown'
  BY <1>1 DEF QueueSound, RunsKnown, Running, FlushInProgress
<1> QED BY <1>1, <1>2, <1>3, <1>4 DEF QueueSound

(* The end of a flush answers the call that ran it. *)
LEMMA LogShippedKeepsQueue ==
  ASSUME QueueSound, MemoryTyped, NEW by \in tails, LogShipped(by)
  PROVE  QueueSound'
<1>1. /\ UNCHANGED <<stored, unacked>> /\ flush' = flush /\ tails' = tails \ {by}
      /\ returning' = returning \cup (IF by.kind = "add" THEN {by.call} ELSE {})
  BY DEF LogShipped, outside
<1>2. by.kind = "add" => by = AddRun(by.call)
  <2>1. by \in Runs
    BY DEF MemoryTyped
  <2>2. CASE by = AlarmRun \/ by = ForceRun
    BY <2>2 DEF AlarmRun, ForceRun
  <2>3. CASE \E c \in Calls : by = AddRun(c)
    BY <2>3, AddRunDiffers
  <2> QED BY <2>1, <2>2, <2>3 DEF Runs
<1>3. ASSUME NEW call \in Calls, Running(call)'  PROVE  Running(call)
  BY <1>1, <1>2, <1>3 DEF Running, FlushInProgress
<1> QED BY <1>1, <1>3, QueueKeeps

(* No other step stages, acknowledges or starts a call. *)
LEMMA RestKeepsQueue ==
  ASSUME QueueSound,
         \/ Alarm \/ ForceFlush \/ Crash \/ Construct \/ TimePasses
         \/ \E insert \in late : LateStore(insert)
         \/ \E r \in records : ConfirmWritten(r) \/ ConfirmNotWritten(r)
         \/ UNCHANGED batcherVars
  PROVE  QueueSound'
<1>1. CASE Alarm
  <2>1. /\ UNCHANGED <<stored, unacked>> /\ tails' = tails /\ returning' = returning
        /\ flush' = flush \/ flush' = NextTarget(AlarmRun, mode, rows, records)
    BY <1>1 DEF Alarm, outside
  <2>2. PICK next : next = NextTarget(AlarmRun, mode, rows, records)
    OBVIOUS
  <2>3. next = NoFlush \/ next.by = AlarmRun
    BY <2>2, NextTargetBy
  <2>4. ASSUME NEW call \in Calls, Running(call)'  PROVE  Running(call)
    <3>1. CASE flush' = flush
      BY <2>1, <2>4, <3>1 DEF Running, FlushInProgress
    <3>2. CASE flush' = next
      BY <2>1, <2>3, <2>4, <3>2, AddRunDiffers DEF Running, FlushInProgress, NoFlush
    <3> QED BY <2>1, <2>2, <3>1, <3>2
  <2> QED BY <2>1, <2>4, QueueKeeps
<1>2. CASE ForceFlush
  <2>1. UNCHANGED <<stored, unacked>> /\ returning' = returning
    BY <1>2 DEF ForceFlush, outside
  <2>2. PICK next : /\ next = NextTarget(ForceRun, mode, rows, records)
                    /\ Advance(next, ForceRun, rows, records, traceCount)
    BY <1>2 DEF ForceFlush, StartFlush
  <2>3. next = NoFlush \/ next.by = ForceRun
    BY <2>2, NextTargetBy
  <2>4. ASSUME NEW call \in Calls, Running(call)'  PROVE  Running(call)
    <3>1. AddRun(call) \in tails \/ call \in returning \/ ForceRun = AddRun(call)
      BY <2>1, <2>2, <2>3, <2>4, AdvanceRuns
    <3> QED BY <3>1, AddRunDiffers DEF Running
  <2> QED BY <2>1, <2>4, QueueKeeps
<1>3. CASE Crash
  <2>1. /\ UNCHANGED <<stored, unacked>> /\ flush' = NoFlush /\ tails' = {} /\ returning' = {}
    BY <1>3 DEF Crash
  <2>2. \A call \in Calls : ~Running(call)'
    BY <2>1 DEF Running, FlushInProgress, NoFlush
  <2> QED BY <2>1, <2>2, QueueKeeps
<1>4. CASE \/ Construct \/ TimePasses \/ UNCHANGED batcherVars
           \/ \E insert \in late : LateStore(insert)
           \/ \E r \in records : ConfirmWritten(r) \/ ConfirmNotWritten(r)
  <2>1. /\ UNCHANGED <<stored, unacked>> /\ flush' = flush /\ tails' = tails
        /\ returning' = returning
    BY <1>4 DEF Construct, TimePasses, LateStore, ConfirmWritten, ConfirmNotWritten,
                batcherVars, memory, outside
  <2>2. \A call \in Calls : Running(call)' => Running(call)
    BY <2>1 DEF Running, FlushInProgress
  <2> QED BY <2>1, <2>2, QueueKeeps
<1> QED BY <1>1, <1>2, <1>3, <1>4

-----------------------------------------------------------------------------
(* The whole invariant *)

ShardInv ==
  SendingSound /\ MemoryTyped /\ RestTyped /\ Idle /\ QueueSound

(* An empty shard is sound. *)
LEMMA ShardAtStart == BatcherInit => ShardInv
<1> SUFFICES ASSUME BatcherInit  PROVE  ShardInv
  OBVIOUS
<1>1. /\ processed = {} /\ repairs = {} /\ ledger = [k \in Keys |-> NoHash]
      /\ rows = <<>> /\ records = {} /\ late = {} /\ mode \in Modes
      /\ written = [k \in Keys |-> [t \in Targets |-> 0]]
      /\ flush = NoFlush /\ tails = {} /\ returning = {} /\ unacked = Messages
      /\ alive = TRUE /\ alarm = FALSE /\ flag = FALSE /\ overdue = FALSE /\ traceCount = 0
      /\ faults = 0 /\ crashes = 0
  BY DEF BatcherInit
<1>2. rows \in Seq(Row) /\ DOMAIN rows = {} /\ Len(rows) = 0
  BY <1>1
<1>3. /\ ledger \in [Keys -> Hashes \cup {NoHash}] /\ \A k \in Keys : ledger[k] = NoHash
      /\ written \in [Keys -> [Targets -> 0..1]]
      /\ \A k \in Keys, t \in Targets : written[k][t] = 0
  BY <1>1
<1>4. TablesTyped(rows, records, written, late, ledger)
  BY <1>1, <1>2, <1>3 DEF TablesTyped
<1>5. /\ SentSound(rows, written) /\ RecordsDiffer(records) /\ KeysSound(rows, ledger)
      /\ WrittenSound(rows, written) /\ GoneSound(rows)
  BY <1>1, <1>2, <1>3 DEF SentSound, RecordsDiffer, KeysSound, WrittenSound, GoneSound, HasRow
<1>6. UnsentSound(rows, records, written) /\ LateSound(rows, records, written, late)
  BY <1>1, <1>2 DEF UnsentSound, LateSound
<1>7. SendingSound
  BY <1>1, <1>4, <1>5, <1>6 DEF SendingSound, TablesSound, FlushSound
<1>8. MemoryTyped
  <2>1. traceCount \in 0..Len(rows)
    BY <1>1, <1>2
  <2> QED BY <1>1, <2>1 DEF MemoryTyped
<1>9. RestTyped /\ Idle
  <2>1. faults \in 0..MaxFaults /\ crashes \in 0..MaxCrashes
    BY <1>1, BatcherAssumption
  <2> QED BY <1>1, <2>1 DEF RestTyped, Idle, StagingTyped
<1>10. QueueSound
  BY <1>1 DEF QueueSound, AllKept, Current, RunsKnown, Running, FlushInProgress, NoFlush
<1> QED BY <1>7, <1>8, <1>9, <1>10 DEF ShardInv

(* Faults stay within their bound. *)
LEMMA FaultTyped ==
  ASSUME faults \in 0..MaxFaults, Fault \/ faults' = faults
  PROVE  faults' \in 0..MaxFaults
BY BatcherAssumption DEF Fault

(* What the other types need of a step. *)
LEMMA RestKept ==
  ASSUME RestTyped, StagingTyped', alive' \in BOOLEAN, returning' \subseteq Calls,
         unacked' \subseteq unacked, Fault \/ faults' = faults,
         crashes' = crashes \/ (crashes < MaxCrashes /\ crashes' = crashes + 1)
  PROVE  RestTyped'
<1>1. faults' \in 0..MaxFaults
  BY FaultTyped DEF RestTyped
<1>2. crashes' \in 0..MaxCrashes
  BY BatcherAssumption DEF RestTyped
<1> QED BY <1>1, <1>2 DEF RestTyped

(* Steps that stage nothing. *)
LEMMA StagingStands ==
  ASSUME StagingTyped, UNCHANGED stored
  PROVE  StagingTyped'
BY DEF StagingTyped, stored

(* The object is in memory before and after. *)
LEMMA AliveKept ==
  ASSUME alive, alive' = alive
  PROVE  Idle'
BY DEF Idle

(* Sending a batch and every answer. *)
LEMMA SendingStep ==
  ShardInv /\ (SendBatch \/ InsertAnswered) => ShardInv'
<1> SUFFICES ASSUME ShardInv, SendBatch \/ InsertAnswered  PROVE  ShardInv'
  OBVIOUS
<1>1. SendingSound'
  BY SendBatchKeepsSending, InsertConfirmedKeepsSending, InsertRefusedKeepsSending,
     InsertTooLargeKeepsSending, InsertRejectedKeepsSending, InsertUncertainKeepsSending
     DEF ShardInv, InsertAnswered
<1>2. MemoryTyped' /\ QueueSound'
  BY SendBatchTyped, InsertAnsweredTyped, SendBatchKeepsQueue, InsertAnsweredKeepsQueue
     DEF ShardInv
<1>3. /\ alive /\ alive' = alive /\ returning' = returning /\ unacked' = unacked
      /\ crashes' = crashes /\ (Fault \/ faults' = faults) /\ UNCHANGED stored
  BY DEF SendBatch, InsertAnswered, InsertConfirmed, InsertRefusedForNow, InsertTooLarge,
         InsertRejected, InsertUncertain, outside
<1>4. RestTyped' /\ Idle'
  BY <1>3, RestKept, StagingStands, AliveKept DEF ShardInv, RestTyped
<1> QED BY <1>1, <1>2, <1>4 DEF ShardInv

(* A call and its return. *)
LEMMA CallStep ==
  ASSUME ShardInv, NEW call \in Calls, AddMessageTraces(call) \/ Return(call)
  PROVE  ShardInv'
<1>1. CASE AddMessageTraces(call)
  <2>1. SendingSound' /\ MemoryTyped' /\ StagingTyped' /\ QueueSound'
    BY <1>1, AddKeepsSending, AddTyped, AddKeepsQueue DEF ShardInv, RestTyped, QueueSound
  <2>2. /\ alive /\ alive' = alive /\ unacked' = unacked /\ crashes' = crashes
        /\ faults' = faults /\ returning' \subseteq returning \cup {call}
    BY <1>1 DEF AddMessageTraces, outside
  <2>3. RestTyped' /\ Idle'
    BY <2>1, <2>2, RestKept, AliveKept DEF ShardInv, RestTyped
  <2> QED BY <2>1, <2>3 DEF ShardInv
<1>2. CASE Return(call)
  <2>1. SendingSound' /\ MemoryTyped' /\ QueueSound'
    BY <1>2, SendingStands, MemoryStands, ReturnKeepsQueue DEF ShardInv, Return, stored
  <2>2. /\ alive /\ alive' = alive /\ unacked' \subseteq unacked /\ crashes' = crashes
        /\ (Fault \/ faults' = faults) /\ returning' \subseteq returning /\ UNCHANGED stored
    BY <1>2 DEF Return
  <2>3. RestTyped' /\ Idle'
    BY <2>2, RestKept, StagingStands, AliveKept DEF ShardInv, RestTyped
  <2> QED BY <2>1, <2>3 DEF ShardInv
<1> QED BY <1>1, <1>2

(* The end of a flush. *)
LEMMA LogShippedStep ==
  ASSUME ShardInv, NEW by \in tails, LogShipped(by)
  PROVE  ShardInv'
<1>1. SendingSound' /\ MemoryTyped' /\ QueueSound'
  BY SendingStands, LogShippedTyped, LogShippedKeepsQueue DEF ShardInv, LogShipped, stored, outside
<1>2. by.kind = "add" => by.call \in Calls
  <2>1. by \in Runs
    BY DEF ShardInv, MemoryTyped
  <2>2. CASE by = AlarmRun \/ by = ForceRun
    BY <2>2 DEF AlarmRun, ForceRun
  <2>3. CASE \E c \in Calls : by = AddRun(c)
    BY <2>3, AddRunDiffers
  <2> QED BY <2>1, <2>2, <2>3 DEF Runs
<1>3. /\ alive /\ alive' = alive /\ unacked' = unacked /\ crashes' = crashes
      /\ faults' = faults /\ returning' \subseteq Calls /\ UNCHANGED stored
  BY <1>2 DEF LogShipped, outside, ShardInv, RestTyped
<1>4. RestTyped' /\ Idle'
  BY <1>3, RestKept, StagingStands, AliveKept DEF ShardInv, RestTyped
<1> QED BY <1>1, <1>4 DEF ShardInv

(* The alarm and the forced flush. *)
LEMMA WakingStep ==
  ShardInv /\ (Alarm \/ ForceFlush) => ShardInv'
<1> SUFFICES ASSUME ShardInv, Alarm \/ ForceFlush  PROVE  ShardInv'
  OBVIOUS
<1>1. SendingSound' /\ QueueSound'
  BY AlarmKeepsSending, ForceFlushKeepsSending, RestKeepsQueue DEF ShardInv
<1>2. MemoryTyped'
  <2>1. CASE Alarm
    <3>1. /\ rows' = rows /\ traceCount' = traceCount /\ tails' = tails /\ overdue' = overdue
      BY <2>1 DEF Alarm
    <3>2. alarm' \in BOOLEAN /\ flag' \in BOOLEAN
      BY <2>1 DEF Alarm
    <3> QED BY <3>1, <3>2 DEF ShardInv, MemoryTyped
  <2>2. CASE ForceFlush
    BY <2>2, ForceFlushTyped DEF ShardInv
  <2> QED BY <2>1, <2>2
<1>3. /\ alive /\ alive' = alive /\ returning' = returning /\ unacked' = unacked
      /\ crashes' = crashes /\ faults' = faults /\ UNCHANGED stored
  BY DEF Alarm, ForceFlush, outside
<1>4. RestTyped' /\ Idle'
  BY <1>3, RestKept, StagingStands, AliveKept DEF ShardInv, RestTyped
<1> QED BY <1>1, <1>2, <1>4 DEF ShardInv

(* Crash and restart. *)
LEMMA RestartStep ==
  ShardInv /\ (Crash \/ Construct) => ShardInv'
<1> SUFFICES ASSUME ShardInv, Crash \/ Construct  PROVE  ShardInv'
  OBVIOUS
<1>1. Construct => flush = NoFlush
  BY DEF ShardInv, Idle, Construct
<1>2. SendingSound' /\ MemoryTyped' /\ QueueSound'
  BY <1>1, CrashKeepsSending, ConstructKeepsSending, RestartTyped, RestKeepsQueue DEF ShardInv
<1>3. /\ alive' \in BOOLEAN /\ unacked' = unacked /\ faults' = faults /\ UNCHANGED stored
      /\ returning' \subseteq returning
      /\ crashes' = crashes \/ (crashes < MaxCrashes /\ crashes' = crashes + 1)
  BY DEF Crash, Construct, outside
<1>4. RestTyped'
  BY <1>3, RestKept, StagingStands DEF ShardInv, RestTyped
<1>5. Idle'
  BY DEF Idle, Crash, Construct
<1> QED BY <1>2, <1>4, <1>5 DEF ShardInv

(* Time and late inserts. *)
LEMMA OutsideStep ==
  ShardInv /\ (TimePasses \/ \E insert \in late : LateStore(insert)) => ShardInv'
<1> SUFFICES ASSUME ShardInv, TimePasses \/ \E insert \in late : LateStore(insert)
             PROVE  ShardInv'
  OBVIOUS
<1>1. SendingSound'
  BY SendingStands, LateStoreKeepsSending DEF ShardInv, TimePasses, stored, outside, memory
<1>2. QueueSound'
  BY RestKeepsQueue DEF ShardInv
<1>3. MemoryTyped'
  BY DEF ShardInv, MemoryTyped, TimePasses, LateStore, memory
<1>4. /\ alive' = alive /\ flush' = flush /\ tails' = tails /\ returning' = returning
      /\ unacked' = unacked /\ crashes' = crashes /\ faults' = faults /\ UNCHANGED stored
  BY DEF TimePasses, LateStore, memory, outside
<1>5. RestTyped' /\ Idle'
  BY <1>4, RestKept, StagingStands DEF ShardInv, RestTyped, Idle
<1> QED BY <1>1, <1>2, <1>3, <1>5 DEF ShardInv

(* The operator's decisions. *)
LEMMA OperatorStep ==
  ASSUME ShardInv, NEW r \in records, ConfirmWritten(r) \/ ConfirmNotWritten(r)
  PROVE  ShardInv'
<1>1. SendingSound' /\ QueueSound'
  BY ConfirmWrittenKeepsSending, ConfirmNotWrittenKeepsSending, RestKeepsQueue DEF ShardInv
<1>2. rows' \in Seq(Row)
  BY <1>1 DEF SendingSound, TablesSound, TablesTyped
<1>3. MemoryTyped'
  BY <1>2, ConfirmTyped DEF ShardInv
<1>4. /\ alive /\ alive' = alive /\ returning' = returning /\ unacked' = unacked
      /\ crashes' = crashes /\ faults' = faults /\ UNCHANGED stored
  BY DEF ConfirmWritten, ConfirmNotWritten, outside
<1>5. RestTyped' /\ Idle'
  BY <1>4, RestKept, StagingStands, AliveKept DEF ShardInv, RestTyped
<1> QED BY <1>1, <1>3, <1>5 DEF ShardInv

(* The invariant is inductive. *)
LEMMA ShardKept == ShardInv /\ [BatcherNext]_batcherVars => ShardInv'
<1> SUFFICES ASSUME ShardInv, [BatcherNext]_batcherVars  PROVE  ShardInv'
  OBVIOUS
<1>1. CASE BatcherNext
  BY <1>1, SendingStep, CallStep, LogShippedStep, WakingStep, RestartStep, OutsideStep,
     OperatorStep DEF BatcherNext
<1>2. CASE UNCHANGED batcherVars
  <2>1. SendingSound'
    BY <1>2, SendingStands DEF ShardInv, batcherVars, stored, outside, memory
  <2>2. QueueSound'
    BY <1>2, RestKeepsQueue DEF ShardInv
  <2>3. MemoryTyped'
    BY <1>2, MemoryStands DEF ShardInv, batcherVars, memory
  <2>4. RestTyped' /\ Idle'
    BY <1>2 DEF ShardInv, RestTyped, StagingTyped, Idle, batcherVars, stored, memory, outside
  <2> QED BY <2>1, <2>2, <2>3, <2>4 DEF ShardInv
<1> QED BY <1>1, <1>2

(* It gives the types. *)
LEMMA ShardIsTyped == ShardInv => BatcherTypeOK
<1> SUFFICES ASSUME ShardInv  PROVE  BatcherTypeOK
  OBVIOUS
<1>1. /\ rows \in Seq(Row) /\ records \subseteq Record
      /\ late \subseteq [target : Targets, rows : SUBSET DOMAIN rows]
      /\ ledger \in [Keys -> Hashes \cup {NoHash}] /\ mode \in Modes
      /\ written \in [Keys -> [Targets -> 0..1]]
  BY DEF ShardInv, SendingSound, TablesSound, TablesTyped, RecordOf, InsertOf, Record
<1>2. written \in [Keys -> [Targets -> 0..2]]
  <2>1. [Targets -> 0..1] \subseteq [Targets -> 0..2]
    OBVIOUS
  <2> QED BY <1>1, <2>1
<1>3. flush \in FlushRecord(DOMAIN rows)
  BY FlushTyped DEF ShardInv, SendingSound
<1> QED BY <1>1, <1>2, <1>3 DEF ShardInv, MemoryTyped, RestTyped, StagingTyped, BatcherTypeOK,
                                FlushRecord

(* It gives what the runs check. *)
LEMMA ShardIsSound ==
  ShardInv => RecordsSound /\ WrittenOnce /\ AckedIsKept
<1> SUFFICES ASSUME ShardInv  PROVE  RecordsSound /\ WrittenOnce /\ AckedIsKept
  OBVIOUS
<1>1. /\ TablesSound(rows, records, written, late, ledger) /\ rows \in Seq(Row)
      /\ SendingSound /\ written \in [Keys -> [Targets -> 0..1]]
  BY DEF ShardInv, SendingSound, TablesSound, TablesTyped
<1>2. SentIsWritten /\ OneRecordPerRow
  BY <1>1 DEF TablesSound, SentSound, RecordsDiffer, SentIsWritten, OneRecordPerRow
<1>3. WrittenOnce
  <2>1. \A k \in Keys, t \in Targets : written[k][t] \in 0..1
    BY <1>1
  <2> QED BY <2>1 DEF WrittenOnce
<1>4. HeldRowsAreHealthy
  <2>1. ASSUME NEW parts, NEW ids, Held(parts, ids)
        PROVE  \A n \in DOMAIN parts : Range(parts[n]) \subseteq ids
    BY <2>1 DEF Held, Range
  <2>2. CASE flush = NoFlush
    BY <2>2 DEF HeldRowsAreHealthy, FlushInProgress, NoFlush
  <2>3. CASE Ready(flush, rows, records, mode)
    <3>1. flush.at = "parse"
      BY <2>3 DEF Ready
    <3>2. Held(flush.stack \o flush.batches, HealthyFor(rows, records, Target))
      BY <2>3 DEF Ready, Holds, Target
    <3>3. PICK parts : parts = flush.stack \o flush.batches
      OBVIOUS
    <3>4. \A n \in DOMAIN parts : Range(parts[n]) \subseteq HealthyFor(rows, records, Target)
      BY <2>1, <3>2, <3>3
    <3> QED BY <3>1, <3>3, <3>4 DEF HeldRowsAreHealthy
  <2>4. CASE Waiting
    <3>1. flush.at = "wait" /\ InFlight \in records /\ InFlight.rows = Range(Batch)
      BY <2>4 DEF Waiting, InFlight
    <3>2. HealthyFor(rows, records \ {InFlight}, Target) \ Range(Batch)
            \subseteq HealthyFor(rows, records, Target)
      BY <3>1 DEF HealthyFor, InOpenRecord
    <3>3. Left(flush, rows, records)
      BY <1>1, <3>1, <3>2, WaitingFacts
    <3>4. PICK parts : parts = Tail(flush.stack) \o flush.batches
      OBVIOUS
    <3>5. \A n \in DOMAIN parts : Range(parts[n]) \subseteq HealthyFor(rows, records, Target)
      BY <2>1, <3>3, <3>4 DEF Left, Target
    <3> QED BY <3>1, <3>4, <3>5 DEF HeldRowsAreHealthy
  <2> QED BY <1>1, <2>2, <2>3, <2>4 DEF SendingSound, FlushSound
<1>5. AckedIsKept
  <2>1. ASSUME NEW m \in Messages \ unacked, NEW trace \in Range(TracesOf[m])
        PROVE  \/ \E r \in repairs : r.key = trace.key /\ r.new = trace.hash
               \/ /\ ledger[trace.key] = trace.hash
                  /\ \E i \in DOMAIN rows :
                       /\ rows[i].key = trace.key
                       /\ \/ ~rows[i].gone
                          \/ \E md \in Modes : \A t \in Range(md) :
                               written[trace.key][t] > 0
    <3>1. m \in processed
      BY DEF ShardInv, QueueSound
    <3>2. PICK n \in DOMAIN TracesOf[m] : trace = TracesOf[m][n]
      BY DEF Range
    <3>3. trace.key \in Keys /\ trace.hash # NoHash
      BY <3>2, TraceFacts
    <3>4. \/ \E r \in repairs : r.key = trace.key /\ r.new = trace.hash
          \/ ledger[trace.key] = trace.hash
      BY <3>1, <3>2 DEF ShardInv, QueueSound, AllKept, IsKept, Current
    <3>5. ASSUME ledger[trace.key] = trace.hash
          PROVE  \E i \in DOMAIN rows :
                   /\ rows[i].key = trace.key
                   /\ \/ ~rows[i].gone
                      \/ \E md \in Modes : \A t \in Range(md) : written[trace.key][t] > 0
      <4>1. PICK i \in DOMAIN rows : rows[i].key = trace.key
        BY <1>1, <3>3, <3>5 DEF TablesSound, KeysSound, HasRow
      <4>2. CASE rows[i].gone
        <5>1. PICK md \in Modes : Range(md) \subseteq rows[i].sent
          BY <1>1, <4>2 DEF TablesSound, GoneSound
        <5>2. \A t \in Range(md) : written[trace.key][t] > 0
          BY <1>1, <4>1, <5>1 DEF TablesSound, SentSound
        <5> QED BY <4>1, <5>2
      <4>3. CASE ~rows[i].gone
        BY <4>1, <4>3
      <4> QED BY <4>2, <4>3
    <3> QED BY <3>4, <3>5
  <2> QED BY <2>1 DEF AckedIsKept
<1> QED BY <1>2, <1>3, <1>4, <1>5, ShardIsTyped DEF RecordsSound

-----------------------------------------------------------------------------
(* The bookkeeping: the cached count, the flag and the alarm *)

(* Replacing a field keeps the shape. *)
LEMMA ShapeWithStack ==
  ASSUME NEW f, HasShape(f), NEW stack
  PROVE  HasShape([f EXCEPT !.stack = stack])
<1>1. [f EXCEPT !.stack = stack] =
        [at |-> f.at, by |-> f.by, targets |-> f.targets,
         batches |-> f.batches, stack |-> stack, retry |-> f.retry]
  BY DEF HasShape
<1>2. QED
  BY <1>1 DEF HasShape

(* The same for the mark of a refused part. *)
LEMMA ShapeWithRetry ==
  ASSUME NEW f, HasShape(f), NEW retry
  PROVE  HasShape([f EXCEPT !.retry = retry])
<1>1. [f EXCEPT !.retry = retry] =
        [at |-> f.at, by |-> f.by, targets |-> f.targets,
         batches |-> f.batches, stack |-> f.stack, retry |-> retry]
  BY DEF HasShape
<1>2. QED
  BY <1>1 DEF HasShape

CountHasWaker ==
  alive /\ ~FlushInProgress /\ traceCount > 0 => alarm \/ tails # {}

(* The inductive invariant.  CountAgrees turns WorkHasWaker, a statement   *)
(* about the tables, into CountHasWaker, one about the memory; FlagHasAlarm*)
(* is what makes scheduleFlush's early return harmless to it.              *)
Bookkeeping ==
  HasShape(flush) /\ CountAgrees /\ FlagHasAlarm /\ CountHasWaker

-----------------------------------------------------------------------------
(* Where a flush goes next, it is in progress or it is over. *)

(* A target with rows to send, or the end. *)
LEMMA NextTargetShape ==
  ASSUME NEW by, NEW targets, NEW table, NEW recs
  PROVE  LET f == NextTarget(by, targets, table, recs)
         IN HasShape(f) /\ (f = NoFlush \/ f.at # "none")
BY DEF NextTarget, HasShape, NoFlush

(* The rest of a batch, another batch or another target, or the end. *)
LEMMA NextBatchShape ==
  ASSUME NEW f, HasShape(f), NEW table, NEW recs
  PROVE  LET g == NextBatch(f, table, recs)
         IN HasShape(g) /\ (g = NoFlush \/ g.at # "none")
<1>1. CASE f.stack # <<>>
  BY <1>1 DEF NextBatch, HasShape
<1>2. CASE f.stack = <<>> /\ (f.retry \/ f.batches = <<>>)
  BY <1>2, NextTargetShape DEF NextBatch
<1>3. CASE f.stack = <<>> /\ ~(f.retry \/ f.batches = <<>>)
  BY <1>3 DEF NextBatch, HasShape
<1>4. QED
  BY <1>1, <1>2, <1>3

(* Going on or ending the flush keeps the bookkeeping right. *)
LEMMA AdvanceKeepsBooks ==
  ASSUME NEW next, NEW by, NEW table, NEW recs, NEW count,
         HasShape(next), next = NoFlush \/ next.at # "none",
         UNCHANGED <<alive, mode>>, FlagHasAlarm,
         Advance(next, by, table, recs, count)
  PROVE  Bookkeeping'
<1>1. CASE next # NoFlush
  BY <1>1 DEF Advance, Bookkeeping, CountAgrees, FlagHasAlarm, CountHasWaker,
              FlushInProgress
<1>2. CASE next = NoFlush
  <2>1. traceCount' = CountHealthy(rows', records') /\ mode' = mode
    BY <1>2 DEF Advance
  <2>2. CountAgrees'
    BY <2>1 DEF CountAgrees, CountHealthy
  <2>3. FlagHasAlarm' /\ CountHasWaker' /\ HasShape(flush)'
    BY <1>2 DEF Advance, FlagHasAlarm, CountHasWaker
  <2>4. QED
    BY <2>2, <2>3 DEF Bookkeeping
<1>3. QED
  BY <1>1, <1>2

(* So does dealing with one batch. *)
LEMMA EndBatchKeepsBooks ==
  ASSUME NEW f, NEW table, NEW recs, HasShape(f),
         UNCHANGED <<alive, mode>>, FlagHasAlarm, EndBatch(f, table, recs)
  PROVE  Bookkeeping'
<1> DEFINE popped == [f EXCEPT !.stack = Tail(@)]
<1>1. HasShape(popped)
  BY ShapeWithStack
<1>2. Advance(NextBatch(popped, table, recs), f.by, table, recs, traceCount)
  BY DEF EndBatch
<1> HIDE DEF popped
<1>3. QED
  BY <1>1, <1>2, NextBatchShape, AdvanceKeepsBooks

(* So does the start of a flush. *)
LEMMA StartFlushKeepsBooks ==
  ASSUME NEW by, NEW table, NEW count, UNCHANGED <<alive, mode>>,
         FlagHasAlarm, StartFlush(by, table, count)
  PROVE  Bookkeeping'
BY NextTargetShape, AdvanceKeepsBooks DEF StartFlush

-----------------------------------------------------------------------------
(* Every action keeps the bookkeeping right. *)

(* An empty table counts nothing. *)
LEMMA BooksAtStart == BatcherInit => Bookkeeping
<1> SUFFICES ASSUME BatcherInit PROVE Bookkeeping
  OBVIOUS
<1>1. Healthy(rows, records, mode) = {}
  BY DEF BatcherInit, Healthy, HealthyFor
<1>2. CountHealthy(rows, records) = 0
  BY <1>1, FS_EmptySet DEF CountHealthy
<1>3. CountAgrees
  BY <1>2 DEF BatcherInit, CountAgrees
<1>4. HasShape(flush) /\ FlagHasAlarm /\ CountHasWaker
  BY DEF BatcherInit, HasShape, NoFlush, FlagHasAlarm, CountHasWaker
<1>5. QED
  BY <1>3, <1>4 DEF Bookkeeping

(* Steps that touch none of the variables the bookkeeping is about. *)
LEMMA BooksStand ==
  ASSUME Bookkeeping,
         UNCHANGED <<alive, mode, rows, records, alarm, flag, traceCount,
                     flush, tails>>
  PROVE  Bookkeeping'
BY DEF Bookkeeping, HasShape, CountAgrees, CountHealthy, Healthy, HealthyFor,
       InOpenRecord, FlagHasAlarm, CountHasWaker, FlushInProgress

(* Steps inside a flush that goes on. *)
LEMMA BooksDuringFlush ==
  ASSUME Bookkeeping, FlushInProgress', HasShape(flush)',
         UNCHANGED <<alarm, flag>>
  PROVE  Bookkeeping'
BY DEF Bookkeeping, CountAgrees, FlagHasAlarm, CountHasWaker

(* Splitting a batch is a step inside the flush. *)
LEMMA SendHalvesStays ==
  ASSUME HasShape(flush), SendHalves
  PROVE  FlushInProgress' /\ HasShape(flush)'
BY DEF HasShape, SendHalves, FlushInProgress

(* sendTraceBatchInner up to the insert. *)
LEMMA SendBatchKeepsBooks ==
  Bookkeeping /\ SendBatch => Bookkeeping'
<1> SUFFICES ASSUME Bookkeeping, SendBatch PROVE Bookkeeping'
  OBVIOUS
<1>1. HasShape(flush) /\ FlagHasAlarm
  BY DEF Bookkeeping
<1>2. CASE /\ flush' = [flush EXCEPT !.at = "wait"]
           /\ UNCHANGED <<alarm, flag>>
  <2>1. FlushInProgress' /\ HasShape(flush)'
    BY <1>1, <1>2 DEF HasShape, FlushInProgress
  <2>2. QED
    BY <1>2, <2>1, BooksDuringFlush
<1>3. CASE SendHalves /\ UNCHANGED <<alarm, flag>>
  BY <1>1, <1>3, SendHalvesStays, BooksDuringFlush
<1>4. CASE EndBatch(flush, rows, records \cup {Blocked})
  BY <1>1, <1>4, EndBatchKeepsBooks DEF SendBatch
<1>5. QED
  BY <1>2, <1>3, <1>4 DEF SendBatch

(* Every answer of Tinybird. *)
LEMMA InsertAnsweredKeepsBooks ==
  Bookkeeping /\ InsertAnswered => Bookkeeping'
<1> SUFFICES ASSUME Bookkeeping, InsertAnswered PROVE Bookkeeping'
  OBVIOUS
<1>1. HasShape(flush) /\ FlagHasAlarm
  BY DEF Bookkeeping
<1>2. CASE InsertConfirmed
  BY <1>1, <1>2, EndBatchKeepsBooks DEF InsertConfirmed
<1>3. CASE InsertRefusedForNow
  <2>1. HasShape([flush EXCEPT !.retry = TRUE])
    BY <1>1, ShapeWithRetry
  <2>2. QED
    BY <1>1, <1>3, <2>1, EndBatchKeepsBooks DEF InsertRefusedForNow
<1>4. CASE InsertTooLarge
  BY <1>1, <1>4, SendHalvesStays, BooksDuringFlush DEF InsertTooLarge
<1>5. CASE InsertRejected
  BY <1>1, <1>5, EndBatchKeepsBooks DEF InsertRejected
<1>6. CASE InsertUncertain
  BY <1>1, <1>6, EndBatchKeepsBooks DEF InsertUncertain
<1>7. QED
  BY <1>2, <1>3, <1>4, <1>5, <1>6 DEF InsertAnswered

(* Rescheduling after a flush gives leftover rows their alarm. *)
LEMMA LogShippedKeepsBooks ==
  ASSUME NEW by PROVE Bookkeeping /\ LogShipped(by) => Bookkeeping'
BY DEF Bookkeeping, LogShipped, ScheduleFlush, HasShape, CountAgrees,
       CountHealthy, Healthy, HealthyFor, InOpenRecord, FlagHasAlarm,
       CountHasWaker, FlushInProgress

(* A call recounts after staging, and flushes, schedules or finds an alarm. *)
LEMMA AddKeepsBooks ==
  ASSUME NEW call PROVE Bookkeeping /\ AddMessageTraces(call) => Bookkeeping'
<1> SUFFICES ASSUME Bookkeeping, AddMessageTraces(call) PROVE Bookkeeping'
  OBVIOUS
<1> DEFINE s == Staged(call)
           count == CountHealthy(s.rows, records)
           full == count >= BatchSize /\ Len(s.rows) > Len(rows)
<1>1. HasShape(flush) /\ FlagHasAlarm
  BY DEF Bookkeeping
<1>2. CASE StartFlush(AddRun(call), s.rows, count)
  BY <1>1, <1>2, StartFlushKeepsBooks DEF AddMessageTraces
<1>3. CASE /\ ~full \/ FlushInProgress
           /\ rows' = s.rows /\ traceCount' = count
           /\ ScheduleFlush(count > 0 /\ ~full /\ ~alarm)
           /\ UNCHANGED <<records, flush, tails, overdue>>
  <2>0. UNCHANGED <<alive, mode>>
    BY DEF AddMessageTraces
  <2>1. HasShape(flush)' /\ (FlushInProgress' <=> FlushInProgress)
    BY <1>1, <1>3 DEF HasShape, FlushInProgress
  <2>2. traceCount' = CountHealthy(rows', records')
    BY <1>3
  <2>3. CountAgrees'
    BY <2>0, <2>2 DEF CountAgrees, CountHealthy
  <2>4. FlagHasAlarm'
    BY <1>1, <1>3 DEF ScheduleFlush, FlagHasAlarm
  <2>5. CountHasWaker'
    BY <1>1, <1>3, <2>1 DEF ScheduleFlush, FlagHasAlarm, CountHasWaker
  <2>6. QED
    BY <2>1, <2>3, <2>4, <2>5 DEF Bookkeeping
<1>4. QED
  BY <1>2, <1>3 DEF AddMessageTraces

(* The alarm starts a flush, sets itself again, or leaves a flush to do so. *)
LEMMA AlarmKeepsBooks == Bookkeeping /\ Alarm => Bookkeeping'
<1> SUFFICES ASSUME Bookkeeping, Alarm PROVE Bookkeeping'
  OBVIOUS
<1>1. UNCHANGED <<alive, mode, rows, records, traceCount, tails>>
  BY DEF Alarm
<1>2. CASE /\ flush' = NextTarget(AlarmRun, mode, rows, records)
           /\ flush' # NoFlush
           /\ alarm' = FALSE /\ flag' = FALSE
  BY <1>2, NextTargetShape
     DEF Bookkeeping, CountAgrees, FlagHasAlarm, CountHasWaker, FlushInProgress
<1>3. CASE alarm' = TRUE /\ flag' = TRUE /\ UNCHANGED flush
  BY <1>1, <1>3
     DEF Bookkeeping, HasShape, CountAgrees, CountHealthy, Healthy, HealthyFor,
         InOpenRecord, FlagHasAlarm, CountHasWaker, FlushInProgress
<1>4. CASE /\ traceCount = 0 \/ FlushInProgress
           /\ alarm' = FALSE /\ flag' = FALSE /\ UNCHANGED flush
  BY <1>1, <1>4
     DEF Bookkeeping, HasShape, CountAgrees, CountHealthy, Healthy, HealthyFor,
         InOpenRecord, FlagHasAlarm, CountHasWaker, FlushInProgress
<1>5. QED
  BY <1>2, <1>3, <1>4 DEF Alarm

-----------------------------------------------------------------------------
(* The operator's decisions *)

(* Marking the rows of a record as sent and resolving it makes no row      *)
(* sendable that was not.                                                  *)
LEMMA ConfirmedRowsLeave ==
  ASSUME NEW r, BatcherTypeOK, ConfirmWritten(r)
  PROVE  Healthy(rows', records', mode) \subseteq Healthy(rows, records, mode)
<1> DEFINE marked == MarkSent(rows, r.rows, r.target)
<1>1. rows \in Seq(Row)
  BY DEF BatcherTypeOK
<1>2. rows' = DeleteFullySent(marked, r.rows) /\ records' = records \ {r}
  BY DEF ConfirmWritten
<1>3. ASSUME NEW i \in DOMAIN rows
      PROVE  /\ marked[i].gone = rows[i].gone
             /\ marked[i].sent = IF i \in r.rows
                                 THEN rows[i].sent \cup {r.target}
                                 ELSE rows[i].sent
             /\ marked[i] = [key |-> rows[i].key, sent |-> marked[i].sent,
                             gone |-> rows[i].gone]
  <2>1. rows[i] \in Row
    BY <1>1
  <2>2. QED
    BY <2>1 DEF MarkSent, Row
<1>4. DOMAIN marked = DOMAIN rows
  BY DEF MarkSent
<1> HIDE DEF marked
<1>5. ASSUME NEW i \in DOMAIN rows, ~rows'[i].gone
      PROVE  rows'[i] = marked[i]
  BY <1>2, <1>3, <1>4, <1>5 DEF DeleteFullySent
<1>6. ASSUME NEW t \in Range(mode), NEW i \in HealthyFor(rows', records', t)
      PROVE  i \in HealthyFor(rows, records, t)
  <2>1. i \in DOMAIN rows /\ ~rows'[i].gone
    BY <1>2, <1>4 DEF HealthyFor, DeleteFullySent
  <2>2. ~rows[i].gone /\ t \notin rows[i].sent
    BY <1>3, <1>5, <2>1 DEF HealthyFor
  <2>3. i \notin InOpenRecord(records, t)
    <3>1. SUFFICES ASSUME NEW s \in records, s.target = t, i \in s.rows
                   PROVE  FALSE
      BY DEF InOpenRecord
    <3>2. CASE s # r
      BY <1>2, <3>1, <3>2 DEF HealthyFor, InOpenRecord
    <3>3. CASE s = r
      <4>1. t \in rows'[i].sent
        BY <1>3, <1>5, <2>1, <3>1, <3>3
      <4>2. QED
        BY <4>1 DEF HealthyFor
    <3>4. QED
      BY <3>2, <3>3
  <2>4. QED
    BY <2>1, <2>2, <2>3 DEF HealthyFor
<1>7. QED
  BY <1>6 DEF Healthy

(* Rows confirmed as written leave; no alarm is needed for those that stay. *)
LEMMA ConfirmWrittenKeepsBooks ==
  ASSUME NEW r
  PROVE  Bookkeeping /\ BatcherTypeOK /\ ConfirmWritten(r) => Bookkeeping'
<1> SUFFICES ASSUME Bookkeeping, BatcherTypeOK, ConfirmWritten(r)
             PROVE  Bookkeeping'
  OBVIOUS
<1>1. UNCHANGED <<alive, mode, alarm, flag, flush, tails>>
  BY DEF ConfirmWritten
<1>2. traceCount' = CountHealthy(rows', records')
  BY <1>1 DEF ConfirmWritten, CountHealthy
<1>3. IsFiniteSet(Healthy(rows, records, mode))
  <2>1. rows \in Seq(Row)
    BY DEF BatcherTypeOK
  <2>2. DOMAIN rows = 1..Len(rows) /\ Len(rows) \in Nat
    BY <2>1
  <2>3. IsFiniteSet(DOMAIN rows)
    BY <2>2, FS_Interval
  <2>4. Healthy(rows, records, mode) \subseteq DOMAIN rows
    BY DEF Healthy, HealthyFor
  <2>5. QED
    BY <2>3, <2>4, FS_Subset
<1>4. CountHealthy(rows', records') <= CountHealthy(rows, records)
  <2>1. Healthy(rows', records', mode) \subseteq Healthy(rows, records, mode)
    BY ConfirmedRowsLeave
  <2>2. QED
    BY <1>1, <1>3, <2>1, FS_Subset DEF CountHealthy
<1>5. CountAgrees' /\ FlagHasAlarm' /\ HasShape(flush)'
  BY <1>1, <1>2
     DEF Bookkeeping, CountAgrees, CountHealthy, FlagHasAlarm, HasShape
<1>6. CountHasWaker'
  <2>1. CountHealthy(rows, records) \in Nat /\ CountHealthy(rows', records') \in Nat
    BY <1>1, <1>3, ConfirmedRowsLeave, FS_Subset, FS_CardinalityType
       DEF CountHealthy
  <2>2. SUFFICES ASSUME alive', ~FlushInProgress', traceCount' > 0
                 PROVE  alarm' \/ tails' # {}
    BY DEF CountHasWaker
  <2>3. alive /\ ~FlushInProgress
    BY <1>1, <2>2 DEF FlushInProgress
  <2>4. traceCount > 0
    BY <1>2, <1>4, <2>1, <2>2, <2>3 DEF Bookkeeping, CountAgrees
  <2>5. QED
    BY <1>1, <2>3, <2>4 DEF Bookkeeping, CountHasWaker
<1>7. QED
  BY <1>5, <1>6 DEF Bookkeeping

(* Released rows come with an alarm of their own. *)
LEMMA ConfirmNotWrittenKeepsBooks ==
  ASSUME NEW r PROVE Bookkeeping /\ ConfirmNotWritten(r) => Bookkeeping'
<1> SUFFICES ASSUME Bookkeeping, ConfirmNotWritten(r) PROVE Bookkeeping'
  OBVIOUS
<1>1. UNCHANGED <<alive, mode, rows, flush, tails>> /\ alarm' = TRUE
  BY DEF ConfirmNotWritten
<1>2. traceCount' = CountHealthy(rows', records')
  BY <1>1 DEF ConfirmNotWritten, CountHealthy
<1>3. CountAgrees' /\ FlagHasAlarm' /\ CountHasWaker'
  BY <1>1, <1>2 DEF CountAgrees, FlagHasAlarm, CountHasWaker, CountHealthy
<1>4. QED
  BY <1>1, <1>3 DEF Bookkeeping, HasShape

-----------------------------------------------------------------------------
(* Crash and restart *)

(* Nothing is claimed of an object that is not in memory. *)
LEMMA CrashKeepsBooks == Bookkeeping /\ Crash => Bookkeeping'
BY DEF Bookkeeping, Crash, HasShape, NoFlush, CountAgrees, FlagHasAlarm,
       CountHasWaker

(* The constructor counts and sets an alarm. *)
LEMMA ConstructKeepsBooks ==
  Bookkeeping /\ Construct => Bookkeeping'
BY DEF Bookkeeping, Construct, HasShape, CountAgrees, CountHealthy,
       FlagHasAlarm, CountHasWaker

-----------------------------------------------------------------------------

(* Bookkeeping is inductive where the types hold. *)
LEMMA NextKeepsBooks ==
  Bookkeeping /\ BatcherTypeOK /\ [BatcherNext]_batcherVars => Bookkeeping'
<1> SUFFICES ASSUME Bookkeeping, BatcherTypeOK, [BatcherNext]_batcherVars
             PROVE  Bookkeeping'
  OBVIOUS
<1>1. ASSUME NEW call \in Calls, AddMessageTraces(call) PROVE Bookkeeping'
  BY <1>1, AddKeepsBooks
<1>2. ASSUME NEW call \in Calls, Return(call) PROVE Bookkeeping'
  BY <1>2, BooksStand DEF Return
<1>3. CASE Alarm
  BY <1>3, AlarmKeepsBooks
<1>4. CASE ForceFlush
  BY <1>4, StartFlushKeepsBooks DEF ForceFlush, Bookkeeping
<1>5. CASE SendBatch \/ InsertAnswered
  BY <1>5, SendBatchKeepsBooks, InsertAnsweredKeepsBooks
<1>6. ASSUME NEW by \in tails, LogShipped(by) PROVE Bookkeeping'
  BY <1>6, LogShippedKeepsBooks
<1>7. CASE Crash \/ Construct
  BY <1>7, CrashKeepsBooks, ConstructKeepsBooks
<1>8. CASE TimePasses
  BY <1>8, BooksStand DEF TimePasses, memory
<1>9. ASSUME NEW insert \in late, LateStore(insert) PROVE Bookkeeping'
  BY <1>9, BooksStand DEF LateStore, memory
<1>10. ASSUME NEW r \in records, ConfirmWritten(r) \/ ConfirmNotWritten(r)
       PROVE  Bookkeeping'
  BY <1>10, ConfirmWrittenKeepsBooks, ConfirmNotWrittenKeepsBooks
<1>11. CASE UNCHANGED batcherVars
  BY <1>11, BooksStand DEF batcherVars, memory
<1>12. QED
  BY <1>1, <1>2, <1>3, <1>4, <1>5, <1>6, <1>7, <1>8, <1>9, <1>10, <1>11
     DEF BatcherNext

(* The invariant gives the property. *)
LEMMA BooksGiveWaker == Bookkeeping => WorkHasWaker
BY DEF Bookkeeping, CountAgrees, CountHasWaker, WorkHasWaker

(* Every row agrees with the records and with what is stored: types, sent  *)
(* means stored, one open record for a row and target, and the rows a      *)
(* flush still holds can be sent; no trace is stored twice in a datasource *)
(* (flush 363-417, sendTraceBatchInner, selectHealthyRows,                 *)
(* reconcileRecovery and the constructor).                                 *)
THEOREM RecordsTheorem == BatcherSpec => [](RecordsSound /\ WrittenOnce)
<1>1. QED
  BY ShardAtStart, ShardKept, ShardIsSound, PTL DEF BatcherSpec

(* What the queue was told is done is kept: as a repair, as a row, or in   *)
(* every datasource of a write mode (addMessageTraces before the           *)
(* acknowledgement, deleteFullySentTraces after the receipts).             *)
THEOREM AckedTheorem == BatcherSpec => []AckedIsKept
<1>1. QED
  BY ShardAtStart, ShardKept, ShardIsSound, PTL DEF BatcherSpec

(* The cached count is exact between flushes, the flag never outlives the  *)
(* alarm, and work that can be sent always has something that will send it *)
(* (flush 363-417, scheduleFlush, alarm, addMessageTraces,                 *)
(* reconcileRecovery, constructor).                                        *)
THEOREM WakerTheorem ==
  BatcherSpec => [](CountAgrees /\ FlagHasAlarm /\ WorkHasWaker)
<1>1. Bookkeeping => CountAgrees /\ FlagHasAlarm /\ WorkHasWaker
  BY BooksGiveWaker DEF Bookkeeping
<1>2. BatcherInit => Bookkeeping /\ ShardInv
  BY BooksAtStart, ShardAtStart
<1>3. Bookkeeping /\ ShardInv /\ [BatcherNext]_batcherVars
        => (Bookkeeping /\ ShardInv)'
  BY NextKeepsBooks, ShardKept, ShardIsTyped
<1>4. QED
  BY <1>1, <1>2, <1>3, PTL DEF BatcherSpec
=============================================================================
