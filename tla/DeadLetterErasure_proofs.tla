---------------------- MODULE DeadLetterErasure_proofs ----------------------
(***************************************************************************)
(* The sweep of an organization's dead letters is exact, for any number of *)
(* messages and any size of a page.                                        *)
(*                                                                         *)
(* The argument is about the cursor: whatever was stored before the        *)
(* erasure began and is still there has an id beyond it, because a page    *)
(* holds every record between two cursors, and because ids never repeat    *)
(* no later letter can slip in behind it.                                  *)
(***************************************************************************)
EXTENDS DeadLetterErasure, FiniteSetTheorems, WellFoundedInduction, TLAPS

USE DeadLetterAssumption DEF DeadLetterAssumption

(* Ids come from the table's counter. *)
IdsSound ==
  /\ IsFiniteSet(records)
  /\ \A r \in records : 0 < r.id /\ r.id < nextId
  /\ \A r, s \in records : r.id = s.id => r = s
  /\ \A id \in early : id < nextId

(* What the sweep has still to take. *)
Due == {r \in records : r.message \in OurMessages /\ r.id \in early}

(* A post runs only against a drained organization; what is due lies beyond *)
(* its cursor, and nothing is due once the last page was taken.             *)
CursorSound ==
  /\ phase # "drained" => post = NoPost
  /\ post.at = "idle" => post = NoPost
  /\ \A r \in Due : r.id > post.after
  /\ post.at \in {"bodies", "done"} => Due = {}
  /\ post.at = "done" => stored = {}

(* A message the consumer has preserved has its record, unless the sweep or *)
(* the second look took it, which they do to erased letters only.           *)
ConsumerSound ==
  \A m \in Messages :
    /\ place[m] \in {"preserved", "acked"} => Preserved(m) \/ Started(m)
    /\ place[m] = "unwanted" => Started(m)

IInv == TypeOK /\ IdsSound /\ CursorSound /\ ConsumerSound

-----------------------------------------------------------------------------
(* Pages *)

(* A nonempty set of numbers that are bounded has a largest one. *)
LEMMA LargestExists ==
  ASSUME NEW n \in Nat, NEW S \in SUBSET (0..n), S # {}
  PROVE  \E x \in S : \A y \in S : x >= y
<1> DEFINE Left == {n - x : x \in S}
           Less == {ss \in Nat \X Nat : ss[1] < ss[2]}
<1>1. Left \subseteq Nat /\ Left # {}
  <2>1. \A x \in S : n - x \in Nat
    OBVIOUS
  <2>2. \E x \in S : n - x \in Left
    OBVIOUS
  <2> QED BY <2>1, <2>2
<1>2. IsWellFoundedOn(Less, Nat)
  BY NatLessThanWellFounded DEF OpToRel
<1>3. PICK l \in Left : \A k \in Left : <<k, l>> \notin Less
  <2> HIDE DEF Left, Less
  <2> QED BY <1>1, <1>2, WFMin
<1>4. PICK x \in S : l = n - x
  BY <1>3
<1>5. ASSUME NEW y \in S  PROVE x >= y
  <2>1. n - y \in Left /\ <<n - y, l>> \notin Less
    BY <1>3
  <2>2. n - y \in Nat /\ l \in Nat
    BY <1>1, <1>3, <2>1
  <2>3. ~(n - y < l)
    BY <2>1, <2>2
  <2> QED BY <1>4, <2>3
<1> QED BY <1>5

(* A nonempty set of numbers has a smallest one. *)
LEMMA SmallestExists ==
  ASSUME NEW S \in SUBSET Nat, S # {}
  PROVE  \E x \in S : \A y \in S : x <= y
<1> DEFINE Less == {ss \in Nat \X Nat : ss[1] < ss[2]}
<1>1. IsWellFoundedOn(Less, Nat)
  BY NatLessThanWellFounded DEF OpToRel
<1>2. PICK x \in S : \A y \in S : <<y, x>> \notin Less
  <2> HIDE DEF Less
  <2> QED BY <1>1, WFMin
<1>3. ASSUME NEW y \in S  PROVE x <= y
  <2>1. x \in Nat /\ y \in Nat /\ ~(y < x)
    BY <1>2
  <2> QED BY <2>1
<1> QED BY <1>3

Before(r) == {s \in After(post.after) : s.id < r.id}

LEMMA RecordsType ==
  ASSUME TypeOK, IdsSound
  PROVE  /\ IsFiniteSet(After(post.after))
         /\ \A r \in records : r.id \in Nat
         /\ \A r \in records : IsFiniteSet(Before(r)) /\ Cardinality(Before(r)) \in Nat
<1>1. IsFiniteSet(After(post.after))
  BY FS_Subset DEF IdsSound, After
<1>2. \A r \in records : r.id \in Nat
  BY DEF TypeOK
<1>3. \A r \in records : Before(r) \in SUBSET After(post.after)
  BY DEF Before
<1>4. \A r \in records : IsFiniteSet(Before(r)) /\ Cardinality(Before(r)) \in Nat
  BY <1>1, <1>3, FS_Subset, FS_CardinalityType
<1> QED BY <1>1, <1>2, <1>4

(* A page with room is everything beyond the cursor. *)
LEMMA LastPage ==
  ASSUME TypeOK, IdsSound, ~MorePages
  PROVE  Page = After(post.after)
<1>1. SUFFICES ASSUME NEW r \in After(post.after)
               PROVE  Cardinality(Before(r)) < Limit
  BY DEF Page, Before
<1>2. /\ IsFiniteSet(After(post.after)) /\ r \in records
      /\ Cardinality(After(post.after)) \in Nat
      /\ Cardinality(Before(r)) \in Nat
  BY RecordsType, FS_CardinalityType DEF After
<1>3. Before(r) \in SUBSET After(post.after) /\ Before(r) # After(post.after)
  <2>1. ~(r.id < r.id)
    BY <1>2, RecordsType
  <2> QED BY <1>1, <2>1 DEF Before
<1>4. Cardinality(Before(r)) <= Cardinality(After(post.after))
      /\ Cardinality(Before(r)) # Cardinality(After(post.after))
  BY <1>2, <1>3, FS_Subset
<1>5. Cardinality(After(post.after)) <= Limit
  BY <1>2 DEF MorePages
<1> QED BY <1>2, <1>4, <1>5

(* Otherwise the page holds everything between this cursor and the next. *)
LEMMA FullPage ==
  ASSUME TypeOK, IdsSound, MorePages
  PROVE  /\ LastId(Page) \in Nat
         /\ \A r \in After(post.after) : r \notin Page => r.id > LastId(Page)
<1> DEFINE Ids(S) == {r.id : r \in S}
<1>1. Page \subseteq After(post.after) /\ After(post.after) \subseteq records
  BY DEF Page, After
<1>2. After(post.after) # {}
  <2>1. SUFFICES ASSUME After(post.after) = {}  PROVE FALSE
    OBVIOUS
  <2> QED BY <2>1, FS_EmptySet DEF MorePages
<1>3. PICK first \in After(post.after) :
        \A r \in After(post.after) : first.id <= r.id
  <2>1. Ids(After(post.after)) \in SUBSET Nat /\ Ids(After(post.after)) # {}
    BY <1>1, <1>2, RecordsType
  <2>2. PICK x \in Ids(After(post.after)) : \A y \in Ids(After(post.after)) : x <= y
    BY <2>1, SmallestExists
  <2> QED BY <2>2
<1>4. first \in Page
  <2>1. Before(first) = {}
    <3>1. \A r \in After(post.after) : ~(r.id < first.id)
      BY <1>1, <1>3, RecordsType
    <3> QED BY <3>1 DEF Before
  <2>2. Cardinality(Before(first)) = 0
    BY <2>1, FS_EmptySet
  <2> QED BY <2>2 DEF Page, Before
<1>5. /\ LastId(Page) \in Ids(Page)
      /\ \A y \in Ids(Page) : LastId(Page) >= y
  <2>1. Ids(Page) \in SUBSET (0..nextId) /\ Ids(Page) # {} /\ nextId \in Nat
    BY <1>1, <1>4, RecordsType DEF IdsSound, TypeOK
  <2> HIDE DEF Ids
  <2>2. \E x \in Ids(Page) : \A y \in Ids(Page) : x >= y
    BY <2>1, LargestExists
  <2> QED BY <2>2 DEF LastId, Max, Ids
<1>6. PICK last \in Page : last.id = LastId(Page)
  BY <1>5
<1>7. ASSUME NEW r \in After(post.after), r \notin Page
      PROVE  r.id > last.id
  <2>1. r.id \in Nat /\ last.id \in Nat /\ r \in records /\ last \in records
    BY <1>1, <1>6, RecordsType
  <2>2. r.id # last.id
    BY <1>6, <1>7, <2>1 DEF IdsSound
  <2>3. ~(r.id < last.id)
    <3>1. SUFFICES ASSUME r.id < last.id  PROVE FALSE
      OBVIOUS
    <3>2. Before(r) \in SUBSET Before(last)
      <4>1. \A s \in After(post.after) : s.id < r.id => s.id < last.id
        BY <1>1, <2>1, <3>1, RecordsType
      <4> QED BY <4>1 DEF Before
    <3>3. Cardinality(Before(r)) <= Cardinality(Before(last))
      BY <2>1, <3>2, RecordsType, FS_Subset
    <3>4. Cardinality(Before(last)) < Limit
      BY <1>6 DEF Page, Before
    <3>5. Cardinality(Before(r)) < Limit
      BY <2>1, <3>3, <3>4, RecordsType
    <3> QED BY <1>7, <3>5 DEF Page, Before
  <2> QED BY <2>1, <2>2, <2>3
<1>8. last.id \in Nat
  BY <1>1, <1>6, RecordsType
<1> QED BY <1>6, <1>7, <1>8

-----------------------------------------------------------------------------
(* The consumer *)

(* A message that moves to where it may be. *)
LEMMA MoveSound ==
  ASSUME IInv, NEW m \in Messages, NEW to, Move(m, to),
         to \in {"queued", "accepted", "preserved", "unwanted", "acked"},
         to \in {"preserved", "acked"} => Preserved(m)' \/ Started(m),
         to = "unwanted" => Started(m),
         phase' = phase,
         \A x \in Messages \ {m} : Preserved(x) => Preserved(x)'
  PROVE  /\ place' \in [Messages -> {"queued", "accepted", "preserved", "unwanted",
                                     "acked"}]
         /\ ConsumerSound'
<1>1. /\ place' = [place EXCEPT ![m] = to] /\ place \in [Messages -> {"queued", "accepted", "preserved", "unwanted", "acked"}]
  BY DEF Move, IInv, TypeOK
<1>2. place'[m] = to /\ \A x \in Messages \ {m} : place'[x] = place[x]
  BY <1>1
<1>3. ConsumerSound'
  <2>1. SUFFICES ASSUME NEW x \in Messages
                 PROVE  /\ place'[x] \in {"preserved", "acked"}
                             => Preserved(x)' \/ Started(x)'
                        /\ place'[x] = "unwanted" => Started(x)'
    BY DEF ConsumerSound
  <2>2. Started(x)' <=> Started(x)
    BY DEF Started
  <2>3. CASE x = m
    BY <1>2, <2>2, <2>3
  <2>4. CASE x # m
    BY <1>2, <2>2, <2>4 DEF IInv, ConsumerSound
  <2> QED BY <2>3, <2>4
<1> QED BY <1>1, <1>3

(* Records that stay, or are taken away by the second look. *)
LEMMA FewerRecords ==
  ASSUME IInv, records' \in SUBSET records,
         UNCHANGED <<nextId, phase, stored, post, early>>
  PROVE  /\ records' \subseteq [id : Nat, message : Messages]
         /\ IdsSound' /\ CursorSound'
<1> USE DEF IInv
<1>1. records' \subseteq [id : Nat, message : Messages]
  BY DEF TypeOK
<1>2. IsFiniteSet(records')
  BY FS_Subset DEF IdsSound
<1>3. IdsSound'
  BY <1>2 DEF IdsSound
<1>4. Due' \subseteq Due
  BY DEF Due
<1>5. CursorSound'
  BY <1>4 DEF CursorSound
<1> QED BY <1>1, <1>3, <1>5

LEMMA FaultsType ==
  ASSUME TypeOK, Faulty \/ UNCHANGED faults
  PROVE  faults' \in 0..MaxFaults
BY DEF TypeOK, Faulty

LEMMA ExcludeKeeps ==
  ASSUME IInv, NEW m \in Messages, Exclude(m)
  PROVE  IInv'
<1> DEFINE to == IF SeenErased(m) THEN "acked" ELSE "accepted"
<1>1. Move(m, to) /\ UNCHANGED <<records, nextId, phase, stored, post, early, faults>>
  BY DEF Exclude
<1>2. \A x \in Messages : Preserved(x) => Preserved(x)'
  BY <1>1 DEF Preserved
<1>3. to \in {"accepted", "acked"} /\ (to = "acked" => Started(m))
  BY DEF SeenErased
<1> HIDE DEF to
<1>4. /\ place' \in [Messages -> {"queued", "accepted", "preserved", "unwanted",
                                  "acked"}]
      /\ ConsumerSound'
  BY <1>1, <1>2, <1>3, MoveSound
<1> QED BY <1>1, <1>4, FewerRecords DEF IInv, TypeOK

(* Either a reply came, or the message is queued again. *)
LEMMA RepliedSound ==
  ASSUME IInv, NEW m \in Messages, NEW to, Replied(m, to),
         to \in {"preserved", "unwanted", "acked"},
         to \in {"preserved", "acked"} => Preserved(m)' \/ Started(m),
         to = "unwanted" => Started(m),
         phase' = phase,
         \A x \in Messages \ {m} : Preserved(x) => Preserved(x)'
  PROVE  /\ place' \in [Messages -> {"queued", "accepted", "preserved", "unwanted",
                                     "acked"}]
         /\ ConsumerSound' /\ faults' \in 0..MaxFaults
<1>1. CASE Move(m, to) /\ UNCHANGED faults
  BY <1>1, MoveSound, FaultsType DEF IInv
<1>2. CASE Move(m, "queued") /\ Faulty
  BY <1>2, MoveSound, FaultsType DEF IInv
<1> QED BY <1>1, <1>2 DEF Replied

(* Only a letter that is stored before the erasure begins counts as early; *)
(* its id is new, so no cursor is beyond it.                               *)
LEMMA PreserveKeeps ==
  ASSUME IInv, NEW m \in Messages, Preserve(m)
  PROVE  IInv'
<1> USE DEF IInv
<1>1. Replied(m, "preserved") /\ UNCHANGED <<phase, stored, post>>
  BY DEF Preserve
<1>2. CASE \E r \in records : r.message = m
  <2>1. UNCHANGED <<records, nextId, early>>
    BY <1>2 DEF Preserve
  <2>2. Preserved(m)' /\ \A x \in Messages : Preserved(x) => Preserved(x)'
    BY <1>2, <2>1 DEF Preserved
  <2>3. /\ place' \in [Messages -> {"queued", "accepted", "preserved", "unwanted",
                                    "acked"}]
        /\ ConsumerSound' /\ faults' \in 0..MaxFaults
    BY <1>1, <2>2, RepliedSound
  <2> QED BY <1>1, <2>1, <2>3, FewerRecords DEF TypeOK
<1>3. CASE ~\E r \in records : r.message = m
  <2> DEFINE new == [id |-> nextId, message |-> m]
  <2>1. /\ records' = records \cup {new} /\ nextId' = nextId + 1
        /\ early' = IF phase = "live" THEN early \cup {nextId} ELSE early
    BY <1>3 DEF Preserve
  <2>2. /\ new \in [id : Nat, message : Messages] /\ new.id = nextId
        /\ new.message = m /\ nextId \in Nat \ {0}
    BY DEF TypeOK
  <2> HIDE DEF new
  <2>3. Preserved(m)' /\ \A x \in Messages : Preserved(x) => Preserved(x)'
    BY <2>1, <2>2 DEF Preserved
  <2>4. /\ place' \in [Messages -> {"queued", "accepted", "preserved", "unwanted",
                                    "acked"}]
        /\ ConsumerSound' /\ faults' \in 0..MaxFaults
    BY <1>1, <2>3, RepliedSound
  <2>5. TypeOK'
    BY <1>1, <2>1, <2>2, <2>4 DEF TypeOK
  <2>6. IdsSound'
    <3>1. IsFiniteSet(records')
      BY <2>1, FS_AddElement DEF IdsSound
    <3>2. \A r \in records : r.id \in Nat /\ 0 < r.id /\ r.id < nextId
      BY RecordsType DEF IdsSound
    <3>3. \A r \in records' : 0 < r.id /\ r.id < nextId'
      BY <2>1, <2>2, <3>2
    <3>4. \A r, s \in records' : r.id = s.id => r = s
      BY <2>1, <2>2, <3>2 DEF IdsSound
    <3>5. \A id \in early' : id < nextId'
      BY <2>1, <2>2 DEF IdsSound, TypeOK
    <3> QED BY <3>1, <3>3, <3>4, <3>5 DEF IdsSound
  <2>7. CursorSound'
    <3>1. CASE phase = "live"
      <4>1. post = NoPost /\ post' = NoPost /\ NoPost.at = "idle" /\ NoPost.after = 0
        BY <1>1, <3>1 DEF CursorSound, NoPost
      <4>2. \A r \in Due' : r.id > 0
        BY <2>1, <2>2, <2>6, RecordsType DEF Due, IdsSound
      <4> QED BY <1>1, <3>1, <4>1, <4>2 DEF CursorSound
    <3>2. CASE phase # "live"
      <4>1. nextId \notin early
        BY <2>2 DEF IdsSound
      <4>2. Due' = Due
        BY <2>1, <2>2, <3>2, <4>1 DEF Due
      <4> QED BY <1>1, <4>2 DEF CursorSound
    <3> QED BY <3>1, <3>2
  <2> QED BY <2>4, <2>5, <2>6, <2>7
<1> QED BY <1>2, <1>3

LEMMA LookAgainKeeps ==
  ASSUME IInv, NEW m \in Messages, LookAgain(m)
  PROVE  IInv'
<1> DEFINE to == IF SeenErased(m) THEN "unwanted" ELSE "acked"
<1>1. Replied(m, to) /\ UNCHANGED <<records, nextId, phase, stored, post, early>>
  BY DEF LookAgain
<1>2. \A x \in Messages : Preserved(x) => Preserved(x)'
  BY <1>1 DEF Preserved
<1>3. Preserved(m) \/ Started(m)
  BY DEF LookAgain, IInv, ConsumerSound
<1>4. /\ to \in {"unwanted", "acked"} /\ (to = "unwanted" => Started(m))
      /\ to = "acked" => Preserved(m)' \/ Started(m)
  BY <1>2, <1>3 DEF SeenErased
<1> HIDE DEF to
<1>5. /\ place' \in [Messages -> {"queued", "accepted", "preserved", "unwanted",
                                  "acked"}]
      /\ ConsumerSound' /\ faults' \in 0..MaxFaults
  BY <1>1, <1>2, <1>4, RepliedSound
<1> QED BY <1>1, <1>5, FewerRecords DEF IInv, TypeOK

LEMMA DiscardOneKeeps ==
  ASSUME IInv, NEW m \in Messages, DiscardOne(m)
  PROVE  IInv'
<1>1. Started(m) /\ UNCHANGED <<nextId, phase, stored, post, early>>
  BY DEF DiscardOne, IInv, ConsumerSound
<1>2. CASE records' = {r \in records : r.message # m} /\ Replied(m, "acked")
  <2>1. \A x \in Messages \ {m} : Preserved(x) => Preserved(x)'
    BY <1>2 DEF Preserved
  <2>2. /\ place' \in [Messages -> {"queued", "accepted", "preserved", "unwanted",
                                    "acked"}]
        /\ ConsumerSound' /\ faults' \in 0..MaxFaults
    BY <1>1, <1>2, <2>1, RepliedSound
  <2>3. records' \in SUBSET records
    BY <1>2
  <2> QED BY <1>1, <2>2, <2>3, FewerRecords DEF IInv, TypeOK
<1>3. CASE Move(m, "queued") /\ UNCHANGED <<records, faults>>
  <2>1. \A x \in Messages : Preserved(x) => Preserved(x)'
    BY <1>3 DEF Preserved
  <2>2. /\ place' \in [Messages -> {"queued", "accepted", "preserved", "unwanted",
                                    "acked"}]
        /\ ConsumerSound'
    BY <1>1, <1>3, <2>1, MoveSound
  <2> QED BY <1>1, <1>3, <2>2, FewerRecords DEF IInv, TypeOK
<1> QED BY <1>2, <1>3 DEF DiscardOne

-----------------------------------------------------------------------------
(* The deletion *)

LEMMA NoPostFields == NoPost.at = "idle" /\ NoPost.after = 0
BY DEF NoPost

LEMMA PostFields ==
  ASSUME TypeOK
  PROVE  /\ post \in [at : {"idle", "sweep", "bodies", "pause", "done"}, after : Nat]
         /\ \A a \in {"idle", "sweep", "bodies", "pause", "done"} :
              LET next == [post EXCEPT !.at = a]
              IN  /\ next.at = a /\ next.after = post.after
                  /\ next \in [at : {"idle", "sweep", "bodies", "pause", "done"},
                               after : Nat]
BY DEF TypeOK

LEMMA PhaseKeeps ==
  ASSUME IInv, BeginErasure \/ Drain
  PROVE  IInv'
<1> USE DEF IInv
<1>1. /\ phase' \in {"erasing", "drained"} /\ post = NoPost
      /\ UNCHANGED <<place, records, nextId, stored, post, early, faults>>
  BY DEF BeginErasure, Drain, CursorSound
<1>2. TypeOK'
  BY <1>1 DEF TypeOK
<1>3. IdsSound' /\ CursorSound'
  BY <1>1 DEF IdsSound, CursorSound, Due
<1>4. ConsumerSound'
  BY <1>1 DEF ConsumerSound, Preserved, Started
<1> QED BY <1>2, <1>3, <1>4

(* A post that got no reply is over; the next one begins at the first page, *)
(* and everything has a positive id.                                        *)
LEMMA ForgottenCursor ==
  ASSUME IdsSound', post' = NoPost
  PROVE  CursorSound'
<1>1. \A r \in Due' : r.id > 0
  BY DEF IdsSound, Due
<1> QED BY <1>1, NoPostFields DEF CursorSound

LEMMA StartPostKeeps ==
  ASSUME IInv, StartPost
  PROVE  IInv'
<1> USE DEF IInv
<1>1. /\ phase = "drained" /\ post' = [post EXCEPT !.at = "sweep"]
      /\ UNCHANGED <<place, records, nextId, phase, stored, early, faults>>
  BY DEF StartPost
<1>2. /\ post'.at = "sweep" /\ post'.after = post.after
      /\ post' \in [at : {"idle", "sweep", "bodies", "pause", "done"}, after : Nat]
  BY <1>1, PostFields
<1>3. TypeOK' /\ IdsSound'
  BY <1>1, <1>2 DEF TypeOK, IdsSound
<1>4. CursorSound'
  BY <1>1, <1>2 DEF CursorSound, Due
<1>5. ConsumerSound'
  BY <1>1 DEF ConsumerSound, Preserved, Started
<1> QED BY <1>3, <1>4, <1>5

LEMMA SweepPageKeeps ==
  ASSUME IInv, SweepPage
  PROVE  IInv'
<1> USE DEF IInv
<1> DEFINE next == IF MorePages THEN [at |-> "pause", after |-> LastId(Page)]
                                ELSE [post EXCEPT !.at = "bodies"]
<1>1. /\ post.at = "sweep" /\ records' = records \ Discarded(Page)
      /\ UNCHANGED <<place, nextId, phase, stored, early>>
      /\ PostReplies(next)
  BY DEF SweepPage
<1>2. phase = "drained"
  BY <1>1, NoPostFields DEF CursorSound
<1>3. records' \in SUBSET records
  BY <1>1
<1>4. IdsSound'
  BY <1>1, <1>3, FS_Subset DEF IdsSound
<1>5. ConsumerSound'
  <2>1. \A m \in Messages : Preserved(m) => Preserved(m)' \/ Started(m)
    BY <1>1, <1>2 DEF Preserved, Discarded, Started
  <2> QED BY <1>1, <2>1 DEF ConsumerSound, Started
<1>6. next \in [at : {"pause", "bodies"}, after : Nat]
  BY FullPage, PostFields
<1>7. \A r \in Due' : r \in After(post.after) /\ r \notin Page
  BY <1>1, <1>3 DEF Due, After, Discarded, CursorSound
<1>8. \A r \in Due' : r.id > next.after
  <2>1. CASE MorePages
    BY <1>7, <2>1, FullPage
  <2>2. CASE ~MorePages
    BY <1>7, <2>2, LastPage
  <2> QED BY <2>1, <2>2
<1>9. next.at = "bodies" => Due' = {}
  <2>1. CASE MorePages
    BY <2>1
  <2>2. CASE ~MorePages
    BY <1>7, <2>2, LastPage
  <2> QED BY <2>1, <2>2
<1> HIDE DEF next
<1>10. CASE post' = next /\ UNCHANGED faults
  <2>1. TypeOK'
    BY <1>1, <1>3, <1>6, <1>10 DEF TypeOK
  <2>2. CursorSound'
    BY <1>1, <1>2, <1>6, <1>8, <1>9, <1>10 DEF CursorSound
  <2> QED BY <1>4, <1>5, <2>1, <2>2
<1>11. CASE post' = NoPost /\ Faulty
  <2>1. TypeOK'
    BY <1>1, <1>3, <1>11, FaultsType, NoPostFields DEF TypeOK, NoPost
  <2> QED BY <1>4, <1>5, <1>11, <2>1, ForgottenCursor
<1> QED BY <1>1, <1>10, <1>11 DEF PostReplies

LEMMA DeleteBodiesKeeps ==
  ASSUME IInv, DeleteBodies
  PROVE  IInv'
<1> USE DEF IInv
<1> DEFINE a == IF Cardinality(stored) > BodyLimit THEN "pause" ELSE "done"
           next == [post EXCEPT !.at = a]
<1>1. /\ post.at = "bodies" /\ PostReplies(next)
      /\ UNCHANGED <<place, records, nextId, phase, early>>
  BY DEF DeleteBodies
<1>2. PICK page \in SUBSET stored :
        /\ Cardinality(page) = IF Cardinality(stored) > BodyLimit
                                 THEN BodyLimit ELSE Cardinality(stored)
        /\ stored' = stored \ page
  BY DEF DeleteBodies
<1>3. a = "done" => stored' = {}
  <2>1. IsFiniteSet(stored)
    BY FS_Subset DEF TypeOK
  <2>2. a = "done" => Cardinality(stored) = Cardinality(page)
    BY <1>2
  <2>3. a = "done" => stored = page
    BY <2>1, <2>2, FS_Subset
  <2> QED BY <1>2, <2>3
<1>4. a \in {"pause", "done"}
  OBVIOUS
<1> HIDE DEF a
<1>5. /\ next.at = a /\ next.after = post.after
      /\ next \in [at : {"idle", "sweep", "bodies", "pause", "done"}, after : Nat]
  BY <1>4, PostFields
<1> HIDE DEF next
<1>6. phase = "drained" /\ Due = {}
  BY <1>1, NoPostFields DEF CursorSound
<1>7. Due' = {} /\ IdsSound' /\ ConsumerSound'
  BY <1>1, <1>6 DEF Due, IdsSound, ConsumerSound, Preserved, Started
<1>8. CASE post' = next /\ UNCHANGED faults
  <2>1. TypeOK'
    BY <1>1, <1>2, <1>5, <1>8 DEF TypeOK
  <2>2. CursorSound'
    BY <1>1, <1>3, <1>4, <1>5, <1>6, <1>7, <1>8 DEF CursorSound
  <2> QED BY <1>7, <2>1, <2>2
<1>9. CASE post' = NoPost /\ Faulty
  <2>1. TypeOK'
    BY <1>1, <1>2, <1>9, FaultsType, NoPostFields DEF TypeOK, NoPost
  <2> QED BY <1>7, <1>9, <2>1, ForgottenCursor
<1> QED BY <1>1, <1>8, <1>9 DEF PostReplies

-----------------------------------------------------------------------------
(* The theorem *)

LEMMA InitSound == Init => IInv
<1> SUFFICES ASSUME Init  PROVE IInv
  OBVIOUS
<1>1. TypeOK
  BY DEF Init, TypeOK, NoPost
<1>2. IdsSound
  BY FS_EmptySet DEF Init, IdsSound
<1>3. CursorSound /\ ConsumerSound
  BY NoPostFields DEF Init, CursorSound, Due, ConsumerSound
<1> QED BY <1>1, <1>2, <1>3 DEF IInv

LEMMA NextKeeps == IInv /\ [Next]_vars => IInv'
<1> SUFFICES ASSUME IInv, [Next]_vars  PROVE IInv'
  OBVIOUS
<1>1. CASE \E m \in Messages : Exclude(m) \/ Preserve(m) \/ LookAgain(m) \/ DiscardOne(m)
  BY <1>1, ExcludeKeeps, PreserveKeeps, LookAgainKeeps, DiscardOneKeeps
<1>2. CASE BeginErasure \/ Drain
  BY <1>2, PhaseKeeps
<1>3. CASE StartPost
  BY <1>3, StartPostKeeps
<1>4. CASE SweepPage
  BY <1>4, SweepPageKeeps
<1>5. CASE DeleteBodies
  BY <1>5, DeleteBodiesKeeps
<1>6. CASE UNCHANGED vars
  BY <1>6 DEF vars, IInv, TypeOK, IdsSound, CursorSound, Due, ConsumerSound, Preserved,
     Started
<1> QED BY <1>1, <1>2, <1>3, <1>4, <1>5, <1>6 DEF Next

(* When the deletion is told that the organization is erased, everything of *)
(* it that was stored when the erasure began is gone, whatever pages, lost  *)
(* replies and new letters came in between; and no acknowledged letter of   *)
(* another organization is lost.                                            *)
THEOREM SweepExact == Spec => []SweepIsExact
<1>1. IInv => SweepIsExact
  BY DEF IInv, SweepIsExact, CursorSound, ConsumerSound, Due, Finished
<1> QED BY <1>1, InitSound, NextKeeps, PTL DEF Spec
=============================================================================
