---------------------- MODULE SnapshotCapacity_proofs ----------------------
(***************************************************************************)
(* The slots of the capacity object, proved sound for any number of        *)
(* organizations, slots and generations.                                   *)
(*                                                                         *)
(* Neither CopyHasSlot nor the two conditions on residents is inductive:   *)
(* that a slot is freed only for a generation that is over depends on what *)
(* the call in progress has already been told, and on what cannot change   *)
(* behind its back meanwhile.  CallSound says what that is at every await. *)
(***************************************************************************)
EXTENDS SnapshotCapacity, WellFoundedInduction, TLAPS

USE CapacityAssumption DEF CapacityAssumption

(* What is true of an organization at every point of its lifecycle. *)
OrgSound ==
  \A o \in Orgs :
    /\ org[o].last <= MaxGeneration
    /\ org[o].active \in {0, org[o].last}
    /\ org[o].owed => org[o].active # 0
    /\ granted[o] <= org[o].last

(* No slot is given to a generation before it begins. *)
ResidentsBegan ==
  \A s \in Slot : slots[s] # NoKey
    => GenerationOf(slots[s]) <= org[OrgOf(slots[s])].last

Reaping == op.at \in {"reap", "intents?", "choose"}

(* What the call in progress may rely on, although every coordinator goes  *)
(* on between its questions: its generation has begun; it has no slot yet  *)
(* while others are reaped for it; the slots left to look at are taken;    *)
(* those that were over from the start still are, and those looked at are  *)
(* free; and a generation that was told to have ended has ended.           *)
CallSound ==
  /\ op.at = "idle" => op = NoOp
  /\ op.at # "idle" => op.key \in Known
  /\ Reaping => /\ ~Resident(op.key)
                /\ op.left \subseteq Taken
                /\ \A s \in op.over \ op.left : slots[s] = NoKey
  /\ \A s \in op.over : slots[s] # NoKey => Over(slots[s])
  /\ op.at = "intents?" => op.left # {} /\ Over(slots[NextLeft])
  /\ op.at = "choose" => op.left = {}
  /\ op.at = "release intents?" => Over(op.key)

IInv ==
  /\ TypeOK
  /\ OrgSound
  /\ ResidentsBegan
  /\ CallSound
  /\ CopyHasSlot
  /\ AdmittedKeepsSlot
  /\ OneSlotEach

-----------------------------------------------------------------------------
(* Slots, keys and the record of a call *)

(* A nonempty set of slots has a first slot. *)
LEMMA FirstExists ==
  ASSUME NEW S \in SUBSET Slot, S # {}
  PROVE  \E s \in S : \A t \in S : s <= t
<1> DEFINE Less == {ss \in Nat \X Nat : ss[1] < ss[2]}
<1>1. S \subseteq Nat
  BY DEF Slot
<1>2. IsWellFoundedOn(Less, Nat)
  BY NatLessThanWellFounded DEF OpToRel
<1>3. PICK s \in S : \A t \in S : <<t, s>> \notin Less
  <2> HIDE DEF Less
  <2> QED BY <1>1, <1>2, WFMin
<1>4. ASSUME NEW t \in S  PROVE s <= t
  <2>1. s \in Nat /\ t \in Nat /\ ~(t < s)
    BY <1>1, <1>3
  <2> QED BY <2>1
<1> QED BY <1>4

LEMMA NextLeftIsLeft ==
  ASSUME TypeOK, op.left # {}
  PROVE  NextLeft \in op.left /\ NextLeft \in Slot
<1>1. op.left \in SUBSET Slot
  BY DEF TypeOK, Op
<1> QED BY <1>1, FirstExists DEF NextLeft

LEMMA KeyFields ==
  ASSUME NEW key \in Key
  PROVE  /\ OrgOf(key) \in Orgs /\ GenerationOf(key) \in 1..MaxGeneration
         /\ key = <<OrgOf(key), GenerationOf(key)>> /\ key # NoKey
BY DEF Key, OrgOf, GenerationOf

LEMMA OrgFields ==
  ASSUME TypeOK, NEW o \in Orgs
  PROVE  /\ org[o] \in Coordinator!Lifecycle
         /\ org[o].active \in Nat /\ org[o].last \in Nat
         /\ org[o].owed \in BOOLEAN /\ granted[o] \in 0..MaxGeneration
BY DEF TypeOK, Coordinator!Lifecycle

(* A free slot or a key. *)
LEMMA SlotContent ==
  ASSUME TypeOK, NEW s \in Slot
  PROVE  slots[s] \in Key \cup {NoKey}
BY DEF TypeOK

LEMMA NoOpFields ==
  /\ NoOp \in Op
  /\ NoOp.at = "idle" /\ NoOp.key = NoKey /\ NoOp.left = {} /\ NoOp.over = {}
BY DEF NoOp, Op

LEMMA AcquireIsOp ==
  ASSUME NEW r \in Op, NEW key \in Key, NEW D \in SUBSET Slot
  PROVE  [r EXCEPT !.at = "active?", !.key = key, !.over = D] \in Op
BY DEF Op

LEMMA ReleaseIsOp ==
  ASSUME NEW r \in Op, NEW key \in Key
  PROVE  [r EXCEPT !.at = "release", !.key = key] \in Op
BY DEF Op

LEMMA ReapIsOp ==
  ASSUME NEW r \in Op, NEW L \in SUBSET Slot
  PROVE  [r EXCEPT !.at = "reap", !.left = L] \in Op
BY DEF Op

LEMMA AtFields ==
  ASSUME NEW r \in Op, NEW q,
         NEW a \in {"intents?", "choose", "release intents?"},
         q = [r EXCEPT !.at = a]
  PROVE  /\ q \in Op
         /\ q.at = a /\ q.key = r.key /\ q.left = r.left /\ q.over = r.over
BY DEF Op

LEMMA SkipFields ==
  ASSUME TypeOK, NEW s \in Slot, Skip(s)
  PROVE  /\ op' \in Op
         /\ op'.at = "reap" /\ op'.key = op.key
         /\ op'.left = op.left \ {s} /\ op'.over = op.over
<1>1. op \in Op /\ op.left \ {s} \in SUBSET Slot
  BY DEF TypeOK, Op
<1>2. op' = [op EXCEPT !.at = "reap", !.left = op.left \ {s}]
  BY DEF Skip
<1>3. op' \in Op
  BY <1>1, <1>2, ReapIsOp, Zenon
<1> QED BY <1>1, <1>2, <1>3 DEF Op

-----------------------------------------------------------------------------
(* Steps of the object *)

(* A call that is over leaves nothing to rely on. *)
LEMMA IdleSound ==
  ASSUME op' = NoOp
  PROVE  CallSound'
BY NoOpFields DEF CallSound, Reaping

(* Slots that keep their generation, or lose one that is over. *)
Frees == \A s \in Slot : \/ slots'[s] = slots[s]
                         \/ /\ slots[s] # NoKey /\ Over(slots[s])
                            /\ slots'[s] = NoKey

LEMMA FreesSound ==
  ASSUME IInv, Frees, UNCHANGED <<org, granted>>
  PROVE  /\ OrgSound' /\ ResidentsBegan' /\ CopyHasSlot'
         /\ AdmittedKeepsSlot' /\ OneSlotEach'
         /\ KeepsRunningResidents
<1> USE DEF IInv
<1>1. OrgSound'
  BY DEF OrgSound
<1>2. ResidentsBegan'
  BY DEF ResidentsBegan, Frees, OrgOf, GenerationOf
<1>3. ASSUME NEW o \in Orgs, NEW s \in Slot,
             slots[s] = <<o, org[o].active>>
      PROVE  slots'[s] = <<o, org[o].active>>
  BY <1>3 DEF Frees, Over, OrgOf, GenerationOf
<1>4. CopyHasSlot'
  BY <1>3 DEF CopyHasSlot, Resident
<1>5. AdmittedKeepsSlot'
  BY <1>3 DEF AdmittedKeepsSlot, Resident
<1>6. OneSlotEach'
  BY DEF OneSlotEach, Frees
<1>7. KeepsRunningResidents
  BY DEF KeepsRunningResidents, Frees
<1> QED BY <1>1, <1>2, <1>4, <1>5, <1>6, <1>7

LEMMA SameFrees ==
  ASSUME UNCHANGED slots
  PROVE  Frees
BY DEF Frees

Kept == IInv' /\ KeepsRunningResidents

LEMMA AcquireKeeps ==
  ASSUME IInv, NEW key \in Known, Acquire(key)
  PROVE  Kept
<1> DEFINE D == {s \in Taken : Over(slots[s])}
<1>1. key \in Key /\ D \in SUBSET Slot
  BY DEF Known, Taken
<1>2. op' = [NoOp EXCEPT !.at = "active?", !.key = key, !.over = D]
  BY DEF Acquire
<1>3. /\ op' \in Op
      /\ op'.at = "active?" /\ op'.key = key /\ op'.left = {} /\ op'.over = D
  <2> HIDE DEF D
  <2>1. op' \in Op
    BY <1>1, <1>2, NoOpFields, AcquireIsOp, Zenon
  <2> QED BY <1>1, <1>2, <2>1, NoOpFields DEF Op
<1>4. TypeOK'
  BY <1>3 DEF Acquire, IInv, TypeOK
<1>5. CallSound'
  BY <1>3 DEF Acquire, CallSound, Reaping, Known, Over, OrgOf
<1> QED BY <1>4, <1>5, SameFrees, FreesSound DEF Kept, IInv, Acquire

LEMMA ReleaseKeeps ==
  ASSUME IInv, NEW key \in Known, Release(key)
  PROVE  Kept
<1>1. key \in Key
  BY DEF Known
<1>2. /\ op' \in Op
      /\ op'.at = "release" /\ op'.key = key /\ op'.left = {} /\ op'.over = {}
  <2>1. op' \in Op
    BY <1>1, NoOpFields, ReleaseIsOp, Zenon DEF Release
  <2> QED BY <1>1, <2>1, NoOpFields DEF Release, Op
<1>3. TypeOK'
  BY <1>2 DEF Release, IInv, TypeOK
<1>4. CallSound'
  BY <1>2 DEF Release, CallSound, Reaping, Known
<1> QED BY <1>3, <1>4, SameFrees, FreesSound DEF Kept, IInv, Release

(* A call that ends without having changed anything. *)
LEMMA GivesUp ==
  ASSUME IInv, op' = NoOp, UNCHANGED <<org, slots, granted>>
  PROVE  Kept
<1>1. TypeOK'
  BY NoOpFields DEF IInv, TypeOK
<1> QED BY <1>1, IdleSound, SameFrees, FreesSound DEF Kept, IInv

(* The runner that asked is let in: its generation holds a slot, and no *)
(* generation is given a second one.                                    *)
LEMMA AdmitsSound ==
  ASSUME IInv, op' = NoOp, UNCHANGED org, op.key \in Known,
         slots' \in [Slot -> Key \cup {NoKey}],
         NEW s \in Slot, slots'[s] = op.key,
         slots[s] \in {NoKey, op.key},
         ~Resident(op.key) \/ slots[s] = op.key,
         \A t \in Slot \ {s} : slots'[t] = slots[t],
         granted' = [granted EXCEPT ![OrgOf(op.key)] = GenerationOf(op.key)]
  PROVE  Kept
<1> DEFINE o == OrgOf(op.key)
           g == GenerationOf(op.key)
<1>1. /\ op.key \in Key /\ o \in Orgs /\ g \in 1..MaxGeneration
      /\ op.key = <<o, g>> /\ op.key # NoKey /\ g <= org[o].last
  BY KeyFields DEF Known
<1> HIDE DEF o, g
<1>2. granted' = [granted EXCEPT ![o] = g]
  BY DEF o, g
<1>3. TypeOK'
  <2>1. granted' \in [Orgs -> 0..MaxGeneration]
    <3>1. g \in 0..MaxGeneration /\ granted \in [Orgs -> 0..MaxGeneration]
      BY <1>1 DEF IInv, TypeOK
    <3> QED BY <1>2, <3>1
  <2> QED BY <2>1, NoOpFields DEF IInv, TypeOK
<1>4. OrgSound'
  BY <1>1, <1>2 DEF IInv, TypeOK, OrgSound
<1>5. ResidentsBegan'
  BY <1>1 DEF IInv, ResidentsBegan, o, g, OrgOf, GenerationOf
<1>6. ASSUME NEW t \in Slot, slots[t] # NoKey
      PROVE  slots'[t] = slots[t]
  BY <1>6
<1>7. CopyHasSlot'
  <2>1. \A x \in Orgs : <<x, org[x].active>> # NoKey \/ ~org[x].owed
    BY OrgFields DEF IInv, OrgSound
  <2> QED BY <1>6, <2>1 DEF IInv, CopyHasSlot, Resident
<1>8. AdmittedKeepsSlot'
  <2>1. SUFFICES ASSUME NEW x \in Orgs, granted'[x] # 0, granted'[x] = org[x].active
                 PROVE  \E t \in Slot : slots'[t] = <<x, granted'[x]>>
    BY DEF AdmittedKeepsSlot, Resident
  <2>2. CASE x = o
    BY <1>1, <1>2, <2>2 DEF IInv, TypeOK
  <2>3. CASE x # o
    <3>1. granted'[x] = granted[x]
      BY <1>2, <2>3 DEF IInv, TypeOK
    <3>2. <<x, granted[x]>> # NoKey
      BY <2>1, <3>1 DEF IInv, TypeOK
    <3> QED BY <1>6, <2>1, <3>1, <3>2 DEF IInv, AdmittedKeepsSlot, Resident
  <2> QED BY <2>2, <2>3
<1>9. OneSlotEach'
  BY <1>1 DEF IInv, OneSlotEach, Resident
<1>10. KeepsRunningResidents
  BY <1>6 DEF KeepsRunningResidents
<1> QED BY <1>3, <1>4, <1>5, <1>7, <1>8, <1>9, <1>10, IdleSound DEF Kept, IInv

LEMMA CheckActiveKeeps ==
  ASSUME IInv, CheckActive
  PROVE  Kept
<1>1. CASE ~IsActive(op.key)
  BY <1>1, GivesUp DEF CheckActive
<1>2. CASE IsActive(op.key) /\ Resident(op.key)
  <2>1. PICK s \in Slot : slots[s] = op.key
    BY <1>2 DEF Resident
  <2>2. /\ op' = NoOp /\ UNCHANGED <<org, slots>>
        /\ granted' = [granted EXCEPT ![OrgOf(op.key)] = GenerationOf(op.key)]
    BY <1>2 DEF CheckActive, ReuseOrReap
  <2>3. op.key \in Known
    BY DEF IInv, CallSound, CheckActive
  <2>4. slots' \in [Slot -> Key \cup {NoKey}]
    BY <2>2 DEF IInv, TypeOK
  <2> QED BY <2>1, <2>2, <2>3, <2>4, AdmitsSound
<1>3. CASE IsActive(op.key) /\ ~Resident(op.key)
  <2>1. op \in Op /\ Taken \in SUBSET Slot
    BY DEF IInv, TypeOK, Taken
  <2>2. op' = [op EXCEPT !.at = "reap", !.left = Taken]
    BY <1>3 DEF CheckActive, ReuseOrReap
  <2>3. /\ op' \in Op
        /\ op'.at = "reap" /\ op'.key = op.key /\ op'.left = Taken
        /\ op'.over = op.over
    <3>1. op' \in Op
      BY <2>1, <2>2, ReapIsOp, Zenon
    <3> QED BY <2>1, <2>2, <3>1 DEF Op
  <2>4. UNCHANGED <<org, slots, granted>>
    BY <1>3 DEF CheckActive, ReuseOrReap
  <2>5. TypeOK'
    BY <2>3, <2>4 DEF IInv, TypeOK
  <2>6. CallSound'
    BY <1>3, <2>3, <2>4
       DEF IInv, CallSound, Reaping, Known, Over, OrgOf, Taken, Resident, CheckActive,
           TypeOK, Op
  <2> QED BY <2>4, <2>5, <2>6, SameFrees, FreesSound DEF Kept, IInv
<1> QED BY <1>1, <1>2, <1>3

LEMMA ReapStatsKeeps ==
  ASSUME IInv, ReapStats
  PROVE  Kept
<1> USE DEF IInv
<1>1. NextLeft \in op.left /\ NextLeft \in Slot
  BY NextLeftIsLeft DEF ReapStats
<1>2. UNCHANGED <<org, slots, granted>>
  BY DEF ReapStats
<1>3. slots[NextLeft] # NoKey
  BY <1>1 DEF CallSound, Reaping, ReapStats, Taken
<1>4. CASE HasEnded(slots[NextLeft])
  <2>1. /\ op' \in Op
        /\ op'.at = "intents?" /\ op'.key = op.key /\ op'.left = op.left
        /\ op'.over = op.over
    BY <1>4, AtFields, Zenon DEF ReapStats, TypeOK
  <2>2. TypeOK'
    BY <1>2, <2>1 DEF TypeOK
  <2>3. NextLeft' = NextLeft
    BY <2>1 DEF NextLeft
  <2>4. CallSound'
    BY <1>1, <1>2, <1>4, <2>1, <2>3
       DEF CallSound, Reaping, Known, Over, HasEnded, OrgOf, Taken, Resident, ReapStats
  <2> QED BY <1>2, <2>2, <2>4, SameFrees, FreesSound DEF Kept
<1>5. CASE ~HasEnded(slots[NextLeft])
  <2>1. /\ op' \in Op
        /\ op'.at = "reap" /\ op'.key = op.key /\ op'.left = op.left \ {NextLeft}
        /\ op'.over = op.over
    BY <1>1, <1>5, SkipFields DEF ReapStats
  <2>2. TypeOK'
    BY <1>2, <2>1 DEF TypeOK
  <2>3. NextLeft \notin op.over
    BY <1>1, <1>3, <1>5 DEF CallSound, Over, HasEnded
  <2>4. CallSound'
    BY <1>2, <2>1, <2>3
       DEF CallSound, Reaping, Known, Over, OrgOf, Taken, Resident, ReapStats
  <2> QED BY <1>2, <2>2, <2>4, SameFrees, FreesSound DEF Kept
<1> QED BY <1>4, <1>5

(* A generation that is over owes nothing, so its slot is always freed. *)
LEMMA ReapIntentsKeeps ==
  ASSUME IInv, ReapIntents
  PROVE  Kept
<1> USE DEF IInv
<1>1. op.left # {} /\ Over(slots[NextLeft])
  BY DEF CallSound, ReapIntents
<1>2. NextLeft \in op.left /\ NextLeft \in Slot
  BY <1>1, NextLeftIsLeft
<1>3. slots[NextLeft] # NoKey
  BY <1>2 DEF CallSound, Reaping, ReapIntents, Taken
<1>4. ~OwesCopy(slots[NextLeft])
  BY <1>1 DEF OwesCopy, Over
<1>5. slots' = [slots EXCEPT ![NextLeft] = NoKey] /\ UNCHANGED <<org, granted>>
  BY <1>4 DEF ReapIntents, Free
<1>6. Frees
  BY <1>1, <1>2, <1>3, <1>5 DEF Frees, TypeOK
<1>7. /\ op' \in Op
      /\ op'.at = "reap" /\ op'.key = op.key /\ op'.left = op.left \ {NextLeft}
      /\ op'.over = op.over
  BY <1>2, SkipFields DEF ReapIntents
<1>8. TypeOK'
  BY <1>5, <1>7 DEF TypeOK
<1>9. /\ \A s \in Slot \ {NextLeft} : slots'[s] = slots[s]
      /\ slots'[NextLeft] = NoKey
  BY <1>2, <1>5 DEF TypeOK
<1>10. CallSound'
  <2>1. /\ op.key \in Known /\ ~Resident(op.key) /\ op.left \subseteq Taken
        /\ \A s \in op.over \ op.left : slots[s] = NoKey
        /\ \A s \in op.over : slots[s] # NoKey => Over(slots[s])
    BY DEF CallSound, Reaping, ReapIntents
  <2>2. op.key # NoKey
    BY <2>1, KeyFields DEF Known
  <2>3. ~Resident(op.key)'
    BY <1>2, <1>7, <1>9, <2>1, <2>2 DEF Resident
  <2>4. op'.left \subseteq Taken'
    BY <1>7, <1>9, <2>1 DEF Taken
  <2>5. op'.over \subseteq Slot
    BY <1>8 DEF TypeOK, Op
  <2>6. \A s \in op'.over \ op'.left : slots'[s] = NoKey
    BY <1>7, <1>9, <2>1, <2>5
  <2>7. \A s \in op'.over : slots'[s] # NoKey => Over(slots[s])'
    <3>1. SUFFICES ASSUME NEW s \in op'.over, slots'[s] # NoKey
                   PROVE  Over(slots[s])'
      OBVIOUS
    <3>2. slots'[s] = slots[s]
      BY <1>9, <2>5, <3>1
    <3>3. Over(slots[s])
      <4>1. s \in op.over
        BY <1>7, <3>1
      <4>2. slots[s] # NoKey
        BY <3>1, <3>2
      <4> QED BY <2>1, <4>1, <4>2, Zenon
    <3> QED BY <1>5, <3>2, <3>3 DEF Over, OrgOf, GenerationOf
  <2>8. op'.key \in Known'
    BY <1>5, <1>7, <2>1 DEF Known
  <2> QED BY <1>7, <2>3, <2>4, <2>6, <2>7, <2>8 DEF CallSound, Reaping
<1> QED BY <1>5, <1>6, <1>8, <1>10, FreesSound DEF Kept

LEMMA ReapDoneKeeps ==
  ASSUME IInv, ReapDone
  PROVE  Kept
<1> USE DEF IInv
<1>1. /\ op' \in Op
      /\ op'.at = "choose" /\ op'.key = op.key /\ op'.left = op.left
      /\ op'.over = op.over
  BY AtFields, Zenon DEF ReapDone, TypeOK
<1>2. TypeOK'
  BY <1>1 DEF ReapDone, TypeOK
<1>3. CallSound'
  BY <1>1 DEF ReapDone, CallSound, Reaping, Known, Over, OrgOf, Taken, Resident
<1> QED BY <1>2, <1>3, SameFrees, FreesSound DEF Kept, ReapDone

LEMMA ChooseKeeps ==
  ASSUME IInv, Choose
  PROVE  Kept
<1>1. CASE Taken = Slot
  BY <1>1, GivesUp DEF Choose
<1>2. CASE Taken # Slot
  <2> DEFINE s == CHOOSE s \in Slot \ Taken : \A other \in Slot \ Taken : s <= other
  <2>1. s \in Slot \ Taken
    <3>1. Slot \ Taken \in SUBSET Slot /\ Slot \ Taken # {}
      BY <1>2 DEF Taken
    <3> QED BY <3>1, FirstExists
  <2>2. slots[s] = NoKey
    BY <2>1 DEF Taken
  <2>3. /\ slots' = [slots EXCEPT ![s] = op.key]
        /\ granted' = [granted EXCEPT ![OrgOf(op.key)] = GenerationOf(op.key)]
        /\ op' = NoOp /\ UNCHANGED org
    BY <1>2 DEF Choose
  <2>4. op.key \in Known /\ ~Resident(op.key)
    BY DEF IInv, CallSound, Reaping, Choose
  <2> HIDE DEF s
  <2>5. op.key \in Key
    BY <2>4 DEF Known
  <2>6. /\ slots' \in [Slot -> Key \cup {NoKey}] /\ slots'[s] = op.key
        /\ \A t \in Slot \ {s} : slots'[t] = slots[t]
    BY <2>1, <2>3, <2>5 DEF IInv, TypeOK
  <2> QED BY <2>1, <2>2, <2>3, <2>4, <2>6, AdmitsSound
<1> QED BY <1>1, <1>2

LEMMA ReleaseStatsKeeps ==
  ASSUME IInv, ReleaseStats
  PROVE  Kept
<1> USE DEF IInv
<1>1. CASE ~HasEnded(op.key)
  BY <1>1, GivesUp DEF ReleaseStats
<1>2. CASE HasEnded(op.key)
  <2>1. /\ op' \in Op
        /\ op'.at = "release intents?" /\ op'.key = op.key /\ op'.left = op.left
        /\ op'.over = op.over
    BY <1>2, AtFields, Zenon DEF ReleaseStats, TypeOK
  <2>2. TypeOK'
    BY <2>1 DEF ReleaseStats, TypeOK
  <2>3. CallSound'
    BY <1>2, <2>1
       DEF ReleaseStats, CallSound, Reaping, Known, Over, HasEnded, OrgOf, GenerationOf
  <2> QED BY <2>2, <2>3, SameFrees, FreesSound DEF Kept, ReleaseStats
<1> QED BY <1>1, <1>2

LEMMA ReleaseIntentsKeeps ==
  ASSUME IInv, ReleaseIntents
  PROVE  Kept
<1> USE DEF IInv
<1>1. Over(op.key) /\ op.key \in Known
  BY DEF CallSound, ReleaseIntents
<1>2. op.key # NoKey
  BY <1>1, KeyFields DEF Known
<1>3. ~OwesCopy(op.key)
  BY <1>1 DEF OwesCopy, Over
<1>4. /\ slots' = [s \in Slot |-> IF slots[s] = op.key THEN NoKey ELSE slots[s]]
      /\ op' = NoOp /\ UNCHANGED <<org, granted>>
  BY <1>3 DEF ReleaseIntents
<1>5. Frees
  BY <1>1, <1>2, <1>4 DEF Frees
<1>6. TypeOK'
  BY <1>4, NoOpFields DEF TypeOK
<1> QED BY <1>4, <1>5, <1>6, IdleSound, FreesSound DEF Kept

LEMMA RunEndsKeeps ==
  ASSUME IInv, NEW o \in Orgs, RunEnds(o)
  PROVE  Kept
<1> USE DEF IInv
<1>1. /\ granted' = [granted EXCEPT ![o] = 0] /\ UNCHANGED <<org, slots, op>>
      /\ granted \in [Orgs -> 0..MaxGeneration]
  BY DEF RunEnds, TypeOK
<1>2. TypeOK'
  BY <1>1 DEF TypeOK
<1>3. OrgSound'
  <2>1. \A x \in Orgs : granted'[x] <= org[x].last
    BY <1>1, OrgFields DEF OrgSound
  <2> QED BY <1>1, <2>1 DEF OrgSound
<1>4. ResidentsBegan' /\ CopyHasSlot' /\ OneSlotEach' /\ KeepsRunningResidents
  BY <1>1 DEF ResidentsBegan, CopyHasSlot, OneSlotEach, KeepsRunningResidents,
              Resident, OrgOf, GenerationOf
<1>5. CallSound'
  BY <1>1 DEF CallSound, Reaping, Known, Over, OrgOf, GenerationOf, Taken, Resident,
              NextLeft
<1>6. AdmittedKeepsSlot'
  BY <1>1 DEF AdmittedKeepsSlot, Resident
<1> QED BY <1>2, <1>3, <1>4, <1>5, <1>6 DEF Kept

-----------------------------------------------------------------------------
(* Steps of the coordinators, behind the back of the object *)

(* What a lifecycle step of o that ends in n may not do: go back, come back *)
(* to a generation that is over or to one a runner was let in with long     *)
(* ago, or owe a Copy of a generation no runner was let in with.            *)
MovesOn(o, n) ==
  /\ n \in Coordinator!Lifecycle
  /\ org[o].last <= n.last /\ n.last <= MaxGeneration
  /\ n.active \in {0, n.last}
  /\ n.active \in {0, org[o].active} \/ n.active > org[o].last
  /\ n.owed => /\ n.active # 0 /\ n.active = org[o].active
               /\ org[o].owed \/ granted[o] = org[o].active

LEMMA OverStays ==
  ASSUME IInv, NEW o \in Orgs, NEW n, MovesOn(o, n),
         org' = [org EXCEPT ![o] = n],
         NEW key \in Key, Over(key)
  PROVE  /\ org'[OrgOf(key)].last >= GenerationOf(key)
         /\ org'[OrgOf(key)].active # GenerationOf(key)
<1>1. /\ OrgOf(key) \in Orgs /\ GenerationOf(key) \in 1..MaxGeneration
      /\ org[OrgOf(key)].last >= GenerationOf(key)
      /\ org[OrgOf(key)].active # GenerationOf(key)
  BY KeyFields DEF Over
<1>2. CASE OrgOf(key) = o
  <2>1. org'[o] = n
    BY DEF IInv, TypeOK
  <2>2. /\ n.last \in Nat /\ n.active \in Nat
        /\ org[o].last \in Nat /\ org[o].active \in Nat
    BY OrgFields DEF IInv, MovesOn, Coordinator!Lifecycle
  <2> QED BY <1>1, <1>2, <2>1, <2>2 DEF MovesOn
<1>3. CASE OrgOf(key) # o
  <2>1. org'[OrgOf(key)] = org[OrgOf(key)]
    BY <1>1, <1>3 DEF IInv, TypeOK
  <2> QED BY <1>1, <2>1
<1> QED BY <1>2, <1>3

LEMMA OrgMoves ==
  ASSUME IInv, NEW o \in Orgs, NEW n, MovesOn(o, n),
         org' = [org EXCEPT ![o] = n], UNCHANGED <<slots, op, granted>>
  PROVE  Kept
<1> USE DEF IInv
<1>1. org'[o] = n /\ \A x \in Orgs \ {o} : org'[x] = org[x]
  BY DEF TypeOK
<1>2. TypeOK'
  BY DEF TypeOK, MovesOn
<1>3. \A x \in Orgs : org[x].last <= org'[x].last
  BY <1>1, OrgFields DEF MovesOn
<1>4. \A x \in Orgs : org[x].last \in Nat /\ org'[x].last \in Nat /\ granted[x] \in Nat
  BY <1>2 DEF TypeOK, Coordinator!Lifecycle
<1>5. OrgSound'
  <2>1. SUFFICES ASSUME NEW x \in Orgs
                 PROVE  /\ org'[x].last <= MaxGeneration
                        /\ org'[x].active \in {0, org'[x].last}
                        /\ org'[x].owed => org'[x].active # 0
                        /\ granted'[x] <= org'[x].last
    BY DEF OrgSound
  <2>2. granted'[x] <= org'[x].last
    BY <1>3, <1>4 DEF OrgSound
  <2>3. CASE x = o
    BY <1>1, <2>2, <2>3 DEF MovesOn
  <2>4. CASE x # o
    BY <1>1, <2>2, <2>4 DEF OrgSound
  <2> QED BY <2>3, <2>4
<1>6. ASSUME NEW key \in Key, GenerationOf(key) <= org[OrgOf(key)].last
      PROVE  GenerationOf(key) <= org'[OrgOf(key)].last
  <2>1. OrgOf(key) \in Orgs /\ GenerationOf(key) \in Nat
    BY KeyFields
  <2> QED BY <1>3, <1>4, <1>6, <2>1
<1>7. ResidentsBegan'
  BY <1>6, SlotContent DEF ResidentsBegan
<1>8. ASSUME NEW key \in Key, Over(key)
      PROVE  Over(key)'
  BY <1>8, OverStays DEF Over, OrgOf, GenerationOf
<1>9. CallSound'
  <2>1. op.at = "idle" => op = NoOp
    BY DEF CallSound
  <2>2. op.at # "idle" => op.key \in Known'
    <3>1. SUFFICES ASSUME op.at # "idle"  PROVE op.key \in Known'
      OBVIOUS
    <3>2. op.key \in Key /\ GenerationOf(op.key) <= org[OrgOf(op.key)].last
      BY <3>1 DEF CallSound, Known
    <3> QED BY <1>6, <3>2 DEF Known
  <2>3. Reaping => /\ ~Resident(op.key)
                   /\ op.left \subseteq Taken
                   /\ \A s \in op.over \ op.left : slots[s] = NoKey
    BY DEF CallSound
  <2>4. ASSUME NEW s \in op.over, slots[s] # NoKey
        PROVE  Over(slots[s])'
    <3>1. slots[s] \in Key
      BY <2>4, SlotContent DEF TypeOK, Op
    <3>2. Over(slots[s])
      BY <2>4, Zenon DEF CallSound
    <3> QED BY <1>8, <3>1, <3>2 DEF Over, OrgOf, GenerationOf
  <2>5. op.at = "intents?" => op.left # {} /\ Over(slots[NextLeft])'
    <3>1. SUFFICES ASSUME op.at = "intents?"
                   PROVE  op.left # {} /\ Over(slots[NextLeft])'
      OBVIOUS
    <3>2. op.left # {} /\ Over(slots[NextLeft])
      BY <3>1 DEF CallSound
    <3>3. slots[NextLeft] \in Key
      BY <2>3, <3>1, <3>2, NextLeftIsLeft, SlotContent DEF Reaping, Taken
    <3>4. slots'[NextLeft'] = slots[NextLeft]
      BY DEF NextLeft
    <3> QED BY <1>8, <3>2, <3>3, <3>4 DEF Over, OrgOf, GenerationOf
  <2>6. op.at = "choose" => op.left = {}
    BY DEF CallSound
  <2>7. op.at = "release intents?" => Over(op.key)'
    <3>1. SUFFICES ASSUME op.at = "release intents?"  PROVE Over(op.key)'
      OBVIOUS
    <3>2. op.key \in Key /\ Over(op.key)
      BY <3>1 DEF CallSound, Known
    <3> QED BY <1>8, <3>2 DEF Over, OrgOf, GenerationOf
  <2> QED BY <2>1, <2>2, <2>3, <2>4, <2>5, <2>6, <2>7
          DEF CallSound, Reaping, Resident, Taken
<1>10. CopyHasSlot'
  <2>1. SUFFICES ASSUME NEW x \in Orgs, org'[x].owed
                 PROVE  Resident(<<x, org'[x].active>>)
    BY DEF CopyHasSlot, Resident
  <2>2. CASE x = o
    <3>1. n.owed /\ n.active # 0 /\ n.active = org[o].active
      BY <1>1, <2>1, <2>2 DEF MovesOn
    <3>2. Resident(<<o, org[o].active>>)
      <4>1. CASE org[o].owed
        BY <4>1 DEF CopyHasSlot
      <4>2. CASE granted[o] = org[o].active
        BY <3>1, <4>2 DEF AdmittedKeepsSlot
      <4> QED BY <3>1, <4>1, <4>2 DEF MovesOn
    <3> QED BY <1>1, <2>2, <3>1, <3>2
  <2>3. CASE x # o
    BY <1>1, <2>1, <2>3 DEF CopyHasSlot
  <2> QED BY <2>2, <2>3
<1>11. AdmittedKeepsSlot'
  <2>1. SUFFICES ASSUME NEW x \in Orgs, granted[x] # 0, granted[x] = org'[x].active
                 PROVE  Resident(<<x, granted[x]>>)
    BY DEF AdmittedKeepsSlot, Resident
  <2>2. granted[x] = org[x].active
    <3>1. CASE x = o
      <4>1. n.active \in {0, org[o].active} \/ n.active > org[o].last
        BY DEF MovesOn
      <4>2. granted[o] <= org[o].last
        BY DEF OrgSound
      <4> QED BY <1>1, <1>4, <2>1, <3>1, <4>1, <4>2
    <3>2. CASE x # o
      BY <1>1, <2>1, <3>2
    <3> QED BY <3>1, <3>2
  <2> QED BY <2>1, <2>2 DEF AdmittedKeepsSlot
<1>12. OneSlotEach' /\ KeepsRunningResidents
  BY DEF OneSlotEach, KeepsRunningResidents
<1> QED BY <1>2, <1>5, <1>7, <1>9, <1>10, <1>11, <1>12 DEF Kept

(* What the successors of a lifecycle have in their fields. *)
LEMMA BegunFields ==
  ASSUME NEW l \in Coordinator!Lifecycle, NEW n \in Coordinator!Begun(l)
  PROVE  /\ l.active = 0 /\ l.last < MaxGeneration
         /\ n \in Coordinator!Lifecycle
         /\ n.active = l.last + 1 /\ n.last = l.last + 1 /\ n.owed = l.owed
<1> DEFINE g == l.last + 1
<1>1. /\ l.active = 0 /\ l.last < MaxGeneration
      /\ n = [l EXCEPT !.active = g, !.last = g, !.settled = 0]
  BY DEF Coordinator!Begun
<1>2. g \in Nat
  BY DEF Coordinator!Lifecycle
<1> HIDE DEF g
<1>3. \A x \in Nat : [l EXCEPT !.active = x, !.last = x, !.settled = 0] \in Coordinator!Lifecycle
  BY DEF Coordinator!Lifecycle
<1>4. n \in Coordinator!Lifecycle
  BY <1>1, <1>2, <1>3, Zenon
<1>5. n.active = g /\ n.last = g /\ n.owed = l.owed
  BY <1>1, <1>4 DEF Coordinator!Lifecycle
<1> QED BY <1>1, <1>4, <1>5 DEF g

LEMMA EndedFields ==
  ASSUME NEW l \in Coordinator!Lifecycle, NEW n \in Coordinator!Ended(l)
  PROVE  /\ ~l.owed /\ n \in Coordinator!Lifecycle
         /\ n.active = 0 /\ n.last = l.last /\ n.owed = l.owed
<1>1. ~l.owed /\ n = [l EXCEPT !.active = 0, !.settled = 0]
  BY DEF Coordinator!Ended
<1>2. [l EXCEPT !.active = 0, !.settled = 0] \in Coordinator!Lifecycle
  BY DEF Coordinator!Lifecycle
<1> QED BY <1>1, <1>2 DEF Coordinator!Lifecycle

LEMMA AnnouncedFields ==
  ASSUME NEW l \in Coordinator!Lifecycle, NEW n \in Coordinator!Announced(l)
  PROVE  /\ l.active # 0 /\ n \in Coordinator!Lifecycle
         /\ n.active = l.active /\ n.last = l.last
<1>1. l.active # 0 /\ n = [l EXCEPT !.owed = TRUE]
  BY DEF Coordinator!Announced
<1>2. [l EXCEPT !.owed = TRUE] \in Coordinator!Lifecycle
  BY DEF Coordinator!Lifecycle
<1> QED BY <1>1, <1>2 DEF Coordinator!Lifecycle

LEMMA SettledFields ==
  ASSUME NEW l \in Coordinator!Lifecycle, NEW n \in Coordinator!Settled(l)
  PROVE  /\ n \in Coordinator!Lifecycle
         /\ n.active = l.active /\ n.last = l.last /\ ~n.owed
<1> DEFINE done == l.settled + 1
<1>1. \/ n = [l EXCEPT !.owed = FALSE, !.settled = done]
      \/ n = [l EXCEPT !.owed = FALSE]
  BY DEF Coordinator!Settled
<1>2. done \in Nat
  BY DEF Coordinator!Lifecycle
<1> HIDE DEF done
<1>3. \A x \in Nat : [l EXCEPT !.owed = FALSE, !.settled = x] \in Coordinator!Lifecycle
  BY DEF Coordinator!Lifecycle
<1>4. [l EXCEPT !.owed = FALSE] \in Coordinator!Lifecycle
  BY DEF Coordinator!Lifecycle
<1>5. CASE n = [l EXCEPT !.owed = FALSE, !.settled = done]
  <2>1. n \in Coordinator!Lifecycle
    BY <1>2, <1>3, <1>5, Zenon
  <2> QED BY <1>5, <2>1 DEF Coordinator!Lifecycle
<1>6. CASE n = [l EXCEPT !.owed = FALSE]
  BY <1>4, <1>6 DEF Coordinator!Lifecycle
<1> QED BY <1>1, <1>5, <1>6

LEMMA FailedFields ==
  ASSUME NEW l \in Coordinator!Lifecycle, NEW n \in Coordinator!Failed(l)
  PROVE  /\ n \in Coordinator!Lifecycle
         /\ n.active = 0 /\ n.last = l.last /\ ~n.owed
<1>1. n = [l EXCEPT !.owed = FALSE, !.active = 0, !.settled = 0]
  BY DEF Coordinator!Failed
<1>2. [l EXCEPT !.owed = FALSE, !.active = 0, !.settled = 0] \in Coordinator!Lifecycle
  BY DEF Coordinator!Lifecycle
<1> QED BY <1>1, <1>2 DEF Coordinator!Lifecycle

LEMMA ErasedFields ==
  ASSUME NEW l \in Coordinator!Lifecycle, NEW n \in Coordinator!Erased(l)
  PROVE  /\ n \in Coordinator!Lifecycle
         /\ n.active = l.active /\ n.last = l.last /\ n.owed = l.owed
<1>1. n = [l EXCEPT !.erasing = TRUE]
  BY DEF Coordinator!Erased
<1>2. [l EXCEPT !.erasing = TRUE] \in Coordinator!Lifecycle
  BY DEF Coordinator!Lifecycle
<1> QED BY <1>1, <1>2 DEF Coordinator!Lifecycle

LEMMA LifecycleKeeps ==
  ASSUME IInv, NEW o \in Orgs,
         Begin(o) \/ Announce(o) \/ Settle(o) \/ End(o) \/ Erase(o)
  PROVE  Kept
<1> DEFINE l == org[o]
<1>1. /\ l \in Coordinator!Lifecycle /\ l.last \in Nat /\ l.active \in Nat
      /\ l.last <= MaxGeneration /\ l.active \in {0, l.last}
      /\ l.owed => l.active # 0
  BY OrgFields DEF IInv, OrgSound
<1>2. ASSUME NEW S, OrgStep(o, S), \A n \in S : MovesOn(o, n)
      PROVE  Kept
  BY <1>2, OrgMoves DEF OrgStep
<1>3. CASE Begin(o)
  <2>1. \A n \in Coordinator!Begun(l) : MovesOn(o, n)
    BY <1>1, BegunFields DEF MovesOn
  <2> QED BY <1>2, <1>3, <2>1 DEF Begin
<1>4. CASE Announce(o)
  <2>1. \A n \in Coordinator!Announced(l) : MovesOn(o, n)
    BY <1>1, <1>4, AnnouncedFields DEF MovesOn, Announce, MayCopy
  <2> QED BY <1>2, <1>4, <2>1 DEF Announce
<1>5. CASE Settle(o)
  <2>1. \A n \in Coordinator!Settled(l) : MovesOn(o, n)
    BY <1>1, SettledFields DEF MovesOn
  <2> QED BY <1>2, <1>5, <2>1 DEF Settle
<1>6. CASE End(o)
  <2>1. \A n \in Coordinator!Ended(l) \cup Coordinator!Failed(l) : MovesOn(o, n)
    BY <1>1, EndedFields, FailedFields DEF MovesOn
  <2> QED BY <1>2, <1>6, <2>1 DEF End
<1>7. CASE Erase(o)
  <2>1. \A n \in Coordinator!Erased(l) : MovesOn(o, n)
    BY <1>1, ErasedFields DEF MovesOn
  <2> QED BY <1>2, <1>7, <2>1 DEF Erase
<1> QED BY <1>3, <1>4, <1>5, <1>6, <1>7

-----------------------------------------------------------------------------
(* The theorems *)

LEMMA InitSound == Init => IInv
<1> SUFFICES ASSUME Init  PROVE IInv
  OBVIOUS
<1>1. /\ Coordinator!NewLife \in Coordinator!Lifecycle
      /\ Coordinator!NewLife.active = 0 /\ Coordinator!NewLife.last = 0
      /\ Coordinator!NewLife.owed = FALSE
  BY DEF Coordinator!NewLife, Coordinator!Lifecycle
<1>2. TypeOK
  BY <1>1, NoOpFields DEF Init, TypeOK
<1>3. OrgSound /\ CopyHasSlot /\ AdmittedKeepsSlot
  BY <1>1 DEF Init, OrgSound, CopyHasSlot, AdmittedKeepsSlot
<1>4. ResidentsBegan /\ OneSlotEach
  BY DEF Init, ResidentsBegan, OneSlotEach
<1>5. CallSound
  BY NoOpFields DEF Init, CallSound, Reaping
<1> QED BY <1>2, <1>3, <1>4, <1>5 DEF IInv

LEMMA NextKeeps == IInv /\ [Next]_vars => IInv' /\ KeepsRunningResidents
<1> SUFFICES ASSUME IInv, [Next]_vars  PROVE Kept
  BY DEF Kept
<1>1. CASE \E key \in Known : Acquire(key) \/ Release(key)
  BY <1>1, AcquireKeeps, ReleaseKeeps
<1>2. CASE Answer
  BY <1>2, CheckActiveKeeps, ReapStatsKeeps, ReapIntentsKeeps, ReapDoneKeeps,
     ChooseKeeps, ReleaseStatsKeeps, ReleaseIntentsKeeps DEF Answer
<1>3. CASE \E o \in Orgs : \/ Begin(o) \/ Announce(o) \/ Settle(o) \/ End(o)
                          \/ Erase(o) \/ RunEnds(o)
  BY <1>3, LifecycleKeeps, RunEndsKeeps
<1>4. CASE Interrupted
  BY <1>4, GivesUp DEF Interrupted
<1>5. CASE UNCHANGED vars
  <2>1. IInv'
    BY <1>5 DEF vars, IInv, TypeOK, OrgSound, ResidentsBegan, CallSound, Reaping, Known,
       Over, OrgOf, GenerationOf, Taken, Resident, NextLeft, CopyHasSlot,
       AdmittedKeepsSlot, OneSlotEach
  <2> QED BY <1>5, <2>1 DEF Kept, vars, KeepsRunningResidents
<1> QED BY <1>1, <1>2, <1>3, <1>4, <1>5 DEF Next

LEMMA Invariance == Spec => []IInv
BY InitSound, NextKeeps, PTL DEF Spec

(* A Copy runs only in a slot, however many organizations compete for them, *)
(* whatever is released, reaped, retried or interrupted meanwhile.          *)
THEOREM CopiesHaveSlots == Spec => []CopyHasSlot
<1>1. IInv => CopyHasSlot
  BY DEF IInv
<1> QED BY <1>1, Invariance, PTL

(* The table is sound at every await: an admitted runner keeps its slot, no *)
(* generation has two, and a call that comes to choose has freed every slot *)
(* whose generation was over when it was called.                            *)
THEOREM SlotsAreSound == Spec => []SlotsSound
<1>1. IInv => LostReleasesReaped
  BY DEF IInv, CallSound, Reaping, LostReleasesReaped
<1>2. IInv => SlotsSound
  BY <1>1 DEF IInv, SlotsSound
<1> QED BY <1>2, Invariance, PTL

(* A slot is taken from a generation only when that generation is over.     *)
THEOREM SlotsAreKept == Spec => SlotsOutliveGenerations
<1>1. IInv /\ [Next]_vars => [KeepsRunningResidents]_vars
  BY NextKeeps
<1> QED BY <1>1, Invariance, PTL DEF Spec, SlotsOutliveGenerations
=============================================================================
