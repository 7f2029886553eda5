-------------------------- MODULE SnapshotCapacity --------------------------
(***************************************************************************)
(* The SnapshotCapacity durable object: two slots that all organizations   *)
(* share.  A generation starts Copies only while it has a slot.            *)
(*                                                                         *)
(* acquire and release run one at a time (blockConcurrencyWhile), but they *)
(* await the coordinators' answers, and every coordinator goes on between  *)
(* two questions: each question is a step of its own here.  A runner may   *)
(* ask for any generation of its organization, long ended ones included    *)
(* (redelivered messages, stalled runners), its release may never be sent, *)
(* and the object may be interrupted at every await with what it deleted   *)
(* so far being kept.                                                      *)
(*                                                                         *)
(* An organization is what its coordinator promises: a SnapshotLifecycle.  *)
(***************************************************************************)
EXTENDS Naturals, FiniteSets

CONSTANTS
  Orgs,
  MaxSnapshots,   \* MAX_SNAPSHOTS
  MaxGeneration,  \* bound: generations of one organization
  MaxCopies,      \* bound: Copies of one generation
  NoKey           \* the content of a free slot

ASSUME CapacityAssumption ==
  /\ MaxSnapshots \in Nat \ {0}
  /\ MaxGeneration \in Nat
  /\ MaxCopies \in Nat
  /\ NoKey \notin Orgs \X (1..MaxGeneration)

VARIABLES
  org,      \* the lifecycle each organization's coordinator shows
  slots,    \* table snapshot_capacity_slots
  op,       \* the call the object is executing
  granted   \* generations a runner that is still running was let in with

vars == <<org, slots, op, granted>>

Coordinator == INSTANCE SnapshotLifecycle WITH life <- org

Slot == 1..MaxSnapshots
Key == Orgs \X (1..MaxGeneration)
OrgOf(key) == key[1]
GenerationOf(key) == key[2]

NoOp == [at |-> "idle", key |-> NoKey, left |-> {}, over |-> {}]
Op == [at : {"idle", "active?", "reap", "intents?", "choose",
             "release", "release intents?"},
       key : Key \cup {NoKey},
       left : SUBSET Slot,   \* slots the reaping loop has not seen yet
       over : SUBSET Slot]   \* slots whose generation was over from the start

TypeOK ==
  /\ org \in [Orgs -> Coordinator!Lifecycle]
  /\ slots \in [Slot -> Key \cup {NoKey}]
  /\ op \in Op
  /\ granted \in [Orgs -> 0..MaxGeneration]

Init ==
  /\ org = [o \in Orgs |-> Coordinator!NewLife]
  /\ slots = [s \in Slot |-> NoKey]
  /\ op = NoOp
  /\ granted = [o \in Orgs |-> 0]

-----------------------------------------------------------------------------
(* The slots and the coordinators' answers *)

Taken == {s \in Slot : slots[s] # NoKey}
Resident(key) == \E s \in Slot : slots[s] = key
Free(s) == slots' = [slots EXCEPT ![s] = NoKey]

(* isActive: a single getStats. *)
IsActive(key) ==
  /\ ~org[OrgOf(key)].erasing
  /\ org[OrgOf(key)].active = GenerationOf(key)

(* isTerminal asks two questions: first whether the generation has ended.  *)
(* In the variant one that has begun counts as ended.                      *)
HasBegun(key) == org[OrgOf(key)].last >= GenerationOf(key)
HasEnded(key) ==
  /\ org[OrgOf(key)].active # GenerationOf(key)
  /\ org[OrgOf(key)].last >= GenerationOf(key)

(* And then whether it left a Copy behind. *)
OwesCopy(key) ==
  org[OrgOf(key)].owed /\ org[OrgOf(key)].active = GenerationOf(key)

(* Ghost: the generation is over and owes nothing. *)
Over(key) == LET l == org[OrgOf(key)]
             IN  l.last >= GenerationOf(key) /\ l.active # GenerationOf(key)

-----------------------------------------------------------------------------
(* acquire *)

Acquire(key) ==
  /\ op = NoOp
  /\ op' = [NoOp EXCEPT !.at = "active?", !.key = key,
                        !.over = {s \in Taken : Over(slots[s])}]
  /\ UNCHANGED <<org, slots, granted>>

(* A resident generation is let in again without asking anybody. *)
ReuseOrReap(key) ==
  IF Resident(key)
    THEN /\ op' = NoOp
         /\ granted' = [granted EXCEPT ![OrgOf(key)] = GenerationOf(key)]
    ELSE /\ op' = [op EXCEPT !.at = "reap", !.left = Taken]
         /\ UNCHANGED granted

CheckActive ==
  /\ op.at = "active?"
  /\ IF IsActive(op.key)
       THEN ReuseOrReap(op.key)
       ELSE op' = NoOp /\ UNCHANGED granted
  /\ UNCHANGED <<org, slots>>

(* reapTerminalSlots: ask for the next resident. *)
NextLeft == CHOOSE s \in op.left : \A other \in op.left : s <= other

Skip(s) == op' = [op EXCEPT !.at = "reap", !.left = @ \ {s}]

ReapStats ==
  /\ op.at = "reap" /\ op.left # {}
  /\ IF HasEnded(slots[NextLeft])
       THEN op' = [op EXCEPT !.at = "intents?"]
       ELSE Skip(NextLeft)
  /\ UNCHANGED <<org, slots, granted>>

ReapIntents ==
  /\ op.at = "intents?"
  /\ IF OwesCopy(slots[NextLeft]) THEN UNCHANGED slots ELSE Free(NextLeft)
  /\ Skip(NextLeft)
  /\ UNCHANGED <<org, granted>>

ReapDone ==
  /\ op.at = "reap" /\ op.left = {}
  /\ op' = [op EXCEPT !.at = "choose"]
  /\ UNCHANGED <<org, slots, granted>>

(* A free slot, or the refusal. *)
Choose ==
  /\ op.at = "choose"
  /\ IF Taken = Slot
       THEN UNCHANGED <<slots, granted>>
       ELSE /\ slots' = [slots EXCEPT
                           ![CHOOSE s \in Slot \ Taken :
                               \A other \in Slot \ Taken : s <= other] = op.key]
            /\ granted' = [granted EXCEPT ![OrgOf(op.key)] = GenerationOf(op.key)]
  /\ op' = NoOp
  /\ UNCHANGED org

-----------------------------------------------------------------------------
(* release *)

Release(key) ==
  /\ op = NoOp
  /\ Resident(key)
  /\ op' = [NoOp EXCEPT !.at = "release", !.key = key]
  /\ UNCHANGED <<org, slots, granted>>

(* Variant with a bug: the caller is believed. *)
BelieveCaller ==
  /\ op.at = "release"
  /\ op' = [op EXCEPT !.at = "release intents?"]
  /\ UNCHANGED <<org, slots, granted>>
ReleaseStats ==
  /\ op.at = "release"
  /\ op' = IF HasEnded(op.key) THEN [op EXCEPT !.at = "release intents?"] ELSE NoOp
  /\ UNCHANGED <<org, slots, granted>>

ReleaseIntents ==
  /\ op.at = "release intents?"
  /\ IF OwesCopy(op.key)
       THEN UNCHANGED slots
       ELSE slots' = [s \in Slot |-> IF slots[s] = op.key THEN NoKey ELSE slots[s]]
  /\ op' = NoOp
  /\ UNCHANGED <<org, granted>>

(* A coordinator does not answer, or the object is restarted. *)
Interrupted ==
  /\ op # NoOp
  /\ op' = NoOp
  /\ UNCHANGED <<org, slots, granted>>

-----------------------------------------------------------------------------
(* The organizations and their runners *)

OrgStep(o, successors) ==
  /\ \E next \in successors : org' = [org EXCEPT ![o] = next]
  /\ UNCHANGED <<slots, op, granted>>

(* The runner announces a Copy after acquire let its generation in. *)
MayCopy(o) == granted[o] = org[o].active

Begin(o) == OrgStep(o, Coordinator!Begun(org[o]))
Announce(o) == MayCopy(o) /\ OrgStep(o, Coordinator!Announced(org[o]))
Settle(o) == OrgStep(o, {n \in Coordinator!Settled(org[o]) :
                           n.settled <= MaxCopies})
End(o) == OrgStep(o, Coordinator!Ended(org[o]) \cup Coordinator!Failed(org[o]))
Erase(o) == ~org[o].erasing /\ OrgStep(o, Coordinator!Erased(org[o]))

(* The run ends, or crashes; the next one has to ask again. *)
RunEnds(o) ==
  /\ granted[o] # 0
  /\ granted' = [granted EXCEPT ![o] = 0]
  /\ UNCHANGED <<org, slots, op>>

(* A runner knows the generations of its organization that have begun. *)
Known == {key \in Key : GenerationOf(key) <= org[OrgOf(key)].last}

Answer == \/ CheckActive \/ ReapStats \/ ReapIntents \/ ReapDone \/ Choose
          \/ ReleaseStats \/ ReleaseIntents

Next ==
  \/ \E key \in Known : Acquire(key) \/ Release(key)
  \/ Answer
  \/ \E o \in Orgs : \/ Begin(o) \/ Announce(o) \/ Settle(o) \/ End(o)
                     \/ Erase(o) \/ RunEnds(o)
  \/ Interrupted

Spec == Init /\ [][Next]_vars

-----------------------------------------------------------------------------
(* Properties *)

(* A Copy runs only in a slot, so no more than MAX_SNAPSHOTS organizations *)
(* copy at the same time, whatever was released early, reaped or retried   *)
(* while their coordinators went on (acquire against reapTerminalSlots,    *)
(* release and the coordinator's own steps).                               *)
CopyHasSlot == \A o \in Orgs : org[o].owed => Resident(<<o, org[o].active>>)

(* A runner that was let in keeps its slot as long as its generation runs: *)
(* a reaping for somebody else that started before cannot take it away.    *)
AdmittedKeepsSlot ==
  \A o \in Orgs : granted[o] # 0 /\ granted[o] = org[o].active
                    => Resident(<<o, granted[o]>>)

(* No generation takes two slots (retried acquire after a lost reply); the *)
(* table's uniqueness would turn the second into an error.                 *)
OneSlotEach ==
  \A s, t \in Slot : slots[s] = slots[t] /\ slots[s] # NoKey => s = t

(* A call that comes to choose has freed every slot whose generation was   *)
(* over when it was called: it never refuses because of a lost release.    *)
LostReleasesReaped ==
  op.at = "choose" => \A s \in op.over : slots[s] = NoKey

(* The table of slots is sound at every call that reads it.                *)
SlotsSound == TypeOK /\ AdmittedKeepsSlot /\ OneSlotEach /\ LostReleasesReaped

(* A generation's slot goes to nobody else while the generation runs.      *)
KeepsRunningResidents ==
  \A s \in Slot : slots[s] # NoKey /\ slots'[s] # slots[s] => Over(slots[s])
SlotsOutliveGenerations == [][KeepsRunningResidents]_vars
=============================================================================
