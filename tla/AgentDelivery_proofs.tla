----------------------- MODULE AgentDelivery_proofs -----------------------
(***************************************************************************)
(* The safety of the composed delivery path, proved for every number of    *)
(* deliveries, days, faults and generations: one writer at a time,         *)
(* receipts that tell the truth about the rows, no fact lost on the way to *)
(* its snapshot, no fact published on two days, and no reservation that    *)
(* nothing wakes up.                                                       *)
(*                                                                         *)
(* The inductive invariant is built in layers, each kept by every step     *)
(* given the ones below it: the coordinator's own invariant (proved with   *)
(* it), what handlers and receipts may rely on, which rows may still land, *)
(* where the fact shows although it moved on, what the Copies have read,   *)
(* and how the days it was published on are linked to where it is.         *)
(***************************************************************************)
EXTENDS AgentDelivery, AgentDeliveryCoordinator_proofs

USE ConstantsAssumption, MaxFaultsAssumption
    DEF ConstantsAssumption, MaxFaultsAssumption

-----------------------------------------------------------------------------
(* The inductive invariant *)

(* A row FINAL shows: the newest of its day, and no tombstone. *)
LiveRows ==
  {r \in landed : r.live /\ \A s \in landed : s.day = r.day => s.rev <= r.rev}

(* A delivery that may have written rows, and one whose rows were priced   *)
(* against the day the fact was found on.                                  *)
Started(d) == d \in Active /\ receipt[d].write # "none"
Priced(d) == d \in Active /\ (At(d, "store") \/ receipt[d].stored)
PrevDay(d) == IF At(d, "store") THEN run[d].prev ELSE receipt[d].prev

(* What a handler may rely on at each of its steps. *)
HandlerSound(d) ==
  /\ run[d].at \in {"arm", "reserve", "keep"} => receipt[d].revision = 0
  /\ run[d].at = "keep" => d \in Active
  /\ run[d].at \in {"begin", "price", "store"} => receipt[d].revision # 0
  /\ Writing(d) => Earliest(d) /\ receipt[d].phase = "registered"
  /\ run[d].at \in {"price", "store"} => ~receipt[d].stored
  /\ run[d].at \in {"plan", "insert", "write", "confirm", "commit"}
       => receipt[d].stored
  /\ run[d].at \in {"insert", "write", "confirm", "commit"}
       => days[d] = PlannedDays(d) /\ PlannedLinks(d) \subseteq links
  /\ run[d].at \in {"write", "confirm", "commit"} => receipt[d].write # "none"
  /\ run[d].at = "confirm" => Rows(d) \subseteq landed
  /\ run[d].at = "commit" => receipt[d].write = "done"
  /\ run[d].at = "finish"
       => receipt[d].phase = "committing" /\ (run[d].held <=> d \in Active)
  /\ run[d].at \in {"handoff", "completed"}
       => receipt[d].phase = "committing" /\ d \notin Active
  /\ run[d].at = "clear" => d \notin Active

(* What a receipt says of the reservation and of the rows. *)
ReceiptSound(d) ==
  /\ receipt[d].phase = "complete" => d \notin Active
  /\ receipt[d].phase \in {"committing", "complete"} => receipt[d].write = "done"
  /\ receipt[d].write = "done" => Rows(d) \subseteq landed
  /\ receipt[d].write # "none" => receipt[d].stored
  /\ receipt[d].stored => receipt[d].revision # 0
  /\ ~receipt[d].stored => receipt[d].prev = NoDay
  /\ d \in Active /\ receipt[d].revision # 0 => receipt[d].revision = sequence[d]
  /\ d \in Active /\ receipt[d].stored => Earliest(d)
  /\ Started(d) => days[d] = PlannedDays(d) /\ PlannedLinks(d) \subseteq links

(* The days of a reservation cover what its delivery may write. *)
DaysSound(d) ==
  /\ newDay[d] \in Window
  /\ d \in Active => newDay[d] \in days[d] /\ days[d] \subseteq PlannedDays(d)
  /\ d \notin Active => days[d] = {}

SequencesSound ==
  /\ \A d \in Active : sequence[d] <= lastSequence
  /\ \A d, e \in Active : sequence[d] = sequence[e] => d = e

(* No day passes and nothing is erased here, so pruning finds nothing. *)
DaysRetained ==
  /\ today = RetentionDays /\ ~erasing
  /\ dirty \cup ActiveDays \subseteq Window
  /\ LinkNodes(links) \subseteq dirty \cup ActiveDays

Bookkeeping ==
  /\ \A d \in Deliveries : HandlerSound(d) /\ ReceiptSound(d) /\ DaysSound(d)
  /\ SequencesSound
  /\ DaysRetained

RowsSound ==
  /\ \A r \in landed \cup late :
       /\ r.day \in Window
       /\ r.rev <= lastSequence
       /\ \A d \in Active : /\ r.rev <= sequence[d]
                            /\ r.rev = sequence[d] => Started(d) /\ r \in Rows(d)
  /\ \A r, s \in landed \cup late : r.live /\ s.live /\ r.rev = s.rev => r = s

(* Rows that may still land are there already, or hold their day back. *)
LateHeld ==
  \A r \in late :
    \/ r \in landed
    \/ r.day \in incomplete
    \/ \E d \in Deliveries : Started(d) /\ r \in Rows(d)

(* A day on which the fact still shows though it moved on is held back. *)
Held(day) ==
  day \in incomplete \/ \E d \in Deliveries : Started(d) /\ day \in days[d]
StaleIsHeld ==
  \A r \in LiveRows, s \in landed \cup late :
    s.live /\ r.rev < s.rev => Held(r.day)
PricedOnLatest ==
  \A d \in Deliveries : Priced(d) =>
    \A r \in LiveRows :
      r.rev < receipt[d].revision
        => r.day \in incomplete \cup {PrevDay(d), newDay[d]}

(* The places the fact may be found on next are linked to where it is      *)
(* published.  Days are connected when no set of days that links do not    *)
(* leave separates them.                                                   *)
Saturated(S) == \A l \in links : l[1] \in S <=> l[2] \in S
Connected(a, b) == \A S \in SUBSET Day : Saturated(S) => (a \in S <=> b \in S)
Heads ==
  {r \in landed \cup late : r.live /\ \A s \in landed : s.live => s.rev <= r.rev}
PublishedConnected ==
  /\ \A p \in published, r \in Heads : Connected(p.day, r.day)
  /\ \A d \in Deliveries, p \in published :
       Priced(d) => PrevDay(d) \in Day /\ Connected(p.day, PrevDay(d))

(* What the Copies read so far, and what was published. *)
CopiedDays ==
  UNION {ChunkDays(copy \div TargetCount) : copy \in 0..copies - 1}
CopiesSound ==
  /\ gate.phase # "snapshot" => copies = 0 /\ copied = {}
  /\ gate.phase = "snapshot" =>
       /\ progress.nextCopy <= copies
       /\ copied = {r \in LiveRows : r.day \in CopiedDays}
  /\ progress.manifest => progress.nextCopy = CopyCount
  /\ \A r \in published : r \in landed /\ r.live

-----------------------------------------------------------------------------
(* Rows and receipts *)

LEMMA PlannedDaysAre ==
  ASSUME NEW d \in Deliveries
  PROVE  PlannedDays(d) = {newDay[d]} \cup
                            (IF Moves(d) THEN {receipt[d].prev} ELSE {})
<1> DEFINE fact == [day |-> newDay[d], rev |-> receipt[d].revision, live |-> TRUE]
           stone(day) == [day |-> day, rev |-> receipt[d].revision, live |-> FALSE]
<1>1. Rows(d) = {fact} \cup
         {stone(day) : day \in IF Moves(d) THEN {receipt[d].prev} ELSE {}}
  BY DEF Rows
<1>2. fact.day = newDay[d] /\ \A day : stone(day).day = day
  OBVIOUS
<1> HIDE DEF fact, stone
<1>3. CASE Moves(d)
  <2>1. Rows(d) = {fact, stone(receipt[d].prev)}
    BY <1>1, <1>3
  <2> QED BY <1>2, <1>3, <2>1 DEF PlannedDays
<1>4. CASE ~Moves(d)
  <2>1. Rows(d) = {fact}
    BY <1>1, <1>4
  <2> QED BY <1>2, <1>4, <2>1 DEF PlannedDays
<1> QED BY <1>3, <1>4

LEMMA PlannedDaysBecome ==
  ASSUME NEW d \in Deliveries
  PROVE  PlannedDays(d)' = {newDay'[d]} \cup
                             (IF Moves(d)' THEN {receipt'[d].prev} ELSE {})
<1> DEFINE fact == [day |-> newDay'[d], rev |-> receipt'[d].revision, live |-> TRUE]
           stone(day) == [day |-> day, rev |-> receipt'[d].revision, live |-> FALSE]
<1>1. Rows(d)' = {fact} \cup
         {stone(day) : day \in IF Moves(d)' THEN {receipt'[d].prev} ELSE {}}
  BY DEF Rows
<1>2. fact.day = newDay'[d] /\ \A day : stone(day).day = day
  OBVIOUS
<1> HIDE DEF fact, stone
<1>3. CASE Moves(d)'
  <2>1. Rows(d)' = {fact, stone(receipt'[d].prev)}
    BY <1>1, <1>3
  <2> QED BY <1>2, <1>3, <2>1 DEF PlannedDays
<1>4. CASE ~Moves(d)'
  <2>1. Rows(d)' = {fact}
    BY <1>1, <1>4
  <2> QED BY <1>2, <1>4, <2>1 DEF PlannedDays
<1> QED BY <1>3, <1>4

LEMMA RowsAre ==
  ASSUME NEW d \in Deliveries, NEW r \in Rows(d)
  PROVE  /\ r.day \in PlannedDays(d) /\ r.rev = receipt[d].revision
         /\ r.live => r = [day |-> newDay[d], rev |-> receipt[d].revision,
                           live |-> TRUE]
BY DEF PlannedDays, Rows

(* The rows of a delivery are those of its receipt and its day. *)
LEMMA SameRows ==
  ASSUME NEW d \in Deliveries, newDay' = newDay,
         receipt'[d].prev = receipt[d].prev
  PROVE  /\ Moves(d)' = Moves(d)
         /\ PlannedDays(d)' = PlannedDays(d)
         /\ PlannedLinks(d)' = PlannedLinks(d)
         /\ receipt'[d].revision = receipt[d].revision => Rows(d)' = Rows(d)
<1>1. Moves(d)' = Moves(d)
  BY DEF Moves
<1>2. receipt'[d].revision = receipt[d].revision => Rows(d)' = Rows(d)
  BY <1>1 DEF Rows
<1>3. PlannedLinks(d)' = PlannedLinks(d)
  BY <1>1 DEF PlannedLinks
<1>4. PlannedDays(d)' = PlannedDays(d)
  BY <1>1, PlannedDaysAre, PlannedDaysBecome
<1> QED BY <1>1, <1>2, <1>3, <1>4

(* Steps that concern one delivery leave the others alone. *)
LEMMA OtherSound ==
  ASSUME NEW e \in Deliveries, HandlerSound(e), ReceiptSound(e), DaysSound(e),
         newDay' = newDay, today' = today,
         receipt'[e] = receipt[e], run'[e] = run[e],
         sequence'[e] = sequence[e], days'[e] = days[e],
         Earliest(e) => Earliest(e)',
         e \in Active => links \subseteq links',
         landed \subseteq landed'
  PROVE  HandlerSound(e)' /\ ReceiptSound(e)' /\ DaysSound(e)'
<1>1. /\ Rows(e)' = Rows(e) /\ PlannedDays(e)' = PlannedDays(e)
      /\ PlannedLinks(e)' = PlannedLinks(e)
  BY SameRows
<1>2. (e \in Active)' <=> e \in Active
  BY DEF Active
<1>3. Writing(e)' <=> Writing(e)
  BY DEF Writing
<1>4. Writing(e) => e \in Active
  BY DEF HandlerSound, Earliest
<1>5. HandlerSound(e)'
  <2>1. run[e].at \in {"insert", "write", "confirm", "commit"} => e \in Active
    BY <1>4 DEF Writing
  <2> QED BY <1>1, <1>2, <1>3, <2>1 DEF HandlerSound
<1>6. ReceiptSound(e)'
  BY <1>1, <1>2 DEF ReceiptSound, Started
<1>7. DaysSound(e)'
  <2>1. Window' = Window
    BY DEF Window, InWindow
  <2> QED BY <1>1, <1>2, <2>1 DEF DaysSound
<1> QED BY <1>5, <1>6, <1>7

-----------------------------------------------------------------------------
(* Handlers: where they go and what they keep *)

LEMMA IdleType == Idle \in Handler
BY DEF Idle, Handler, NoDay

LEMMA GotoStep ==
  ASSUME run \in [Deliveries -> Handler], NEW d \in Deliveries,
         NEW h \in Handler, Goto(d, h.at)
  PROVE  /\ run' \in [Deliveries -> Handler]
         /\ run'[d].at = h.at /\ run'[d].by = run[d].by
         /\ run'[d].held = run[d].held /\ run'[d].prev = run[d].prev
         /\ run'[d].next = run[d].next
         /\ \A e \in Deliveries : e # d => run'[e] = run[e]
BY DEF Goto, Handler

LEMMA StopStep ==
  ASSUME run \in [Deliveries -> Handler], NEW d \in Deliveries, Stop(d)
  PROVE  /\ run' \in [Deliveries -> Handler]
         /\ run'[d].at = "idle"
         /\ \A e \in Deliveries : e # d => run'[e] = run[e]
BY IdleType DEF Stop, Idle

LEMMA StartStep ==
  ASSUME run \in [Deliveries -> Handler], NEW d \in Deliveries,
         NEW h \in Handler, Start(d, h.at, h.by)
  PROVE  /\ run' \in [Deliveries -> Handler]
         /\ run'[d].at = h.at
         /\ \A e \in Deliveries : e # d => run'[e] = run[e]
<1>1. [Idle EXCEPT !.at = h.at, !.by = h.by] \in Handler
  BY DEF Idle, Handler, NoDay
<1>2. [Idle EXCEPT !.at = h.at, !.by = h.by].at = h.at
  BY DEF Idle
<1> QED BY <1>1, <1>2 DEF Start

(* A place a handler goes to. *)
LEMMA Places ==
  \A place \in {"idle", "arm", "reserve", "keep", "next", "send", "begin",
                "price", "store", "plan", "insert", "write", "confirm",
                "commit", "finish", "handoff", "completed", "expire", "clear"},
     caller \in {"none", "register", "process", "alarm"} :
    \E h \in Handler : h.at = place /\ h.by = caller
<1> SUFFICES ASSUME NEW place \in {"idle", "arm", "reserve", "keep", "next",
                "send", "begin", "price", "store", "plan", "insert", "write",
                "confirm", "commit", "finish", "handoff", "completed", "expire",
                "clear"},
             NEW caller \in {"none", "register", "process", "alarm"}
    PROVE  \E h \in Handler : h.at = place /\ h.by = caller
  OBVIOUS
<1>1. [at |-> place, by |-> caller, held |-> FALSE, prev |-> NoDay, next |-> {}]
        \in Handler
  BY DEF Handler, NoDay
<1> QED BY <1>1

-----------------------------------------------------------------------------
(* Steps of one delivery that leave the coordinator alone *)

(* A delivery looks the same to the layers above, or less is priced. *)
SameDelivery(d) ==
  /\ Priced(d)' => /\ Priced(d) /\ PrevDay(d)' = PrevDay(d)
                   /\ receipt'[d].revision = receipt[d].revision
  /\ Started(d)' <=> Started(d)
  /\ Started(d) => Rows(d)' = Rows(d) /\ days'[d] = days[d]

LEMMA OtherSame ==
  ASSUME NEW e \in Deliveries, newDay' = newDay,
         receipt'[e] = receipt[e], run'[e] = run[e],
         sequence'[e] = sequence[e], days'[e] = days[e]
  PROVE  SameDelivery(e)
<1>1. Rows(e)' = Rows(e)
  BY SameRows
<1>2. (e \in Active)' <=> e \in Active
  BY DEF Active
<1> QED BY <1>1, <1>2 DEF SameDelivery, Priced, PrevDay, Started, At

(* The coordinator's reservations, days and links do not move. *)
Still == UNCHANGED <<today, erasing, sequence, lastSequence, days, links, dirty,
                     incomplete>>

LEMMA StillVars == UNCHANGED vars => Still
BY DEF vars, deliveryVars, dayVars, Still

LEMMA StillCoordinator ==
  ASSUME Still, NEW d \in Deliveries
  PROVE  /\ (d \in Active)' <=> d \in Active
         /\ Earliest(d)' <=> Earliest(d)
         /\ UNCHANGED <<sequence, lastSequence, days, links, dirty, incomplete,
                        today, erasing>>
BY DEF Still, Active, Earliest

LEMMA LocalStep ==
  ASSUME Bookkeeping, NEW d \in Deliveries, Still, UNCHANGED <<newDay>>,
         \A e \in Deliveries :
           e # d => receipt'[e] = receipt[e] /\ run'[e] = run[e],
         landed \subseteq landed',
         d \in Active => PlannedDays(d) \subseteq PlannedDays(d)',
         HandlerSound(d)', ReceiptSound(d)'
  PROVE  /\ Bookkeeping'
         /\ \A e \in Deliveries : e # d => SameDelivery(e)
<1>1. \A e \in Deliveries :
        e # d => HandlerSound(e)' /\ ReceiptSound(e)' /\ DaysSound(e)'
  <2>1. SUFFICES ASSUME NEW e \in Deliveries, e # d
        PROVE  HandlerSound(e)' /\ ReceiptSound(e)' /\ DaysSound(e)'
    OBVIOUS
  <2>2. HandlerSound(e) /\ ReceiptSound(e) /\ DaysSound(e)
    BY DEF Bookkeeping
  <2> QED BY <2>1, <2>2, StillCoordinator, OtherSound
<1>2. \A e \in Deliveries : e # d => SameDelivery(e)
  BY StillCoordinator, OtherSame
<1>3. DaysSound(d)'
  <2>1. Window' = Window
    BY StillCoordinator DEF Window, InWindow
  <2> QED BY <2>1, StillCoordinator DEF Bookkeeping, DaysSound
<1>4. SequencesSound'
  BY StillCoordinator DEF Bookkeeping, SequencesSound, Active
<1>5. DaysRetained'
  BY StillCoordinator
     DEF Bookkeeping, DaysRetained, Window, InWindow, ActiveDays, LinkNodes
<1> QED BY <1>1, <1>2, <1>3, <1>4, <1>5 DEF Bookkeeping

(* The handler moves, the receipt does not. *)
LEMMA SameReceipt ==
  ASSUME NEW d \in Deliveries, HandlerSound(d), Still, UNCHANGED <<newDay>>,
         receipt'[d] = receipt[d], landed \subseteq landed'
  PROVE  /\ Rows(d)' = Rows(d) /\ PlannedDays(d)' = PlannedDays(d)
         /\ PlannedLinks(d)' = PlannedLinks(d)
         /\ ReceiptSound(d) => ReceiptSound(d)'
         /\ (run'[d].at = "store"
               => run[d].at = "store" /\ run'[d].prev = run[d].prev)
              => SameDelivery(d)
<1>1. Rows(d)' = Rows(d) /\ PlannedDays(d)' = PlannedDays(d)
        /\ PlannedLinks(d)' = PlannedLinks(d)
  BY SameRows
<1>2. ReceiptSound(d) => ReceiptSound(d)'
  BY <1>1, StillCoordinator DEF ReceiptSound, Started
<1>3. (run'[d].at = "store"
         => run[d].at = "store" /\ run'[d].prev = run[d].prev)
        => SameDelivery(d)
  <2>1. run[d].at = "store" => ~receipt[d].stored
    BY DEF HandlerSound
  <2> QED BY <1>1, <2>1, StillCoordinator
          DEF SameDelivery, Priced, PrevDay, Started, At
<1> QED BY <1>1, <1>2, <1>3

LEMMA RunStep ==
  ASSUME Bookkeeping, NEW d \in Deliveries, Still, UNCHANGED <<newDay, receipt>>,
         \A e \in Deliveries : e # d => run'[e] = run[e],
         landed \subseteq landed', HandlerSound(d)'
  PROVE  /\ Bookkeeping'
         /\ \A e \in Deliveries : e # d => SameDelivery(e)
         /\ (run'[d].at = "store"
               => run[d].at = "store" /\ run'[d].prev = run[d].prev)
              => \A e \in Deliveries : SameDelivery(e)
<1>1. ReceiptSound(d) /\ HandlerSound(d) /\ DaysSound(d)
  BY DEF Bookkeeping
<1>2. ReceiptSound(d)' /\ PlannedDays(d)' = PlannedDays(d)
  BY <1>1, SameReceipt
<1>3. Bookkeeping' /\ \A e \in Deliveries : e # d => SameDelivery(e)
  BY <1>2, LocalStep
<1>4. (run'[d].at = "store"
         => run[d].at = "store" /\ run'[d].prev = run[d].prev)
        => SameDelivery(d)
  BY <1>1, SameReceipt
<1> QED BY <1>3, <1>4

(* Where nothing is relied upon. *)
LEMMA FreePlace ==
  ASSUME NEW d \in Deliveries, run'[d].at \in {"idle", "next", "send", "expire"}
  PROVE  HandlerSound(d)'
BY DEF HandlerSound, Writing

LEMMA FreeStep ==
  ASSUME Bookkeeping, run \in [Deliveries -> Handler], NEW d \in Deliveries,
         Still, UNCHANGED <<newDay, receipt>>, landed \subseteq landed',
         \/ Stop(d)
         \/ \E place \in {"next", "send", "expire"},
               caller \in {"register", "process", "alarm"} :
              Goto(d, place) \/ Start(d, place, caller)
  PROVE  /\ run' \in [Deliveries -> Handler]
         /\ Bookkeeping' /\ \A e \in Deliveries : SameDelivery(e)
<1>1. /\ run' \in [Deliveries -> Handler]
      /\ run'[d].at \in {"idle", "next", "send", "expire"}
      /\ \A e \in Deliveries : e # d => run'[e] = run[e]
  <2>1. CASE Stop(d)
    BY <2>1, StopStep
  <2>2. ASSUME NEW place \in {"next", "send", "expire"},
               NEW caller \in {"register", "process", "alarm"},
               Goto(d, place) \/ Start(d, place, caller)
        PROVE  <1>1
    <3>1. PICK h \in Handler : h.at = place /\ h.by = caller
      BY Places
    <3>2. CASE Goto(d, place)
      BY <3>1, <3>2, GotoStep
    <3>3. CASE Start(d, place, caller)
      BY <3>1, <3>3, StartStep
    <3> QED BY <2>2, <3>2, <3>3
  <2> QED BY <2>1, <2>2
<1>2. HandlerSound(d)'
  BY <1>1, FreePlace
<1> QED BY <1>1, <1>2, RunStep

(* A handler that goes on to a place it may go to. *)
LEMMA MoveStep ==
  ASSUME Bookkeeping, run \in [Deliveries -> Handler], NEW d \in Deliveries,
         Still, UNCHANGED <<newDay, receipt>>, landed \subseteq landed',
         NEW h \in Handler, Goto(d, h.at) \/ Start(d, h.at, h.by),
         h.at # "store",
         run'[d].at = h.at => HandlerSound(d)'
  PROVE  /\ run' \in [Deliveries -> Handler]
         /\ Bookkeeping' /\ \A e \in Deliveries : SameDelivery(e)
<1>1. /\ run' \in [Deliveries -> Handler] /\ run'[d].at = h.at
      /\ \A e \in Deliveries : e # d => run'[e] = run[e]
  BY GotoStep, StartStep
<1> QED BY <1>1, RunStep

LEMMA MoveActions ==
  ASSUME AgentTypeOK, Bookkeeping, NEW d \in Deliveries,
         Arm(d) \/ Send(d) \/ CheckTurn(d) \/ Abort(d)
           \/ (Register(d) /\ receipt[d].revision # 0)
  PROVE  /\ run' \in [Deliveries -> Handler]
         /\ Bookkeeping' /\ \A e \in Deliveries : SameDelivery(e)
<1>1. run \in [Deliveries -> Handler]
  BY DEF AgentTypeOK
<1>2. Still /\ UNCHANGED <<newDay, receipt, landed>>
  BY StillVars DEF Arm, Send, CheckTurn, Abort, Register, factVars
<1>3. CASE Arm(d)
  <2>1. PICK h \in Handler : h.at = "reserve" /\ h.by = "none"
    BY Places
  <2>2. receipt[d].revision = 0
    BY <1>3 DEF Arm, At, Bookkeeping, HandlerSound
  <2>3. run'[d].at = h.at => HandlerSound(d)'
    BY <1>2, <2>1, <2>2 DEF HandlerSound, Writing
  <2> QED BY <1>1, <1>2, <1>3, <2>1, <2>3, MoveStep DEF Arm
<1>4. CASE ~Arm(d)
  BY <1>1, <1>2, <1>4, FreeStep DEF Send, CheckTurn, Abort, Register
<1> QED BY <1>3, <1>4

LEMMA HandoffSound ==
  ASSUME AgentTypeOK, Bookkeeping, NEW d \in Deliveries, Handoff(d)
  PROVE  /\ run' \in [Deliveries -> Handler]
         /\ Bookkeeping' /\ \A e \in Deliveries : SameDelivery(e)
<1>1. run \in [Deliveries -> Handler] /\ run[d].at = "handoff"
  BY DEF AgentTypeOK, Handoff, At
<1>2. Still /\ UNCHANGED <<newDay, receipt, landed>>
  BY StillVars DEF Handoff, factVars
<1>3. /\ run' \in [Deliveries -> Handler] /\ run'[d].at = "completed"
      /\ \A e \in Deliveries : e # d => run'[e] = run[e]
  <2> DEFINE step == [run EXCEPT ![d].at = "completed"]
  <2>1. run' = [step EXCEPT ![d].next = {}]
    BY DEF Handoff
  <2>2. step \in [Deliveries -> Handler] /\ step[d].at = "completed"
          /\ \A e \in Deliveries : e # d => step[e] = run[e]
    BY <1>1 DEF Handler
  <2> HIDE DEF step
  <2> QED BY <2>1, <2>2 DEF Handler
<1>4. HandlerSound(d)'
  <2>1. receipt[d].phase = "committing" /\ d \notin Active
    BY <1>1 DEF Bookkeeping, HandlerSound
  <2> QED BY <1>2, <1>3, <2>1, StillCoordinator DEF HandlerSound, Writing
<1> QED BY <1>2, <1>3, <1>4, RunStep

(* What is known of a delivery that writes. *)
LEMMA Writer ==
  ASSUME Bookkeeping, NEW d \in Deliveries,
         run[d].at \in {"plan", "insert", "write", "confirm", "commit"}
  PROVE  /\ Writing(d) /\ d \in Active /\ Earliest(d)
         /\ receipt[d].phase = "registered" /\ receipt[d].stored
         /\ receipt[d].revision # 0 /\ receipt[d].revision = sequence[d]
         /\ run[d].at # "plan" => days[d] = PlannedDays(d)
                                   /\ PlannedLinks(d) \subseteq links
         /\ HandlerSound(d) /\ ReceiptSound(d) /\ DaysSound(d)
<1>1. HandlerSound(d) /\ ReceiptSound(d) /\ DaysSound(d)
  BY DEF Bookkeeping
<1>2. Writing(d)
  BY DEF Writing
<1> QED BY <1>1, <1>2 DEF HandlerSound, ReceiptSound, Earliest

LEMMA InsertSound ==
  ASSUME AgentTypeOK, Bookkeeping, NEW d \in Deliveries, Insert(d) \/ InsertFails(d)
  PROVE  /\ run' \in [Deliveries -> Handler]
         /\ Bookkeeping' /\ \A e \in Deliveries : SameDelivery(e)
<1>1. run \in [Deliveries -> Handler] /\ run[d].at = "write"
  BY DEF AgentTypeOK, Insert, InsertFails, At
<1>2. Still /\ UNCHANGED <<newDay, receipt>> /\ landed \subseteq landed'
  BY StillVars DEF Insert, InsertFails
<1>3. CASE Insert(d)
  <2>1. PICK h \in Handler : h.at = "confirm" /\ h.by = "none"
    BY Places
  <2>2. run'[d].at = "confirm" => HandlerSound(d)'
    <3>1. /\ receipt[d].write # "none" /\ receipt[d].stored
          /\ receipt[d].phase = "registered" /\ Earliest(d)
          /\ days[d] = PlannedDays(d) /\ PlannedLinks(d) \subseteq links
          /\ HandlerSound(d)
      BY <1>1, Writer DEF HandlerSound
    <3>2. Rows(d)' \subseteq landed'
      BY <1>2, <1>3, <3>1, SameReceipt DEF Insert
    <3> QED BY <1>2, <3>1, <3>2, StillCoordinator, SameReceipt DEF HandlerSound, Writing
  <2> QED BY <1>1, <1>2, <1>3, <2>1, <2>2, MoveStep DEF Insert
<1>4. CASE InsertFails(d)
  BY <1>1, <1>2, <1>4, FreeStep DEF InsertFails
<1> QED BY <1>3, <1>4

(* A handler that goes on to finish what its receipt committed. *)
LEMMA FinishPlace ==
  ASSUME Bookkeeping, NEW d \in Deliveries, Still, UNCHANGED <<newDay, receipt>>,
         run' \in [Deliveries -> Handler],
         \A e \in Deliveries : e # d => run'[e] = run[e],
         landed \subseteq landed',
         receipt[d].phase = "committing",
         run'[d].at = "finish", run'[d].held <=> d \in Active
  PROVE  Bookkeeping' /\ \A e \in Deliveries : SameDelivery(e)
<1>1. HandlerSound(d)'
  BY StillCoordinator DEF HandlerSound, Writing
<1> QED BY <1>1, RunStep

LEMMA BeginWriteSound ==
  ASSUME AgentTypeOK, Bookkeeping, NEW d \in Deliveries, BeginWrite(d)
  PROVE  /\ run' \in [Deliveries -> Handler]
         /\ Bookkeeping' /\ \A e \in Deliveries : SameDelivery(e)
<1>1. run \in [Deliveries -> Handler] /\ run[d].at = "begin"
        /\ receipt[d].revision # 0
  BY DEF AgentTypeOK, BeginWrite, At, Bookkeeping, HandlerSound
<1>2. Still /\ UNCHANGED <<newDay, receipt, landed>>
  BY StillVars DEF BeginWrite, factVars
<1>3. CASE /\ receipt[d].phase = "committing"
           /\ run' = [run EXCEPT ![d].at = "finish", ![d].held = d \in Active]
  <2> DEFINE step == [run EXCEPT ![d].at = "finish"]
             active == d \in Active
  <2>1. run' = [step EXCEPT ![d].held = active]
    BY <1>3
  <2>2. step \in [Deliveries -> Handler] /\ step[d].at = "finish"
          /\ \A e \in Deliveries : e # d => step[e] = run[e]
    BY <1>1 DEF Handler
  <2>3. active \in BOOLEAN
    OBVIOUS
  <2>4. /\ run' \in [Deliveries -> Handler] /\ run'[d].at = "finish"
        /\ run'[d].held = active
        /\ \A e \in Deliveries : e # d => run'[e] = run[e]
    <3> HIDE DEF step, active
    <3> QED BY <2>1, <2>2, <2>3 DEF Handler
  <2>5. run'[d].held <=> d \in Active
    BY <2>4, Zenon
  <2> QED BY <1>2, <1>3, <2>4, <2>5, FinishPlace
<1>4. CASE /\ receipt[d].phase = "registered" /\ MayWrite(d)
           /\ Goto(d, IF receipt[d].stored THEN "plan" ELSE "price")
  <2>1. PICK h \in Handler :
          h.at = (IF receipt[d].stored THEN "plan" ELSE "price") /\ h.by = "none"
    BY Places
  <2>2. run'[d].at = h.at => HandlerSound(d)'
    <3>1. receipt'[d] = receipt[d] /\ Earliest(d)
      BY <1>2, <1>4 DEF MayWrite, HoldsPermit
    <3> QED BY <1>1, <1>2, <1>4, <2>1, <3>1, StillCoordinator
            DEF HandlerSound, Writing
  <2> QED BY <1>1, <1>2, <1>4, <2>1, <2>2, MoveStep
<1>5. CASE Stop(d)
  BY <1>1, <1>2, <1>5, FreeStep
<1> QED BY <1>3, <1>4, <1>5 DEF BeginWrite

LEMMA AlarmSound ==
  ASSUME AgentTypeOK, Bookkeeping, NEW d \in Deliveries, DeliveryAlarm(d),
         UNCHANGED receipt
  PROVE  /\ run' \in [Deliveries -> Handler]
         /\ Bookkeeping' /\ \A e \in Deliveries : SameDelivery(e)
<1>1. run \in [Deliveries -> Handler] /\ ReceiptSound(d)
  BY DEF AgentTypeOK, Bookkeeping
<1>2. Still /\ UNCHANGED <<newDay, receipt, landed>>
  BY StillVars DEF DeliveryAlarm, factVars
<1>3. CASE receipt[d].phase = "complete" /\ Start(d, "clear", "alarm")
  <2>1. PICK h \in Handler : h.at = "clear" /\ h.by = "alarm"
    BY Places
  <2>2. run'[d].at = h.at => HandlerSound(d)'
    BY <1>1, <1>2, <1>3, <2>1, StillCoordinator DEF ReceiptSound, HandlerSound, Writing
  <2> QED BY <1>1, <1>2, <1>3, <2>1, <2>2, MoveStep
<1>4. CASE /\ receipt[d].phase = "committing"
           /\ run' = [run EXCEPT ![d] = [Idle EXCEPT !.at = "finish", !.by = "alarm",
                                                     !.held = d \in Active]]
  <2> DEFINE active == d \in Active
             new == [Idle EXCEPT !.at = "finish", !.by = "alarm", !.held = active]
  <2>1. run' = [run EXCEPT ![d] = new]
    BY <1>4
  <2>2. active \in BOOLEAN
    OBVIOUS
  <2>3. new \in Handler /\ new.at = "finish" /\ new.held = active
    <3> HIDE DEF active
    <3> QED BY <2>2 DEF Idle, Handler, NoDay
  <2>4. /\ run' \in [Deliveries -> Handler] /\ run'[d].at = "finish"
        /\ run'[d].held = active
        /\ \A e \in Deliveries : e # d => run'[e] = run[e]
    <3> HIDE DEF new, active
    <3> QED BY <1>1, <2>1, <2>3
  <2>5. run'[d].held <=> d \in Active
    BY <2>4, Zenon
  <2> QED BY <1>2, <1>4, <2>4, <2>5, FinishPlace
<1>5. CASE receipt[d].revision = 0 /\ Start(d, "reserve", "alarm")
  <2>1. PICK h \in Handler : h.at = "reserve" /\ h.by = "alarm"
    BY Places
  <2>2. run'[d].at = h.at => HandlerSound(d)'
    BY <1>2, <1>5, <2>1 DEF HandlerSound, Writing
  <2> QED BY <1>1, <1>2, <1>5, <2>1, <2>2, MoveStep
<1>6. CASE \E place \in {"next", "send", "expire"} : Start(d, place, "alarm")
  BY <1>1, <1>2, <1>6, FreeStep
<1> QED BY <1>3, <1>4, <1>5, <1>6 DEF DeliveryAlarm

-----------------------------------------------------------------------------
(* Steps that write the receipt *)

(* A receipt that knows its revision but has stored nothing. *)
LEMMA RevisionStep ==
  ASSUME AgentTypeOK, Bookkeeping, NEW d \in Deliveries, Still, UNCHANGED <<newDay>>,
         d \in Active \/ receipt[d].revision # 0,
         receipt' = [receipt EXCEPT ![d].revision = Recovered(d)],
         run' \in [Deliveries -> Handler],
         run'[d].at \in {"idle", "next", "send", "begin"},
         \A e \in Deliveries : e # d => run'[e] = run[e],
         run[d].at # "store", landed' = landed
  PROVE  /\ receipt' \in [Deliveries -> Receipt]
         /\ Bookkeeping' /\ \A e \in Deliveries : SameDelivery(e)
<1>1. receipt \in [Deliveries -> Receipt] /\ sequence[d] \in 0..MaxSequence
        /\ ReceiptSound(d)
  BY DEF AgentTypeOK, TypeOK, Bookkeeping
<1>2. Recovered(d) \in 1..MaxSequence
        /\ (receipt[d].revision # 0 => Recovered(d) = receipt[d].revision)
        /\ (receipt[d].revision = 0 => Recovered(d) = sequence[d])
  BY <1>1 DEF Recovered, Active, Receipt, ReceiptFields
<1>3. /\ receipt' \in [Deliveries -> Receipt]
      /\ receipt'[d].revision = Recovered(d) /\ receipt'[d].phase = receipt[d].phase
      /\ receipt'[d].stored = receipt[d].stored /\ receipt'[d].prev = receipt[d].prev
      /\ receipt'[d].write = receipt[d].write
      /\ \A e \in Deliveries : e # d => receipt'[e] = receipt[e]
  <2>1. Recovered(d) \in 0..MaxSequence /\ Recovered(d) # 0
    BY <1>2
  <2> QED BY <1>1, <2>1 DEF Receipt, ReceiptFields
<1>4. /\ PlannedDays(d)' = PlannedDays(d) /\ PlannedLinks(d)' = PlannedLinks(d)
      /\ receipt[d].revision # 0 => Rows(d)' = Rows(d)
  BY <1>2, <1>3, SameRows
<1>5. receipt[d].stored => Recovered(d) = receipt[d].revision
  BY <1>1, <1>2 DEF ReceiptSound
<1>6. ReceiptSound(d)'
  BY <1>1, <1>2, <1>3, <1>4, <1>5, StillCoordinator DEF ReceiptSound, Started
<1>7. HandlerSound(d)'
  BY <1>2, <1>3 DEF HandlerSound, Writing
<1>8. SameDelivery(d)
  BY <1>1, <1>2, <1>3, <1>4, <1>5, StillCoordinator
     DEF SameDelivery, Priced, PrevDay, Started, At, ReceiptSound
<1> QED BY <1>3, <1>4, <1>6, <1>7, <1>8, LocalStep

LEMMA KeepRevisionSound ==
  ASSUME AgentTypeOK, Bookkeeping, NEW d \in Deliveries, KeepRevision(d) \/ Deliver(d)
  PROVE  /\ run' \in [Deliveries -> Handler] /\ receipt' \in [Deliveries -> Receipt]
         /\ Bookkeeping' /\ \A e \in Deliveries : SameDelivery(e)
<1>1. run \in [Deliveries -> Handler]
  BY DEF AgentTypeOK
<1>2. Still /\ UNCHANGED <<newDay, landed>>
  BY StillVars DEF KeepRevision, Deliver, factVars
<1>3. CASE KeepRevision(d)
  <2>1. receipt[d].revision = 0 /\ d \in Active /\ run[d].at = "keep"
    BY <1>3 DEF KeepRevision, At, Bookkeeping, HandlerSound
  <2>2. receipt' = [receipt EXCEPT ![d].revision = Recovered(d)]
    BY <1>3, <2>1 DEF KeepRevision, Keep, Recovered
  <2>3. PICK h \in Handler :
          h.at = (IF run[d].by = "alarm" THEN "next" ELSE "send") /\ h.by = "none"
    BY Places
  <2>4. run' \in [Deliveries -> Handler] /\ run'[d].at \in {"next", "send"}
          /\ \A e \in Deliveries : e # d => run'[e] = run[e]
    BY <1>1, <1>3, <2>3, GotoStep DEF KeepRevision
  <2> QED BY <1>2, <2>1, <2>2, <2>4, RevisionStep
<1>4. CASE Deliver(d)
  <2>1. PICK h \in Handler : h.at = "begin" /\ h.by = "process"
    BY Places
  <2>2. run' \in [Deliveries -> Handler] /\ run'[d].at = "begin"
          /\ \A e \in Deliveries : e # d => run'[e] = run[e]
    BY <1>1, <1>4, <2>1, StartStep DEF Deliver
  <2>3. run[d].at # "store"
    BY <1>4 DEF Deliver, Idle
  <2>4. receipt' = [receipt EXCEPT ![d].revision = Recovered(d)]
    BY <1>4 DEF Deliver, Keep
  <2>5. d \in Active \/ receipt[d].revision # 0
    BY <1>4 DEF Deliver
  <2> QED BY <1>2, <2>2, <2>3, <2>4, <2>5, RevisionStep
<1> QED BY <1>3, <1>4

(* A receipt whose rows stay the same. *)
SameContents(d) ==
  /\ receipt'[d].prev = receipt[d].prev
  /\ receipt'[d].revision = receipt[d].revision
  /\ receipt'[d].stored = receipt[d].stored

LEMMA ReceiptStep ==
  ASSUME Bookkeeping, NEW d \in Deliveries, Still, UNCHANGED <<newDay>>,
         SameContents(d),
         \A e \in Deliveries :
           e # d => receipt'[e] = receipt[e] /\ run'[e] = run[e],
         landed' = landed, run[d].at # "store", run'[d].at # "store",
         HandlerSound(d)', ReceiptSound(d)'
  PROVE  /\ Bookkeeping'
         /\ \A e \in Deliveries : e # d => SameDelivery(e)
         /\ (receipt[d].write = "none" <=> receipt'[d].write = "none")
              => \A e \in Deliveries : SameDelivery(e)
         /\ Priced(d)' => Priced(d) /\ PrevDay(d)' = PrevDay(d)
         /\ Rows(d)' = Rows(d)
<1>1. Rows(d)' = Rows(d) /\ PlannedDays(d)' = PlannedDays(d)
  BY SameRows DEF SameContents
<1>2. Bookkeeping' /\ \A e \in Deliveries : e # d => SameDelivery(e)
  BY <1>1, LocalStep
<1>3. Priced(d)' => Priced(d) /\ PrevDay(d)' = PrevDay(d)
  BY StillCoordinator DEF Priced, PrevDay, At, SameContents
<1>4. (receipt[d].write = "none" <=> receipt'[d].write = "none") => SameDelivery(d)
  BY <1>1, <1>3, StillCoordinator DEF SameDelivery, Started, SameContents
<1> QED BY <1>1, <1>2, <1>3, <1>4

LEMMA NoReceiptType ==
  /\ NoReceipt \in Receipt
  /\ NoReceipt.phase = "none" /\ NoReceipt.revision = 0 /\ ~NoReceipt.stored
  /\ NoReceipt.prev = NoDay /\ NoReceipt.write = "none"
<1>1. NoReceipt \in ReceiptFields
  BY DEF NoReceipt, ReceiptFields
<1> QED BY <1>1 DEF NoReceipt, Receipt

LEMMA RegisterSound ==
  ASSUME AgentTypeOK, Bookkeeping, NEW d \in Deliveries, Register(d),
         receipt[d].revision = 0
  PROVE  /\ run' \in [Deliveries -> Handler] /\ receipt' \in [Deliveries -> Receipt]
         /\ Bookkeeping' /\ \A e \in Deliveries : SameDelivery(e)
<1>1. /\ run \in [Deliveries -> Handler] /\ receipt \in [Deliveries -> Receipt]
      /\ ReceiptSound(d)
  BY DEF AgentTypeOK, Bookkeeping
<1>2. Still /\ UNCHANGED <<newDay, landed>>
  BY StillVars DEF Register, factVars
<1>3. PICK h \in Handler : h.at = "arm" /\ h.by = "register"
  BY Places
<1>4. /\ run' \in [Deliveries -> Handler] /\ run'[d].at = "arm"
      /\ \A e \in Deliveries : e # d => run'[e] = run[e]
  BY <1>1, <1>3, StartStep DEF Register
<1>5. /\ receipt' \in [Deliveries -> Receipt]
      /\ \A e \in Deliveries : e # d => receipt'[e] = receipt[e]
      /\ SameContents(d) /\ receipt'[d].write = receipt[d].write
      /\ receipt'[d].phase \in {receipt[d].phase, "registered"}
  <2> DEFINE new == IF receipt[d] = NoReceipt THEN NewReceipt ELSE receipt[d]
  <2>1. receipt' = [receipt EXCEPT ![d] = new]
    BY DEF Register
  <2>2. NewReceipt \in Receipt
    BY NoReceiptType DEF NewReceipt, Receipt, ReceiptFields
  <2>3. /\ new \in Receipt /\ new.prev = receipt[d].prev
        /\ new.revision = receipt[d].revision /\ new.stored = receipt[d].stored
        /\ new.write = receipt[d].write
        /\ new.phase \in {receipt[d].phase, "registered"}
    BY <1>1, <2>2 DEF NewReceipt, NoReceipt
  <2> HIDE DEF new
  <2> QED BY <1>1, <2>1, <2>3 DEF SameContents
<1>6. HandlerSound(d)'
  BY <1>4, <1>5 DEF HandlerSound, Writing, SameContents
<1>7. ReceiptSound(d)'
  <2>1. Rows(d)' = Rows(d) /\ ~receipt[d].stored
    BY <1>1, <1>2, <1>5, SameRows DEF SameContents, ReceiptSound
  <2> QED BY <1>1, <1>2, <1>5, <2>1, StillCoordinator
          DEF ReceiptSound, Started, SameContents
<1>8. run[d].at # "store"
  BY DEF Register, Idle
<1> QED BY <1>2, <1>4, <1>5, <1>6, <1>7, <1>8, ReceiptStep

LEMMA CheckWriteSound ==
  ASSUME AgentTypeOK, Bookkeeping, NEW d \in Deliveries, CheckWrite(d)
  PROVE  /\ run' \in [Deliveries -> Handler] /\ receipt' \in [Deliveries -> Receipt]
         /\ Bookkeeping'
         /\ \A e \in Deliveries : e # d => SameDelivery(e)
         /\ Earliest(d) /\ Started(d)' /\ Rows(d)' = Rows(d)
         /\ Priced(d)' => Priced(d) /\ PrevDay(d)' = PrevDay(d)
         /\ SameContents(d)
<1>1. /\ run \in [Deliveries -> Handler] /\ receipt \in [Deliveries -> Receipt]
      /\ run[d].at = "insert"
  BY DEF AgentTypeOK, CheckWrite, At
<1>2. Still /\ UNCHANGED <<newDay, landed>>
  BY StillVars DEF CheckWrite, factVars
<1>3. /\ d \in Active /\ Earliest(d) /\ receipt[d].phase = "registered"
      /\ receipt[d].stored /\ days[d] = PlannedDays(d)
      /\ PlannedLinks(d) \subseteq links /\ ReceiptSound(d)
  BY <1>1, Writer
<1>4. CASE receipt[d].write = "attempting" /\ Present(d) /\ Goto(d, "confirm")
             /\ UNCHANGED receipt
  <2>1. PICK h \in Handler : h.at = "confirm" /\ h.by = "none"
    BY Places
  <2>2. run'[d].at = "confirm" => HandlerSound(d)'
    BY <1>2, <1>3, <1>4, SameReceipt, StillCoordinator, Writer, <1>1
       DEF HandlerSound, Writing, Present
  <2>3. run' \in [Deliveries -> Handler] /\ run'[d].at = "confirm"
          /\ \A e \in Deliveries : e # d => run'[e] = run[e]
    BY <1>1, <1>4, <2>1, GotoStep
  <2>4. SameContents(d)
    BY <1>4 DEF SameContents
  <2>5. Started(d)' /\ Started(d)
    BY <1>2, <1>3, <1>4, StillCoordinator DEF Started
  <2>6. ReceiptSound(d)'
    BY <1>1, <1>2, <1>3, <1>4, SameReceipt, Writer
  <2> QED BY <1>1, <1>2, <1>3, <1>4, <2>2, <2>3, <2>4, <2>5, <2>6, ReceiptStep
<1>5. CASE Goto(d, "write") /\ Keep(d, "write", "attempting")
             /\ ~(receipt[d].write = "attempting" /\ Present(d))
  <2>1. PICK h \in Handler : h.at = "write" /\ h.by = "none"
    BY Places
  <2>2. run' \in [Deliveries -> Handler] /\ run'[d].at = "write"
          /\ \A e \in Deliveries : e # d => run'[e] = run[e]
    BY <1>1, <1>5, <2>1, GotoStep
  <2>3. /\ receipt' \in [Deliveries -> Receipt]
        /\ receipt'[d].write = "attempting" /\ receipt'[d].phase = receipt[d].phase
        /\ SameContents(d)
        /\ \A e \in Deliveries : e # d => receipt'[e] = receipt[e]
    BY <1>1, <1>5 DEF Keep, Receipt, ReceiptFields, SameContents
  <2>4. /\ PlannedDays(d)' = PlannedDays(d) /\ PlannedLinks(d)' = PlannedLinks(d)
        /\ Rows(d)' = Rows(d)
    BY <1>2, <2>3, SameRows DEF SameContents
  <2>5. HandlerSound(d)'
    BY <1>2, <1>3, <2>2, <2>3, <2>4, StillCoordinator
       DEF HandlerSound, Writing, SameContents
  <2>6. ReceiptSound(d)'
    BY <1>2, <1>3, <2>3, <2>4, StillCoordinator
       DEF ReceiptSound, Started, SameContents
  <2>7. Started(d)'
    BY <1>2, <1>3, <2>3, StillCoordinator DEF Started
  <2> QED BY <1>1, <1>2, <1>3, <2>2, <2>3, <2>5, <2>6, <2>7, ReceiptStep
<1> QED BY <1>4, <1>5 DEF CheckWrite

LEMMA ConfirmSound ==
  ASSUME AgentTypeOK, Bookkeeping, NEW d \in Deliveries, Confirm(d) \/ Commit(d)
  PROVE  /\ run' \in [Deliveries -> Handler] /\ receipt' \in [Deliveries -> Receipt]
         /\ Bookkeeping' /\ \A e \in Deliveries : SameDelivery(e)
<1>1. /\ run \in [Deliveries -> Handler] /\ receipt \in [Deliveries -> Receipt]
      /\ run[d].at \in {"confirm", "commit"}
  BY DEF AgentTypeOK, Confirm, Commit, At
<1>2. Still /\ UNCHANGED <<newDay, landed>>
  BY StillVars DEF Confirm, Commit, factVars
<1>3. /\ d \in Active /\ Earliest(d) /\ receipt[d].phase = "registered"
      /\ receipt[d].stored /\ receipt[d].revision # 0
      /\ days[d] = PlannedDays(d)
      /\ PlannedLinks(d) \subseteq links /\ ReceiptSound(d) /\ HandlerSound(d)
  BY <1>1, Writer
<1>4. CASE Confirm(d)
  <2>1. PICK h \in Handler : h.at = "commit" /\ h.by = "none"
    BY Places
  <2>2. run' \in [Deliveries -> Handler] /\ run'[d].at = "commit"
          /\ \A e \in Deliveries : e # d => run'[e] = run[e]
    BY <1>1, <1>4, <2>1, GotoStep DEF Confirm
  <2>3. /\ receipt' \in [Deliveries -> Receipt]
        /\ receipt'[d].write = "done" /\ receipt'[d].phase = receipt[d].phase
        /\ SameContents(d)
        /\ \A e \in Deliveries : e # d => receipt'[e] = receipt[e]
    BY <1>1, <1>4 DEF Confirm, Keep, Receipt, ReceiptFields, SameContents
  <2>4. /\ PlannedDays(d)' = PlannedDays(d) /\ PlannedLinks(d)' = PlannedLinks(d)
        /\ Rows(d)' = Rows(d)
    BY <1>2, <2>3, SameRows DEF SameContents
  <2>5. Rows(d) \subseteq landed /\ receipt[d].write # "none"
    BY <1>3, <1>4 DEF Confirm, At, HandlerSound
  <2>6. HandlerSound(d)'
    BY <1>2, <1>3, <2>2, <2>3, <2>4, StillCoordinator
       DEF HandlerSound, Writing, SameContents
  <2>7. ReceiptSound(d)'
    BY <1>2, <1>3, <2>3, <2>4, <2>5, StillCoordinator
       DEF ReceiptSound, Started, SameContents
  <2> QED BY <1>1, <1>2, <2>2, <2>3, <2>5, <2>6, <2>7, ReceiptStep
<1>5. CASE Commit(d)
  <2>1. /\ run' \in [Deliveries -> Handler] /\ run'[d].at = "finish"
        /\ run'[d].held
        /\ \A e \in Deliveries : e # d => run'[e] = run[e]
    <3> DEFINE step == [run EXCEPT ![d].at = "finish"]
    <3>1. run' = [step EXCEPT ![d].held = TRUE]
      BY <1>5 DEF Commit
    <3>2. step \in [Deliveries -> Handler] /\ step[d].at = "finish"
            /\ \A e \in Deliveries : e # d => step[e] = run[e]
      BY <1>1 DEF Handler
    <3> HIDE DEF step
    <3>3. step[d] \in Handler
      BY <3>2
    <3> DEFINE held == [step[d] EXCEPT !.held = TRUE]
    <3>4. held \in Handler /\ held.at = "finish" /\ held.held
      BY <3>2, <3>3 DEF Handler
    <3>5. run' = [step EXCEPT ![d] = held]
      BY <3>1
    <3> HIDE DEF held
    <3> QED BY <3>2, <3>4, <3>5
  <2>2. receipt[d].write = "done" /\ Rows(d) \subseteq landed
    BY <1>3, <1>5 DEF Commit, At, HandlerSound, ReceiptSound
  <2>3. /\ receipt' \in [Deliveries -> Receipt]
        /\ receipt'[d].write = "done" /\ receipt'[d].phase = "committing"
        /\ SameContents(d)
        /\ \A e \in Deliveries : e # d => receipt'[e] = receipt[e]
    BY <1>1, <1>3, <1>5, <2>2 DEF Commit, Keep, Receipt, ReceiptFields, SameContents
  <2>4. /\ PlannedDays(d)' = PlannedDays(d) /\ PlannedLinks(d)' = PlannedLinks(d)
        /\ Rows(d)' = Rows(d)
    BY <1>2, <2>3, SameRows DEF SameContents
  <2>5. HandlerSound(d)'
    BY <1>2, <1>3, <2>1, <2>3, <2>4, StillCoordinator
       DEF HandlerSound, Writing, SameContents
  <2>6. ReceiptSound(d)'
    BY <1>2, <1>3, <2>2, <2>3, <2>4, StillCoordinator
       DEF ReceiptSound, Started, SameContents
  <2> QED BY <1>1, <1>2, <2>1, <2>2, <2>3, <2>5, <2>6, ReceiptStep
<1> QED BY <1>4, <1>5

LEMMA CompletedSound ==
  ASSUME AgentTypeOK, Bookkeeping, NEW d \in Deliveries, Completed(d)
  PROVE  /\ run' \in [Deliveries -> Handler] /\ receipt' \in [Deliveries -> Receipt]
         /\ Bookkeeping' /\ \A e \in Deliveries : SameDelivery(e)
<1>1. /\ run \in [Deliveries -> Handler] /\ receipt \in [Deliveries -> Receipt]
      /\ run[d].at = "completed"
  BY DEF AgentTypeOK, Completed, At
<1>2. Still /\ UNCHANGED <<newDay, landed>>
  BY StillVars DEF Completed, factVars
<1>3. receipt[d].phase = "committing" /\ d \notin Active /\ ReceiptSound(d)
  BY <1>1 DEF Bookkeeping, HandlerSound
<1>4. /\ run' \in [Deliveries -> Handler] /\ run'[d].at \in {"clear", "idle"}
      /\ \A e \in Deliveries : e # d => run'[e] = run[e]
  <2>1. CASE Stop(d)
    BY <1>1, <2>1, StopStep
  <2>2. CASE Goto(d, "clear")
    <3>1. PICK h \in Handler : h.at = "clear" /\ h.by = "none"
      BY Places
    <3> QED BY <1>1, <2>2, <3>1, GotoStep
  <2> QED BY <2>1, <2>2 DEF Completed
<1>5. /\ receipt' \in [Deliveries -> Receipt]
      /\ receipt'[d].write = receipt[d].write /\ receipt'[d].phase = "complete"
      /\ SameContents(d)
      /\ \A e \in Deliveries : e # d => receipt'[e] = receipt[e]
  BY <1>1, <1>3 DEF Completed, Keep, Receipt, ReceiptFields, SameContents
<1>6. /\ PlannedDays(d)' = PlannedDays(d) /\ PlannedLinks(d)' = PlannedLinks(d)
      /\ Rows(d)' = Rows(d)
  BY <1>2, <1>5, SameRows DEF SameContents
<1>7. HandlerSound(d)'
  BY <1>2, <1>3, <1>4, StillCoordinator DEF HandlerSound, Writing
<1>8. ReceiptSound(d)'
  BY <1>2, <1>3, <1>5, <1>6, StillCoordinator DEF ReceiptSound, Started, SameContents
<1> QED BY <1>1, <1>2, <1>4, <1>5, <1>7, <1>8, ReceiptStep

LEMMA ExpiredSound ==
  ASSUME AgentTypeOK, Bookkeeping, NEW d \in Deliveries, Still, UNCHANGED <<newDay, landed>>,
         run[d] = Idle, Start(d, "expire", "alarm"), Keep(d, "phase", "expired")
  PROVE  /\ run' \in [Deliveries -> Handler] /\ receipt' \in [Deliveries -> Receipt]
         /\ Bookkeeping' /\ \A e \in Deliveries : SameDelivery(e)
<1>1. /\ run \in [Deliveries -> Handler] /\ receipt \in [Deliveries -> Receipt]
      /\ ReceiptSound(d)
  BY DEF AgentTypeOK, Bookkeeping
<1>2. PICK h \in Handler : h.at = "expire" /\ h.by = "alarm"
  BY Places
<1>3. run' \in [Deliveries -> Handler] /\ run'[d].at = "expire"
        /\ \A e \in Deliveries : e # d => run'[e] = run[e]
  BY <1>1, <1>2, StartStep
<1>4. /\ receipt' \in [Deliveries -> Receipt]
      /\ receipt'[d].write = receipt[d].write /\ receipt'[d].phase = "expired"
      /\ SameContents(d)
      /\ \A e \in Deliveries : e # d => receipt'[e] = receipt[e]
  BY <1>1 DEF Keep, Receipt, ReceiptFields, SameContents
<1>5. /\ PlannedDays(d)' = PlannedDays(d) /\ PlannedLinks(d)' = PlannedLinks(d)
      /\ Rows(d)' = Rows(d)
  BY <1>4, SameRows DEF SameContents
<1>6. HandlerSound(d)'
  BY <1>3, FreePlace
<1>7. ReceiptSound(d)'
  BY <1>1, <1>4, <1>5, StillCoordinator DEF ReceiptSound, Started, SameContents
<1>8. run[d].at # "store"
  BY DEF Idle
<1> QED BY <1>1, <1>3, <1>4, <1>6, <1>7, <1>8, ReceiptStep

(* A receipt is cleared when nothing is reserved for it any more. *)
LEMMA ClearSound ==
  ASSUME AgentTypeOK, Bookkeeping, NEW d \in Deliveries, ClearReceipt(d)
  PROVE  /\ run' \in [Deliveries -> Handler] /\ receipt' \in [Deliveries -> Receipt]
         /\ Bookkeeping' /\ \A e \in Deliveries : SameDelivery(e)
<1>1. /\ run \in [Deliveries -> Handler] /\ receipt \in [Deliveries -> Receipt]
      /\ run[d].at = "clear"
  BY DEF AgentTypeOK, ClearReceipt, At
<1>2. Still /\ UNCHANGED <<newDay, landed>>
  BY StillVars DEF ClearReceipt, factVars
<1>3. d \notin Active
  BY <1>1 DEF Bookkeeping, HandlerSound
<1>4. /\ run' \in [Deliveries -> Handler] /\ run'[d].at = "idle"
      /\ \A e \in Deliveries : e # d => run'[e] = run[e]
  BY <1>1, StopStep DEF ClearReceipt
<1>5. /\ receipt' \in [Deliveries -> Receipt] /\ receipt'[d] = NoReceipt
      /\ \A e \in Deliveries : e # d => receipt'[e] = receipt[e]
  BY <1>1, NoReceiptType DEF ClearReceipt
<1>6. HandlerSound(d)'
  BY <1>4, FreePlace
<1>7. ReceiptSound(d)'
  BY <1>2, <1>3, <1>5, NoReceiptType, StillCoordinator DEF ReceiptSound, Started
<1>8. SameDelivery(d)
  BY <1>2, <1>3, StillCoordinator DEF SameDelivery, Priced, Started
<1> QED BY <1>2, <1>3, <1>4, <1>5, <1>6, <1>7, <1>8, LocalStep

(* What is known of a delivery while its rows are computed. *)
LEMMA Pricing ==
  ASSUME Bookkeeping, NEW d \in Deliveries, run[d].at \in {"price", "store"}
  PROVE  /\ d \in Active /\ Earliest(d) /\ receipt[d].phase = "registered"
         /\ ~receipt[d].stored /\ receipt[d].revision # 0
         /\ receipt[d].revision = sequence[d]
         /\ receipt[d].write = "none" /\ receipt[d].prev = NoDay
         /\ PlannedDays(d) = {newDay[d]}
         /\ ReceiptSound(d)
<1>1. HandlerSound(d) /\ ReceiptSound(d) /\ Writing(d)
  BY DEF Bookkeeping, Writing
<1>2. d \in Active /\ Earliest(d) /\ ~receipt[d].stored /\ receipt[d].prev = NoDay
  BY <1>1 DEF HandlerSound, ReceiptSound, Earliest
<1>3. ~Moves(d)
  BY <1>2 DEF Moves
<1> QED BY <1>1, <1>2, <1>3, PlannedDaysAre DEF HandlerSound, ReceiptSound

LEMMA StoreRowsSound ==
  ASSUME AgentTypeOK, Bookkeeping, NEW d \in Deliveries, StoreRows(d)
  PROVE  /\ run' \in [Deliveries -> Handler] /\ receipt' \in [Deliveries -> Receipt]
         /\ Bookkeeping' /\ \A e \in Deliveries : SameDelivery(e)
<1>1. /\ run \in [Deliveries -> Handler] /\ receipt \in [Deliveries -> Receipt]
      /\ run[d].at = "store"
  BY DEF AgentTypeOK, StoreRows, At
<1>2. Still /\ UNCHANGED <<newDay, landed>>
  BY StillVars DEF StoreRows, factVars
<1>3. /\ run' \in [Deliveries -> Handler] /\ run'[d].at = "plan"
      /\ \A e \in Deliveries : e # d => run'[e] = run[e]
  <2> DEFINE step == [run EXCEPT ![d].at = "plan"]
  <2>1. run' = [step EXCEPT ![d].prev = NoDay]
    BY DEF StoreRows
  <2>2. step \in [Deliveries -> Handler] /\ step[d].at = "plan"
          /\ \A e \in Deliveries : e # d => step[e] = run[e]
    BY <1>1 DEF Handler
  <2> HIDE DEF step
  <2> QED BY <2>1, <2>2 DEF Handler, NoDay
<1>4. /\ receipt' \in [Deliveries -> Receipt] /\ receipt'[d].stored
      /\ receipt'[d].prev = run[d].prev /\ receipt'[d].phase = receipt[d].phase
      /\ receipt'[d].write = receipt[d].write
      /\ receipt'[d].revision = receipt[d].revision
      /\ \A e \in Deliveries : e # d => receipt'[e] = receipt[e]
  <2> DEFINE first == [receipt[d] EXCEPT !.stored = TRUE]
             new == [first EXCEPT !.prev = run[d].prev]
  <2>1. receipt' = [receipt EXCEPT ![d] = new]
    BY DEF StoreRows, StoredReceipt
  <2>2. run[d].prev \in Day \cup {NoDay}
    BY <1>1 DEF Handler
  <2>3. /\ first \in Receipt /\ first.stored /\ first.phase = receipt[d].phase
        /\ first.write = receipt[d].write /\ first.revision = receipt[d].revision
    BY <1>1 DEF Receipt, ReceiptFields
  <2>4. /\ new \in Receipt /\ new.stored /\ new.phase = receipt[d].phase
        /\ new.write = receipt[d].write /\ new.revision = receipt[d].revision
        /\ new.prev = run[d].prev
    <3> HIDE DEF first
    <3> QED BY <2>2, <2>3 DEF Receipt, ReceiptFields
  <2> HIDE DEF new
  <2> QED BY <1>1, <2>1, <2>4
<1>5. /\ d \in Active /\ Earliest(d) /\ receipt[d].phase = "registered"
      /\ ~receipt[d].stored /\ receipt[d].revision # 0
      /\ receipt[d].revision = sequence[d] /\ receipt[d].write = "none"
      /\ PlannedDays(d) = {newDay[d]}
  BY <1>1, Pricing
<1>6. PlannedDays(d) \subseteq PlannedDays(d)'
  BY <1>2, <1>5, PlannedDaysBecome
<1>7. HandlerSound(d)'
  BY <1>2, <1>3, <1>4, <1>5, StillCoordinator DEF HandlerSound, Writing
<1>8. ReceiptSound(d)'
  BY <1>2, <1>4, <1>5, StillCoordinator DEF ReceiptSound, Started
<1>9. SameDelivery(d)
  BY <1>1, <1>2, <1>3, <1>4, <1>5, StillCoordinator
     DEF SameDelivery, Priced, PrevDay, Started, At
<1> QED BY <1>2, <1>3, <1>4, <1>6, <1>7, <1>8, <1>9, LocalStep

LEMMA PriceSound ==
  ASSUME AgentTypeOK, Bookkeeping, NEW d \in Deliveries, Price(d)
  PROVE  /\ run' \in [Deliveries -> Handler]
         /\ Bookkeeping'
         /\ \A e \in Deliveries : e # d => SameDelivery(e)
         /\ Earliest(d) /\ ~Started(d) /\ ~Started(d)'
         /\ \/ SameDelivery(d)
            \/ /\ \A r \in IdentityDay : r.rev < receipt[d].revision
               /\ PrevDay(d)' \in IF IdentityDay = {} THEN {NoDay}
                                                     ELSE {r.day : r \in IdentityDay}
<1>1. /\ run \in [Deliveries -> Handler] /\ run[d].at = "price"
  BY DEF AgentTypeOK, Price, At
<1>2. Still /\ UNCHANGED <<newDay, receipt, landed>>
  BY StillVars DEF Price, factVars
<1>3. /\ d \in Active /\ Earliest(d) /\ receipt[d].phase = "registered"
      /\ ~receipt[d].stored /\ receipt[d].revision # 0
      /\ receipt[d].revision = sequence[d] /\ receipt[d].write = "none"
  BY <1>1, Pricing
<1>4. ~Started(d) /\ ~Started(d)'
  BY <1>2, <1>3 DEF Started
<1>5. CASE Stop(d)
  BY <1>1, <1>2, <1>3, <1>4, <1>5, FreeStep
<1>6. CASE ~\E r \in IdentityDay : r.rev >= receipt[d].revision
  <2>1. PICK prev \in IF IdentityDay = {} THEN {NoDay}
                                         ELSE {r.day : r \in IdentityDay} :
          run' = [run EXCEPT ![d].at = "store", ![d].prev = prev]
    BY <1>6 DEF Price
  <2>2. IdentityDay \subseteq landed /\ landed \subseteq Row
    BY DEF IdentityDay, Newest, AgentTypeOK
  <2>3. prev \in Day \cup {NoDay}
    BY <2>2 DEF Row
  <2>4. /\ run' \in [Deliveries -> Handler] /\ run'[d].at = "store"
        /\ run'[d].prev = prev
        /\ \A e \in Deliveries : e # d => run'[e] = run[e]
    <3> DEFINE step == [run EXCEPT ![d].at = "store"]
    <3>1. run' = [step EXCEPT ![d].prev = prev]
      BY <2>1
    <3>2. step \in [Deliveries -> Handler] /\ step[d].at = "store"
            /\ \A e \in Deliveries : e # d => step[e] = run[e]
      BY <1>1 DEF Handler
    <3> HIDE DEF step
    <3> QED BY <2>3, <3>1, <3>2 DEF Handler
  <2>5. HandlerSound(d)'
    BY <1>2, <1>3, <2>4, StillCoordinator DEF HandlerSound, Writing
  <2>6. Bookkeeping' /\ \A e \in Deliveries : e # d => SameDelivery(e)
    BY <1>2, <2>4, <2>5, RunStep
  <2>7. \A r \in IdentityDay : r.rev < receipt[d].revision
    <3>1. receipt[d].revision \in Int
      BY DEF AgentTypeOK, Receipt, ReceiptFields
    <3>2. \A r \in IdentityDay : r.rev \in Int
      BY <2>2 DEF Row
    <3> QED BY <1>6, <3>1, <3>2
  <2>8. PrevDay(d)' = prev
    BY <2>4 DEF PrevDay, At
  <2> QED BY <1>3, <1>4, <2>1, <2>4, <2>6, <2>7, <2>8
<1> QED BY <1>5, <1>6 DEF Price

-----------------------------------------------------------------------------
(* The coordinator's calls *)

(* Every day there is lies in the window, so pruning forgets nothing. *)
LEMMA PruneKeeps ==
  ASSUME DaysRetained, NEW D \in SUBSET Window, NEW I \in SUBSET Window, NEW C,
         Prune(D, I, C)
  PROVE  dirty' = D /\ incomplete' = I /\ links' = links
<1>1. \A l \in links : InWindow(l[1]) /\ InWindow(l[2])
  BY DEF DaysRetained, LinkNodes, Window
<1> QED BY <1>1 DEF Prune, Pruned, Window

LEMMA HousekeepKeeps ==
  ASSUME IInv, DaysRetained
  PROVE  /\ \A C : Prune(dirty, incomplete, C)
                      => dirty' = dirty /\ incomplete' = incomplete /\ links' = links
         /\ Housekeep
              => /\ UNCHANGED <<dirty, incomplete, links, snapshotDays>>
                 /\ gate'.phase = "snapshot" <=> gate.phase = "snapshot"
                 /\ gate.phase = "snapshot" => gate' = gate
<1>1. dirty \in SUBSET Window /\ incomplete \in SUBSET Window
  BY DEF DaysRetained, IInv, IncompleteAreDirty
<1>2. \A C : Prune(dirty, incomplete, C)
               => dirty' = dirty /\ incomplete' = incomplete /\ links' = links
  BY <1>1, PruneKeeps
<1>3. snapshotDays # {} => gate.phase = "snapshot"
  BY DEF IInv, CaptureSound
<1> QED BY <1>2, <1>3 DEF Housekeep, RecoveredDays, RecoveredGate, DrainLapsed, OpenGate

LEMMA GetStatsKeeps ==
  ASSUME IInv, Bookkeeping, GetStats
  PROVE  Still
BY HousekeepKeeps DEF Bookkeeping, GetStats, Still, deliveryVars

(* Steps that concern no delivery. *)
LEMMA QuietAgents ==
  ASSUME Bookkeeping, Still, UNCHANGED <<receipt, newDay, run>>,
         landed \subseteq landed'
  PROVE  Bookkeeping' /\ \A e \in Deliveries : SameDelivery(e)
<1>1. \A e \in Deliveries :
        HandlerSound(e)' /\ ReceiptSound(e)' /\ DaysSound(e)' /\ SameDelivery(e)
  <2>1. SUFFICES ASSUME NEW e \in Deliveries
        PROVE  HandlerSound(e)' /\ ReceiptSound(e)' /\ DaysSound(e)' /\ SameDelivery(e)
    OBVIOUS
  <2>2. HandlerSound(e) /\ ReceiptSound(e) /\ DaysSound(e)
    BY DEF Bookkeeping
  <2> QED BY <2>2, StillCoordinator, OtherSound, OtherSame
<1>2. SequencesSound'
  BY DEF Still, Bookkeeping, SequencesSound, Active
<1>3. DaysRetained'
  BY DEF Still, Bookkeeping, DaysRetained, Window, InWindow, ActiveDays, LinkNodes
<1> QED BY <1>1, <1>2, <1>3 DEF Bookkeeping

LEMMA ReserveSound ==
  ASSUME AgentTypeOK, IInv, Bookkeeping, NEW d \in Deliveries, run[d].at = "reserve",
         Reserve(d, {newDay[d]}, life[d]), Goto(d, "keep"),
         UNCHANGED <<receipt, newDay, landed>>
  PROVE  /\ run' \in [Deliveries -> Handler]
         /\ Bookkeeping' /\ \A e \in Deliveries : SameDelivery(e)
         /\ sequence'[d] = lastSequence + 1 /\ lastSequence' = lastSequence + 1
         /\ \A e \in Deliveries : e # d => sequence'[e] = sequence[e]
         /\ UNCHANGED <<dirty, incomplete, links>>
         /\ ActiveDays \subseteq ActiveDays'
<1>1. /\ run \in [Deliveries -> Handler] /\ receipt \in [Deliveries -> Receipt]
      /\ sequence \in [Deliveries -> 0..MaxSequence] /\ lastSequence \in 1..MaxSequence
      /\ days \in [Deliveries -> SUBSET Day]
  BY DEF AgentTypeOK, TypeOK
<1>2. /\ UNCHANGED <<dirty, incomplete, links>> /\ today' = today /\ erasing' = erasing
      /\ d \notin Active /\ {newDay[d]} \subseteq Window
      /\ lastSequence' = lastSequence + 1
      /\ sequence'[d] = lastSequence + 1 /\ days'[d] = {newDay[d]}
      /\ \A e \in Deliveries : e # d => sequence'[e] = sequence[e] /\ days'[e] = days[e]
  BY <1>1, HousekeepKeeps DEF Reserve, Active, Bookkeeping
<1>3. PICK h \in Handler : h.at = "keep" /\ h.by = "none"
  BY Places
<1>4. /\ run' \in [Deliveries -> Handler] /\ run'[d].at = "keep"
      /\ \A e \in Deliveries : e # d => run'[e] = run[e]
  BY <1>1, <1>3, GotoStep
<1>5. /\ receipt[d].revision = 0 /\ ~receipt[d].stored /\ receipt[d].write = "none"
      /\ receipt[d].phase \notin {"committing", "complete"}
      /\ receipt[d].prev = NoDay
  BY <1>1 DEF Bookkeeping, HandlerSound, ReceiptSound, Receipt
<1>6. (d \in Active)' /\ \A e \in Deliveries : e # d => ((e \in Active)' <=> e \in Active)
  BY <1>1, <1>2 DEF Active
<1>7. \A e \in Deliveries : e # d =>
        HandlerSound(e)' /\ ReceiptSound(e)' /\ DaysSound(e)' /\ SameDelivery(e)
  <2>1. SUFFICES ASSUME NEW e \in Deliveries, e # d
        PROVE  HandlerSound(e)' /\ ReceiptSound(e)' /\ DaysSound(e)' /\ SameDelivery(e)
    OBVIOUS
  <2>2. HandlerSound(e) /\ ReceiptSound(e) /\ DaysSound(e)
    BY DEF Bookkeeping
  <2>3. Earliest(e) => Earliest(e)'
    <3>1. \A x \in Active : sequence[x] \in Int /\ sequence[x] <= lastSequence
      BY <1>1 DEF Bookkeeping, SequencesSound, Active
    <3>2. Earliest(e) => \A x \in Active' : sequence'[e] <= sequence'[x]
      BY <1>1, <1>2, <1>6, <2>1, <3>1 DEF Earliest, Active
    <3> QED BY <1>6, <2>1, <3>2 DEF Earliest
  <2> QED BY <1>2, <1>4, <2>1, <2>2, <2>3, OtherSound, OtherSame
<1>8. HandlerSound(d)' /\ ReceiptSound(d)' /\ SameDelivery(d)
  <2>1. HandlerSound(d)'
    BY <1>4, <1>5, <1>6 DEF HandlerSound, Writing
  <2>2. ReceiptSound(d)'
    BY <1>4, <1>5, <1>6 DEF ReceiptSound, Started
  <2>3. SameDelivery(d)
    BY <1>4, <1>5 DEF SameDelivery, Priced, Started, At
  <2> QED BY <2>1, <2>2, <2>3
<1>9. Window' = Window
  BY <1>2 DEF Window, InWindow
<1>10. DaysSound(d)'
  <2>1. newDay'[d] \in PlannedDays(d)'
    BY PlannedDaysBecome
  <2> QED BY <1>2, <1>6, <1>9, <2>1 DEF DaysSound
<1>11. SequencesSound'
  <2>1. \A e \in Active : sequence[e] \in Int /\ sequence[e] <= lastSequence
    BY <1>1 DEF Bookkeeping, SequencesSound, Active
  <2>2. \A e, x \in Active : sequence[e] = sequence[x] => e = x
    BY DEF Bookkeeping, SequencesSound
  <2>3. \A e \in Active' : e \in Deliveries /\ (e # d => e \in Active)
    BY <1>6 DEF Active
  <2> QED BY <1>1, <1>2, <2>1, <2>2, <2>3 DEF SequencesSound
<1>12. ActiveDays' = ActiveDays \cup {newDay[d]}
  <2>1. days[d] = {}
    BY <1>2 DEF Bookkeeping, DaysSound
  <2> QED BY <1>2, <2>1 DEF ActiveDays
<1>13. DaysRetained'
  BY <1>2, <1>9, <1>12 DEF Bookkeeping, DaysRetained, LinkNodes
<1> QED BY <1>2, <1>4, <1>7, <1>8, <1>10, <1>11, <1>12, <1>13 DEF Bookkeeping

-----------------------------------------------------------------------------
(* Reservations come and go, and no day or link is forgotten. *)
Onward ==
  /\ lastSequence' \in Int /\ lastSequence <= lastSequence'
  /\ \A d \in Deliveries :
       (d \in Active)' => \/ d \in Active /\ sequence'[d] = sequence[d]
                          \/ sequence'[d] > lastSequence
  /\ incomplete \subseteq incomplete'
Forward ==
  /\ Onward
  /\ links \subseteq links'
  /\ dirty \cup ActiveDays \subseteq dirty' \cup ActiveDays'

LEMMA StillForward ==
  ASSUME TypeOK, Still
  PROVE  Forward
BY DEF TypeOK, Still, Onward, Forward, Active, ActiveDays

LEMMA CallReserveSound ==
  ASSUME AgentTypeOK, IInv, Bookkeeping, NEW d \in Deliveries, CallReserve(d)
  PROVE  /\ run' \in [Deliveries -> Handler]
         /\ Bookkeeping' /\ \A e \in Deliveries : SameDelivery(e)
         /\ Forward
<1>1. run \in [Deliveries -> Handler] /\ run[d].at = "reserve" /\ TypeOK
  BY DEF AgentTypeOK, CallReserve, At
<1>2. UNCHANGED <<newDay, receipt, landed>>
  BY DEF CallReserve, factVars
<1>3. CASE Reserve(d, {newDay[d]}, life[d]) /\ Goto(d, "keep")
  <2>1. /\ run' \in [Deliveries -> Handler]
        /\ Bookkeeping' /\ \A e \in Deliveries : SameDelivery(e)
        /\ sequence'[d] = lastSequence + 1 /\ lastSequence' = lastSequence + 1
        /\ \A e \in Deliveries : e # d => sequence'[e] = sequence[e]
        /\ UNCHANGED <<dirty, incomplete, links>>
        /\ ActiveDays \subseteq ActiveDays'
    BY <1>1, <1>2, <1>3, ReserveSound
  <2>2. lastSequence \in Int
    BY <1>1 DEF TypeOK
  <2>3. Forward
    BY <2>1, <2>2 DEF Onward, Forward, Active
  <2> QED BY <2>1, <2>3
<1>4. CASE d \in Active /\ GetStats /\ Goto(d, "keep")
  <2>1. Still
    BY <1>4, GetStatsKeeps
  <2>2. PICK h \in Handler : h.at = "keep" /\ h.by = "none"
    BY Places
  <2>3. run'[d].at = h.at => HandlerSound(d)'
    <3>1. receipt[d].revision = 0
      BY <1>1 DEF Bookkeeping, HandlerSound
    <3> QED BY <1>2, <1>4, <2>1, <2>2, <3>1, StillCoordinator DEF HandlerSound, Writing
  <2> QED BY <1>1, <1>2, <1>4, <2>1, <2>2, <2>3, MoveStep, StillForward
<1>5. CASE GetStats /\ Stop(d)
  BY <1>1, <1>2, <1>5, GetStatsKeeps, FreeStep, StillForward
<1> QED BY <1>3, <1>4, <1>5 DEF CallReserve

(* planWrite replaces the days of the reservation by those of the rows. *)
LEMMA SendPlanSound ==
  ASSUME AgentTypeOK, IInv, Bookkeeping, NEW d \in Deliveries, Plan(d), SendPlan(d)
  PROVE  /\ run' \in [Deliveries -> Handler]
         /\ Bookkeeping' /\ \A e \in Deliveries : SameDelivery(e)
         /\ Forward
<1>1. /\ run \in [Deliveries -> Handler] /\ run[d].at = "plan" /\ TypeOK
      /\ days \in [Deliveries -> SUBSET Day] /\ lastSequence \in Int
  BY DEF AgentTypeOK, TypeOK, Plan, At
<1>2. UNCHANGED <<newDay, receipt, landed>>
  BY DEF Plan, factVars
<1>3. /\ d \in Active /\ Earliest(d) /\ receipt[d].phase = "registered"
      /\ receipt[d].stored /\ receipt[d].revision # 0
      /\ receipt[d].revision = sequence[d]
      /\ HandlerSound(d) /\ ReceiptSound(d) /\ DaysSound(d)
  BY <1>1, Writer
<1>4. /\ PlannedDays(d)' = PlannedDays(d) /\ PlannedLinks(d)' = PlannedLinks(d)
      /\ Rows(d)' = Rows(d)
  BY <1>2, SameRows
<1>5. /\ UNCHANGED <<today, erasing, lastSequence, sequence, dirty, incomplete>>
      /\ days' = [days EXCEPT ![d] = PlannedDays(d)]
      /\ PlannedDays(d) \subseteq Window /\ LinkNodes(PlannedLinks(d)) \subseteq PlannedDays(d)
      /\ links' = IF WithinLinkCapacity(links \cup PlannedLinks(d))
                    THEN links \cup PlannedLinks(d) ELSE links
  BY DEF SendPlan, PlanWrite
<1>6. /\ days'[d] = PlannedDays(d) /\ links \subseteq links'
      /\ \A e \in Deliveries : e # d => days'[e] = days[e]
      /\ \A e \in Deliveries : /\ (e \in Active)' <=> e \in Active
                               /\ Earliest(e)' <=> Earliest(e)
  BY <1>1, <1>5 DEF Active, Earliest
<1>7. /\ run' \in [Deliveries -> Handler]
      /\ \A e \in Deliveries : e # d => run'[e] = run[e]
      /\ \/ run'[d].at = "idle"
         \/ /\ PlannedLinks(d) \subseteq links'
            /\ run'[d].at = IF receipt[d].write = "done" THEN "commit" ELSE "insert"
  <2>1. CASE Stop(d)
    BY <1>1, <2>1, StopStep
  <2>2. CASE ~Stop(d)
    <3>1. /\ WithinLinkCapacity(links \cup PlannedLinks(d))
          /\ Goto(d, IF receipt[d].write = "done" THEN "commit" ELSE "insert")
      BY <2>2 DEF Plan
    <3>2. PICK h \in Handler :
            h.at = (IF receipt[d].write = "done" THEN "commit" ELSE "insert")
              /\ h.by = "none"
      BY Places
    <3> QED BY <1>1, <1>5, <3>1, <3>2, GotoStep
  <2> QED BY <2>1, <2>2
<1>8. HandlerSound(d)'
  <2>1. CASE run'[d].at = "idle"
    BY <2>1, FreePlace
  <2>2. CASE run'[d].at = "commit" /\ receipt[d].write = "done"
    BY <1>2, <1>3, <1>4, <1>6, <1>7, <2>2 DEF HandlerSound, Writing
  <2>3. CASE run'[d].at = "insert"
    BY <1>2, <1>3, <1>4, <1>6, <1>7, <2>3 DEF HandlerSound, Writing
  <2> QED BY <1>7, <2>1, <2>2, <2>3
<1>9. ReceiptSound(d)'
  BY <1>2, <1>3, <1>4, <1>5, <1>6 DEF ReceiptSound, Started
<1>10. Window' = Window
  BY <1>5 DEF Window, InWindow
<1>11. DaysSound(d)'
  <2>1. newDay[d] \in PlannedDays(d)
    BY PlannedDaysAre
  <2> QED BY <1>2, <1>3, <1>4, <1>6, <1>10, <2>1 DEF DaysSound
<1>12. SameDelivery(d)
  <2>1. Started(d) => days'[d] = days[d]
    BY <1>3, <1>6 DEF ReceiptSound
  <2> QED BY <1>1, <1>2, <1>3, <1>4, <1>6, <1>7, <2>1
          DEF SameDelivery, Priced, PrevDay, Started, At
<1>13. \A e \in Deliveries : e # d =>
        HandlerSound(e)' /\ ReceiptSound(e)' /\ DaysSound(e)' /\ SameDelivery(e)
  <2>1. SUFFICES ASSUME NEW e \in Deliveries, e # d
        PROVE  HandlerSound(e)' /\ ReceiptSound(e)' /\ DaysSound(e)' /\ SameDelivery(e)
    OBVIOUS
  <2>2. HandlerSound(e) /\ ReceiptSound(e) /\ DaysSound(e)
    BY DEF Bookkeeping
  <2> QED BY <1>2, <1>5, <1>6, <1>7, <2>1, <2>2, OtherSound, OtherSame
<1>14. ActiveDays' = ActiveDays \cup PlannedDays(d)
  <2>1. days[d] \subseteq PlannedDays(d)
    BY <1>3 DEF DaysSound
  <2> QED BY <1>6, <2>1 DEF ActiveDays
<1>15. DaysRetained'
  <2>1. LinkNodes(links') \subseteq LinkNodes(links) \cup PlannedDays(d)
    BY <1>5 DEF LinkNodes
  <2> QED BY <1>5, <1>10, <1>14, <2>1 DEF Bookkeeping, DaysRetained
<1>16. SequencesSound'
  BY <1>5 DEF Bookkeeping, SequencesSound, Active
<1>17. Forward
  BY <1>1, <1>5, <1>6, <1>14 DEF Onward, Forward
<1> QED BY <1>7, <1>8, <1>9, <1>11, <1>12, <1>13, <1>15, <1>16, <1>17 DEF Bookkeeping

LEMMA PlanSound ==
  ASSUME AgentTypeOK, IInv, Bookkeeping, NEW d \in Deliveries, Plan(d)
  PROVE  /\ run' \in [Deliveries -> Handler]
         /\ Bookkeeping' /\ \A e \in Deliveries : SameDelivery(e)
         /\ Forward
<1>1. CASE SendPlan(d)
  BY <1>1, SendPlanSound
<1>2. CASE ~SendPlan(d)
  <2>1. Stop(d) /\ UNCHANGED <<newDay, receipt, landed>> /\ UNCHANGED vars
    BY <1>2 DEF Plan, factVars
  <2>2. Still
    BY <2>1, StillVars
  <2>3. run \in [Deliveries -> Handler] /\ TypeOK
    BY DEF AgentTypeOK
  <2> QED BY <2>1, <2>2, <2>3, FreeStep, StillForward
<1> QED BY <1>1, <1>2

(* A reservation that ends leaves its days to the dirty ones. *)
LEMMA ReleaseSound ==
  ASSUME AgentTypeOK, Bookkeeping, NEW d \in Deliveries, d \in Active,
         DeleteReservation(d), dirty' = dirty \cup days[d],
         UNCHANGED <<links, today, erasing, newDay, receipt, landed>>,
         \A e \in Deliveries : e # d => run'[e] = run[e],
         \/ run'[d].at = "clear"
         \/ run'[d].at = "handoff" /\ receipt[d].phase = "committing"
  PROVE  /\ Bookkeeping'
         /\ \A e \in Deliveries : e # d => SameDelivery(e)
         /\ ~Started(d)' /\ ~Priced(d)'
         /\ incomplete \subseteq incomplete' => Forward
<1>1. /\ sequence \in [Deliveries -> 0..MaxSequence] /\ lastSequence \in Int
      /\ days \in [Deliveries -> SUBSET Day]
  BY DEF AgentTypeOK, TypeOK
<1>2. /\ sequence'[d] = 0 /\ days'[d] = {} /\ lastSequence' = lastSequence
      /\ \A e \in Deliveries : e # d => sequence'[e] = sequence[e] /\ days'[e] = days[e]
  BY <1>1 DEF DeleteReservation
<1>3. ~(d \in Active)' /\ \A e \in Deliveries : e # d => ((e \in Active)' <=> e \in Active)
  BY <1>1, <1>2 DEF Active
<1>4. \A e \in Deliveries : e # d =>
        HandlerSound(e)' /\ ReceiptSound(e)' /\ DaysSound(e)' /\ SameDelivery(e)
  <2>1. SUFFICES ASSUME NEW e \in Deliveries, e # d
        PROVE  HandlerSound(e)' /\ ReceiptSound(e)' /\ DaysSound(e)' /\ SameDelivery(e)
    OBVIOUS
  <2>2. HandlerSound(e) /\ ReceiptSound(e) /\ DaysSound(e)
    BY DEF Bookkeeping
  <2>3. Earliest(e) => Earliest(e)'
    <3>1. \A x \in Active' : x \in Active /\ sequence'[x] = sequence[x]
      BY <1>2, <1>3 DEF Active
    <3> QED BY <1>2, <1>3, <2>1, <3>1 DEF Earliest
  <2> QED BY <1>2, <2>1, <2>2, <2>3, OtherSound, OtherSame
<1>5. HandlerSound(d)'
  BY <1>3 DEF HandlerSound, Writing
<1>6. ReceiptSound(d)'
  <2>1. Rows(d)' = Rows(d) /\ ReceiptSound(d)
    BY SameRows DEF Bookkeeping
  <2> QED BY <1>3, <2>1 DEF ReceiptSound, Started
<1>7. Window' = Window
  BY DEF Window, InWindow
<1>8. DaysSound(d)'
  BY <1>2, <1>3, <1>7 DEF Bookkeeping, DaysSound
<1>9. SequencesSound'
  <2>1. \A x \in Active' : x \in Active /\ sequence'[x] = sequence[x]
    BY <1>2, <1>3 DEF Active
  <2> QED BY <1>2, <2>1 DEF Bookkeeping, SequencesSound
<1>10. dirty' \cup ActiveDays' = dirty \cup ActiveDays
  BY <1>2 DEF ActiveDays
<1>11. DaysRetained'
  BY <1>7, <1>10 DEF Bookkeeping, DaysRetained, LinkNodes
<1>12. ~Started(d)' /\ ~Priced(d)'
  BY <1>3 DEF Started, Priced
<1>13. incomplete \subseteq incomplete' => Forward
  BY <1>1, <1>2, <1>3, <1>10 DEF Onward, Forward
<1> QED BY <1>4, <1>5, <1>6, <1>8, <1>9, <1>11, <1>12, <1>13 DEF Bookkeeping

LEMMA FinishSound ==
  ASSUME AgentTypeOK, IInv, Bookkeeping, NEW d \in Deliveries, Finish(d)
  PROVE  /\ run' \in [Deliveries -> Handler]
         /\ Bookkeeping' /\ Forward
         /\ \A e \in Deliveries : e # d => SameDelivery(e)
         /\ \/ SameDelivery(d)
            \/ /\ d \in Active /\ ~Started(d)' /\ ~Priced(d)'
               /\ receipt[d].write = "done" /\ receipt[d].stored
<1>1. /\ run \in [Deliveries -> Handler] /\ run[d].at = "finish" /\ TypeOK
  BY DEF AgentTypeOK, Finish, At
<1>2. UNCHANGED <<newDay, receipt, landed>>
  BY DEF Finish, factVars
<1>3. receipt[d].phase = "committing" /\ (run[d].held <=> d \in Active)
        /\ receipt[d].write = "done" /\ receipt[d].stored
  BY <1>1 DEF Bookkeeping, HandlerSound, ReceiptSound
<1>4. /\ run' \in [Deliveries -> Handler] /\ run'[d].at = "handoff"
      /\ \A e \in Deliveries : e # d => run'[e] = run[e]
  <2> DEFINE step == [run EXCEPT ![d].at = "handoff"]
             woken == {n \in Deliveries : Earliest(n)'}
  <2>1. run' = [step EXCEPT ![d].next = woken]
    BY DEF Finish
  <2>2. step \in [Deliveries -> Handler] /\ step[d].at = "handoff"
          /\ \A e \in Deliveries : e # d => step[e] = run[e]
    BY <1>1 DEF Handler
  <2>3. woken \in SUBSET Deliveries
    OBVIOUS
  <2> HIDE DEF step, woken
  <2> QED BY <2>1, <2>2, <2>3 DEF Handler
<1>5. FinishDelivery(d, PlannedDays(d), run[d].held)
  BY DEF Finish
<1>6. UNCHANGED <<today, erasing>>
  BY <1>5 DEF FinishDelivery
<1>7. CASE d \in Active
  <2>1. CompleteEffect(d)
    BY <1>3, <1>5, <1>7 DEF FinishDelivery
  <2>2. DeleteReservation(d) /\ Prune(dirty \cup days[d], incomplete, snapshotDays)
    BY <2>1 DEF CompleteEffect
  <2>3. DaysRetained /\ incomplete \subseteq dirty /\ days[d] \subseteq ActiveDays
    BY DEF Bookkeeping, IInv, IncompleteAreDirty, ActiveDays
  <2>4. dirty' = dirty \cup days[d] /\ incomplete' = incomplete /\ links' = links
    <3>1. dirty \cup days[d] \in SUBSET Window /\ incomplete \in SUBSET Window
      BY <2>3 DEF DaysRetained
    <3> QED BY <2>2, <2>3, <3>1, PruneKeeps
  <2> QED BY <1>2, <1>3, <1>4, <1>6, <1>7, <2>2, <2>4, ReleaseSound
<1>8. CASE d \notin Active
  <2>1. UNCHANGED <<deliveryVars, dayVars>>
    BY <1>3, <1>5, <1>8 DEF FinishDelivery
  <2>2. Still
    BY <1>6, <2>1 DEF Still, deliveryVars, dayVars
  <2>3. HandlerSound(d)'
    BY <1>2, <1>3, <1>4, <1>8, <2>2, StillCoordinator DEF HandlerSound, Writing
  <2> QED BY <1>1, <1>2, <1>4, <2>2, <2>3, RunStep, StillForward
<1> QED BY <1>7, <1>8

LEMMA ExpireSound ==
  ASSUME AgentTypeOK, IInv, Bookkeeping, NEW d \in Deliveries, ExpireReservation(d)
  PROVE  /\ run' \in [Deliveries -> Handler]
         /\ Bookkeeping' /\ Forward
         /\ \A e \in Deliveries : e # d => SameDelivery(e)
         /\ \/ SameDelivery(d)
            \/ /\ d \in Active /\ ~Started(d)' /\ ~Priced(d)'
               /\ days[d] \subseteq incomplete'
<1>1. /\ run \in [Deliveries -> Handler] /\ run[d].at = "expire" /\ TypeOK
  BY DEF AgentTypeOK, ExpireReservation, At
<1>2. UNCHANGED <<newDay, receipt, landed>>
  BY DEF ExpireReservation, factVars
<1>3. /\ run' \in [Deliveries -> Handler] /\ run'[d].at = "clear"
      /\ \A e \in Deliveries : e # d => run'[e] = run[e]
  <2>1. PICK h \in Handler : h.at = "clear" /\ h.by = "none"
    BY Places
  <2> QED BY <1>1, <2>1, GotoStep DEF ExpireReservation
<1>4. CASE d \in Active
  <2>1. Expire(d)
    BY <1>4 DEF ExpireReservation, EndReservation
  <2>2. /\ DeleteReservation(d) /\ UNCHANGED <<today, erasing>>
        /\ Prune(dirty \cup days[d], incomplete \cup days[d], snapshotDays)
    BY <2>1 DEF Expire
  <2>3. DaysRetained /\ incomplete \subseteq dirty /\ days[d] \subseteq ActiveDays
    BY DEF Bookkeeping, IInv, IncompleteAreDirty, ActiveDays
  <2>4. /\ dirty' = dirty \cup days[d] /\ incomplete' = incomplete \cup days[d]
        /\ links' = links
    <3>1. dirty \cup days[d] \in SUBSET Window /\ incomplete \cup days[d] \in SUBSET Window
      BY <2>3 DEF DaysRetained
    <3> QED BY <2>2, <2>3, <3>1, PruneKeeps
  <2> QED BY <1>2, <1>3, <1>4, <2>2, <2>4, ReleaseSound
<1>5. CASE d \notin Active
  <2>1. Still
    BY <1>5, StillVars DEF ExpireReservation, EndReservation
  <2>2. HandlerSound(d)'
    BY <1>3, <1>5, <2>1, StillCoordinator DEF HandlerSound, Writing
  <2> QED BY <1>1, <1>2, <1>3, <2>1, <2>2, RunStep, StillForward
<1> QED BY <1>4, <1>5

-----------------------------------------------------------------------------
(* The snapshot runner's calls *)

(* While a snapshot is in progress nothing is reserved, no link leaves the *)
(* captured days, and none of them is held back.                           *)
LEMMA CapturedDaysSound ==
  ASSUME IInv, Bookkeeping, gate.phase = "snapshot"
  PROVE  /\ Active = {} /\ ActiveDays = {}
         /\ snapshotDays \subseteq dirty \ incomplete
         /\ Saturated(snapshotDays)
         /\ \A d \in Deliveries : ~Started(d) /\ ~Priced(d)
         /\ \A day \in snapshotDays : ~Held(day)
<1>1. Active = {} /\ snapshotDays \subseteq dirty \ incomplete /\ CaptureLinkClosed
  BY DEF IInv, StableInput, CaptureSound
<1>2. ActiveDays = {}
  BY <1>1 DEF Bookkeeping, DaysSound, ActiveDays
<1>3. Saturated(snapshotDays)
  <2>1. \A l \in links : l[1] \in dirty /\ l[2] \in dirty
    BY <1>2 DEF Bookkeeping, DaysRetained, LinkNodes
  <2> QED BY <1>1, <2>1 DEF CaptureLinkClosed, Saturated
<1>4. \A d \in Deliveries : ~Started(d) /\ ~Priced(d)
  BY <1>1 DEF Started, Priced
<1> QED BY <1>1, <1>2, <1>3, <1>4 DEF Held

(* Only finishing a snapshot forgets anything. *)
LEMMA RunnerStill ==
  ASSUME IInv, Bookkeeping, NEW c \in Claims, RunnerCall(c)
  PROVE  Still \/ (FinishSnapshot(c) /\ progress.manifest /\ ManifestPublished)
<1> USE DEF deliveryVars, dayVars, captureVars, copyVars
<1>1. \A C : Prune(dirty, incomplete, C)
               => dirty' = dirty /\ incomplete' = incomplete /\ links' = links
  BY HousekeepKeeps DEF Bookkeeping
<1>2. RequestSnapshot => Still
  BY <1>1 DEF RequestSnapshot, Still
<1>3. BeginSnapshot(c) \/ BeginEmptySnapshot => Still
  BY <1>1 DEF BeginSnapshot, BeginEmptySnapshot, Still
<1>4. ClaimSnapshot(c) \/ RecordCopyIntent(c) \/ PrepareManifest(c) \/ ResumeFailed
        => Still
  BY DEF ClaimSnapshot, RecordCopyIntent, PrepareManifest, ResumeFailed, Still
<1>5. \A job \in Jobs : AttachCopyJob(c, job) \/ SettleCopyDone(c, job) => Still
  BY DEF AttachCopyJob, SettleCopyDone, Still
<1>6. \A job \in Jobs : SettleCopyError(c, job) => Still
  BY <1>1 DEF SettleCopyError, FailGeneration, AbandonGeneration, Still
<1>7. \A recorded \in BOOLEAN : FailSnapshot(c, recorded) => Still
  BY <1>1 DEF FailSnapshot, AbandonGeneration, Still
<1> QED BY <1>2, <1>3, <1>4, <1>5, <1>6, <1>7 DEF RunnerCall

LEMMA FinishSnapshotSound ==
  ASSUME TypeOK, IInv, Bookkeeping, NEW c \in Claims, FinishSnapshot(c),
         UNCHANGED <<receipt, newDay, run, landed>>
  PROVE  /\ Bookkeeping' /\ \A e \in Deliveries : SameDelivery(e)
         /\ Onward
         /\ gate.phase = "snapshot" /\ CopiesComplete
         /\ dirty' = dirty \ snapshotDays /\ incomplete' = incomplete
         /\ links' = {l \in links : ~(l[1] \in snapshotDays /\ l[2] \in snapshotDays)}
<1>1. gate.phase = "snapshot" /\ CopiesComplete
  BY DEF FinishSnapshot, HoldsClaim
<1>2. /\ Active = {} /\ ActiveDays = {} /\ Saturated(snapshotDays)
      /\ snapshotDays \subseteq dirty \ incomplete
  BY <1>1, CapturedDaysSound
<1>3. UNCHANGED <<today, erasing, lastSequence, sequence, days>>
  BY DEF FinishSnapshot, deliveryVars
<1>4. /\ dirty' = dirty \ snapshotDays /\ incomplete' = incomplete
      /\ links' = {l \in links : ~(l[1] \in snapshotDays /\ l[2] \in snapshotDays)}
  <2>1. /\ dirty \subseteq Window /\ incomplete \subseteq Window
        /\ \A l \in links : l[1] \in Window /\ l[2] \in Window
    BY DEF Bookkeeping, DaysRetained, LinkNodes, IInv, IncompleteAreDirty
  <2> QED BY <2>1 DEF FinishSnapshot, Pruned, Window
<1>5. Active' = {} /\ ActiveDays' = {}
  BY <1>2, <1>3 DEF Active, ActiveDays
<1>6. \A e \in Deliveries :
        HandlerSound(e)' /\ ReceiptSound(e)' /\ DaysSound(e)' /\ SameDelivery(e)
  <2>1. SUFFICES ASSUME NEW e \in Deliveries
        PROVE  HandlerSound(e)' /\ ReceiptSound(e)' /\ DaysSound(e)' /\ SameDelivery(e)
    OBVIOUS
  <2>2. HandlerSound(e) /\ ReceiptSound(e) /\ DaysSound(e)
    BY DEF Bookkeeping
  <2>3. e \notin Active /\ ~Earliest(e)
    BY <1>2 DEF Earliest
  <2> QED BY <1>3, <2>2, <2>3, OtherSound, OtherSame
<1>7. SequencesSound'
  BY <1>5 DEF SequencesSound
<1>8. DaysRetained'
  <2>1. Window' = Window
    BY <1>3 DEF Window, InWindow
  <2>2. \A l \in links' : l[1] \in dirty' /\ l[2] \in dirty'
    BY <1>2, <1>4 DEF Bookkeeping, DaysRetained, LinkNodes, Saturated
  <2>3. LinkNodes(links') \subseteq dirty'
    BY <2>2 DEF LinkNodes
  <2> QED BY <1>3, <1>4, <1>5, <2>1, <2>3 DEF Bookkeeping, DaysRetained
<1>9. Onward
  BY <1>3, <1>4, <1>5 DEF Onward, TypeOK
<1> QED BY <1>1, <1>4, <1>6, <1>7, <1>8, <1>9 DEF Bookkeeping

LEMMA SnapshotStepSound ==
  ASSUME AgentTypeOK, IInv, Bookkeeping, SnapshotStep
  PROVE  /\ Bookkeeping' /\ \A e \in Deliveries : SameDelivery(e)
         /\ Onward
         /\ UNCHANGED <<agentVars, factVars, faults>>
<1> USE DEF agentVars, factVars
<1>1. TypeOK
  BY DEF AgentTypeOK
<1>2. CASE RunCopy \/ PublishManifest
  <2>1. Still /\ UNCHANGED <<agentVars, factVars, faults>>
    BY <1>2, StillVars DEF RunCopy, PublishManifest
  <2> QED BY <1>1, <2>1, QuietAgents, StillForward DEF Forward
<1>3. ASSUME NEW c \in Claims, RunnerCall(c), UNCHANGED <<agentVars, factVars, faults>>
      PROVE  /\ Bookkeeping' /\ \A e \in Deliveries : SameDelivery(e)
             /\ Onward
  BY <1>1, <1>3, RunnerStill, FinishSnapshotSound, QuietAgents, StillForward
     DEF Forward
<1> QED BY <1>2, <1>3 DEF SnapshotStep, RunCopy, PublishManifest

-----------------------------------------------------------------------------
(* All steps of the composition *)

(* Steps after which every delivery looks the same to the layers above,    *)
(* and steps after which one delivery does not.                            *)
QuietStep(d) ==
  \/ Register(d) \/ Deliver(d) \/ Discard(d) \/ DeliveryAlarm(d)
  \/ Arm(d) \/ CallReserve(d) \/ KeepRevision(d) \/ Send(d)
  \/ BeginWrite(d) \/ StoreRows(d) \/ Plan(d) \/ Confirm(d) \/ Commit(d)
  \/ Handoff(d) \/ Completed(d) \/ CheckTurn(d) \/ ClearReceipt(d)
  \/ Abort(d) \/ LoseMessage(d)
WriteStep(d) ==
  \/ Price(d) \/ CheckWrite(d) \/ Insert(d) \/ InsertFails(d)
  \/ Finish(d) \/ ExpireReservation(d)

LEMMA AgentCases ==
  AgentNext <=> \/ \E d \in Deliveries : QuietStep(d) \/ WriteStep(d)
                \/ LandLate
                \/ SnapshotStep
                \/ TimePasses
BY DEF AgentNext, Proceed, QuietStep, WriteStep

LEMMA QuietStepSound ==
  ASSUME AgentTypeOK, IInv, Bookkeeping, NEW d \in Deliveries, QuietStep(d)
  PROVE  /\ run' \in [Deliveries -> Handler] /\ receipt' \in [Deliveries -> Receipt]
         /\ Bookkeeping' /\ \A e \in Deliveries : SameDelivery(e)
         /\ Forward
         /\ UNCHANGED <<newDay, factVars, publishVars>>
<1>1. /\ run \in [Deliveries -> Handler] /\ receipt \in [Deliveries -> Receipt]
      /\ TypeOK
  BY DEF AgentTypeOK
<1>2. UNCHANGED <<newDay, factVars, publishVars>>
  BY DEF QuietStep, Register, Deliver, Discard, DeliveryAlarm, Arm, CallReserve,
         KeepRevision, Send, BeginWrite, StoreRows, Plan, Confirm, Commit,
         Handoff, Completed, CheckTurn, ClearReceipt, Abort, LoseMessage
<1>3. CASE CallReserve(d)
  <2>1. receipt' = receipt
    BY <1>3 DEF CallReserve
  <2> QED BY <1>1, <1>2, <1>3, <2>1, CallReserveSound
<1>4. CASE Plan(d)
  <2>1. receipt' = receipt
    BY <1>4 DEF Plan
  <2> QED BY <1>1, <1>2, <1>4, <2>1, PlanSound
<1>5. CASE ~CallReserve(d) /\ ~Plan(d)
  <2>1. UNCHANGED vars
    BY <1>5 DEF QuietStep, Register, Deliver, Discard, DeliveryAlarm, Arm,
         KeepRevision, Send, BeginWrite, StoreRows, Confirm, Commit,
         Handoff, Completed, CheckTurn, ClearReceipt, Abort, LoseMessage
  <2>2. Still /\ Forward
    BY <1>1, <2>1, StillVars, StillForward
  <2>3. CASE Discard(d) \/ LoseMessage(d)
    <3>1. UNCHANGED <<receipt, run>>
      BY <2>3 DEF Discard, LoseMessage
    <3> QED BY <1>1, <1>2, <2>2, <3>1, QuietAgents DEF factVars
  <2>4. CASE Register(d)
    <3>1. CASE receipt[d].revision = 0
      BY <1>2, <2>2, <2>4, <3>1, RegisterSound
    <3>2. CASE receipt[d].revision # 0
      <4>1. receipt' = receipt
        BY <2>4, <3>2 DEF Register
      <4> QED BY <1>1, <1>2, <2>2, <2>4, <3>2, <4>1, MoveActions
    <3> QED BY <3>1, <3>2
  <2>5. CASE DeliveryAlarm(d)
    <3>1. CASE receipt' = receipt
      BY <1>1, <1>2, <2>2, <2>5, <3>1, AlarmSound
    <3>2. CASE receipt' # receipt
      <4>1. run[d] = Idle /\ Start(d, "expire", "alarm") /\ Keep(d, "phase", "expired")
        BY <2>5, <3>2 DEF DeliveryAlarm
      <4> QED BY <1>2, <2>2, <4>1, ExpiredSound DEF factVars
    <3> QED BY <3>1, <3>2
  <2>6. CASE Arm(d) \/ Send(d) \/ CheckTurn(d) \/ Abort(d)
    <3>1. receipt' = receipt
      BY <2>6 DEF Arm, Send, CheckTurn, Abort
    <3> QED BY <1>1, <1>2, <2>2, <2>6, <3>1, MoveActions
  <2>7. CASE KeepRevision(d) \/ Deliver(d)
    BY <1>2, <2>2, <2>7, KeepRevisionSound
  <2>8. CASE BeginWrite(d) \/ Handoff(d)
    <3>1. receipt' = receipt
      BY <2>8 DEF BeginWrite, Handoff
    <3> QED BY <1>1, <1>2, <2>2, <2>8, <3>1, BeginWriteSound, HandoffSound
  <2>9. CASE StoreRows(d)
    BY <1>2, <2>2, <2>9, StoreRowsSound
  <2>10. CASE Confirm(d) \/ Commit(d)
    BY <1>2, <2>2, <2>10, ConfirmSound
  <2>11. CASE Completed(d)
    BY <1>2, <2>2, <2>11, CompletedSound
  <2>12. CASE ClearReceipt(d)
    BY <1>2, <2>2, <2>12, ClearSound
  <2> QED BY <1>5, <2>3, <2>4, <2>5, <2>6, <2>7, <2>8, <2>9, <2>10, <2>11, <2>12
          DEF QuietStep
<1> QED BY <1>3, <1>4, <1>5

LEMMA WriteStepSound ==
  ASSUME AgentTypeOK, IInv, Bookkeeping, NEW d \in Deliveries, WriteStep(d)
  PROVE  /\ run' \in [Deliveries -> Handler] /\ receipt' \in [Deliveries -> Receipt]
         /\ Bookkeeping' /\ Forward
         /\ \A e \in Deliveries : e # d => SameDelivery(e)
         /\ UNCHANGED <<newDay, publishVars>>
<1>1. /\ run \in [Deliveries -> Handler] /\ receipt \in [Deliveries -> Receipt]
      /\ TypeOK
  BY DEF AgentTypeOK
<1>2. UNCHANGED <<newDay, publishVars>>
  BY DEF WriteStep, Price, CheckWrite, Insert, InsertFails, Finish, ExpireReservation
<1>3. CASE Finish(d)
  <2>1. receipt' = receipt
    BY <1>3 DEF Finish
  <2> QED BY <1>1, <1>2, <1>3, <2>1, FinishSound
<1>4. CASE ExpireReservation(d)
  <2>1. receipt' = receipt
    BY <1>4 DEF ExpireReservation
  <2> QED BY <1>1, <1>2, <1>4, <2>1, ExpireSound
<1>5. CASE Price(d) \/ Insert(d) \/ InsertFails(d)
  <2>1. receipt' = receipt /\ UNCHANGED vars
    BY <1>5 DEF Price, Insert, InsertFails
  <2>2. Forward
    BY <1>1, <2>1, StillVars, StillForward
  <2> QED BY <1>1, <1>2, <1>5, <2>1, <2>2, PriceSound, InsertSound
<1>6. CASE CheckWrite(d)
  <2>1. UNCHANGED vars
    BY <1>6 DEF CheckWrite
  <2>2. Forward
    BY <1>1, <2>1, StillVars, StillForward
  <2> QED BY <1>2, <1>6, <2>2, CheckWriteSound
<1> QED BY <1>3, <1>4, <1>5, <1>6 DEF WriteStep

LEMMA TimePassesSound ==
  ASSUME AgentTypeOK, Bookkeeping, TimePasses
  PROVE  /\ Still /\ Bookkeeping' /\ \A e \in Deliveries : SameDelivery(e)
<1>1. Still
  BY DEF TimePasses, Tick, Still, dayVars
<1> QED BY <1>1, QuietAgents DEF TimePasses, factVars

LEMMA LandLateSound ==
  ASSUME AgentTypeOK, Bookkeeping, LandLate
  PROVE  /\ Still /\ Bookkeeping' /\ \A e \in Deliveries : SameDelivery(e)
<1>1. Still /\ UNCHANGED <<receipt, newDay, run>> /\ landed \subseteq landed'
  BY StillVars DEF LandLate, agentVars
<1> QED BY <1>1, QuietAgents

LEMMA NextBookkeeping ==
  ASSUME AgentTypeOK, IInv, Bookkeeping, [AgentNext]_allVars
  PROVE  /\ run' \in [Deliveries -> Handler] /\ receipt' \in [Deliveries -> Receipt]
         /\ Bookkeeping'
<1>1. run \in [Deliveries -> Handler] /\ receipt \in [Deliveries -> Receipt]
  BY DEF AgentTypeOK
<1>2. ASSUME NEW d \in Deliveries, QuietStep(d) \/ WriteStep(d)
      PROVE  /\ run' \in [Deliveries -> Handler] /\ receipt' \in [Deliveries -> Receipt]
             /\ Bookkeeping'
  BY <1>2, QuietStepSound, WriteStepSound
<1>3. CASE LandLate
  BY <1>1, <1>3, LandLateSound DEF LandLate, agentVars
<1>4. CASE SnapshotStep
  BY <1>1, <1>4, SnapshotStepSound DEF agentVars
<1>5. CASE TimePasses
  BY <1>1, <1>5, TimePassesSound DEF TimePasses
<1>6. CASE UNCHANGED allVars
  <2>1. Still /\ UNCHANGED <<receipt, newDay, run, landed>>
    BY <1>6, StillVars DEF allVars, agentVars, factVars
  <2> QED BY <1>1, <2>1, QuietAgents
<1> QED BY <1>2, <1>3, <1>4, <1>5, <1>6, AgentCases

(* Every step is a step of the coordinator, or leaves it alone. *)
LEMMA AgentStepIsNext ==
  ASSUME AgentTypeOK, [AgentNext]_allVars
  PROVE  [Next]_vars
<1>1. ASSUME NEW d \in Deliveries, QuietStep(d) \/ WriteStep(d)
      PROVE  [Next]_vars
  <2>1. PlannedDays(d) \in SUBSET Day /\ PlannedLinks(d) \in SUBSET Link
    <3>1. newDay[d] \in Day /\ receipt[d].prev \in Day \cup {NoDay}
      BY DEF AgentTypeOK, Receipt, ReceiptFields
    <3>2. Moves(d) => receipt[d].prev \in Day
      BY <3>1 DEF Moves
    <3> QED BY <3>1, <3>2, PlannedDaysAre DEF PlannedLinks
  <2>2. CASE CallReserve(d)
    <3>1. CASE GetStats
      BY <3>1 DEF Next, ScheduleStep
    <3>2. CASE Reserve(d, {newDay[d]}, life[d]) /\ ~Expired(d)
      <4>1. life[d] \in 1..DeliveryRetention
        BY <3>2 DEF AgentTypeOK, Expired
      <4>2. {newDay[d]} \in SUBSET Day
        BY DEF AgentTypeOK
      <4> QED BY <3>2, <4>1, <4>2 DEF Next, DeliveryStep
    <3> QED BY <2>2, <3>1, <3>2 DEF CallReserve
  <2>3. CASE Plan(d)
    <3>1. CASE SendPlan(d)
      BY <2>1, <3>1 DEF SendPlan, Next, DeliveryStep
    <3> QED BY <2>3, <3>1 DEF Plan
  <2>4. CASE Finish(d)
    <3>1. run[d].held \in BOOLEAN
      BY DEF AgentTypeOK, Handler
    <3> QED BY <2>1, <2>4, <3>1 DEF Finish, Next, DeliveryStep
  <2>5. CASE ExpireReservation(d)
    BY <2>5 DEF ExpireReservation, EndReservation, Next, DeliveryStep
  <2>6. CASE ~(CallReserve(d) \/ Plan(d) \/ Finish(d) \/ ExpireReservation(d))
    BY <1>1, <2>6 DEF QuietStep, WriteStep, Register, Deliver, Discard,
         DeliveryAlarm, Arm, KeepRevision, Send, BeginWrite, StoreRows, Confirm,
         Commit, Handoff, Completed, CheckTurn, ClearReceipt, Abort, LoseMessage,
         Price, CheckWrite, Insert, InsertFails
  <2> QED BY <2>2, <2>3, <2>4, <2>5, <2>6
<1>2. CASE SnapshotStep
  <2>1. ASSUME NEW c \in Claims, RunnerCall(c)  PROVE Next
    BY <2>1 DEF RunnerCall, Next, ScheduleStep, ClaimStep, OperatorStep
  <2> QED BY <1>2, <2>1 DEF SnapshotStep, RunCopy, PublishManifest
<1>3. CASE LandLate \/ TimePasses \/ UNCHANGED allVars
  BY <1>3 DEF LandLate, TimePasses, Next, allVars
<1> QED BY <1>1, <1>2, <1>3, AgentCases

LEMMA RowsType ==
  ASSUME AgentTypeOK, NEW d \in Deliveries, receipt[d].revision # 0
  PROVE  Rows(d) \subseteq Row
<1>1. newDay[d] \in Day /\ receipt[d].prev \in Day \cup {NoDay}
        /\ receipt[d].revision \in 1..MaxSequence
  BY DEF AgentTypeOK, Receipt, ReceiptFields
<1> DEFINE fact == [day |-> newDay[d], rev |-> receipt[d].revision, live |-> TRUE]
           stone(day) == [day |-> day, rev |-> receipt[d].revision, live |-> FALSE]
<1>2. fact \in Row /\ \A day \in Day : stone(day) \in Row
  BY <1>1 DEF Row
<1>3. Rows(d) \subseteq {fact} \cup {stone(day) : day \in Day}
  BY <1>1 DEF Rows, Moves
<1> HIDE DEF fact, stone
<1> QED BY <1>2, <1>3

LEMMA RunnerForgets ==
  ASSUME NEW c, RunnerCall(c)
  PROVE  UNCHANGED publishVars \/ ForgetCopies
BY Zenon DEF RunnerCall

LEMMA NextAgentType ==
  ASSUME AgentTypeOK, Bookkeeping, TypeOK', [AgentNext]_allVars,
         run' \in [Deliveries -> Handler], receipt' \in [Deliveries -> Receipt]
  PROVE  AgentTypeOK'
<1>1. AgentTypeOK
  OBVIOUS
<1> USE <1>1 DEF AgentTypeOK, agentVars, factVars, publishVars
<1>2. ASSUME NEW d \in Deliveries, QuietStep(d)
      PROVE  AgentTypeOK'
  <2>1. armed' \in [Deliveries -> BOOLEAN]
    BY <1>2 DEF QuietStep, Register, Deliver, Discard, DeliveryAlarm, Arm,
      CallReserve, KeepRevision, Send, BeginWrite, StoreRows, Plan, Confirm,
      Commit, Handoff, Completed, CheckTurn, ClearReceipt, Abort, LoseMessage
  <2>2. queue' \subseteq Deliveries
    <3>1. run[d].next \subseteq Deliveries
      BY DEF Handler
    <3> QED BY <1>2, <3>1 DEF QuietStep, Register, Deliver, Discard,
      DeliveryAlarm, Arm, CallReserve, KeepRevision, Send, BeginWrite,
      StoreRows, Plan, Confirm, Commit, Handoff, Completed, CheckTurn,
      ClearReceipt, Abort, LoseMessage
  <2>3. faults' \in 0..MaxFaults
    BY <1>2 DEF QuietStep, Register, Deliver, Discard, DeliveryAlarm, Arm,
      CallReserve, KeepRevision, Send, BeginWrite, StoreRows, Plan, Confirm,
      Commit, Handoff, Completed, CheckTurn, ClearReceipt, Abort, LoseMessage,
      Faulty
  <2>4. UNCHANGED <<life, newDay, factVars, publishVars>>
    BY <1>2 DEF QuietStep, Register, Deliver, Discard, DeliveryAlarm, Arm,
      CallReserve, KeepRevision, Send, BeginWrite, StoreRows, Plan, Confirm,
      Commit, Handoff, Completed, CheckTurn, ClearReceipt, Abort, LoseMessage
  <2> QED BY <2>1, <2>2, <2>3, <2>4
<1>3. ASSUME NEW d \in Deliveries, WriteStep(d)
      PROVE  AgentTypeOK'
  <2>1. UNCHANGED <<armed, life, newDay, queue, publishVars>>
    BY <1>3 DEF WriteStep, Price, CheckWrite, Insert, InsertFails, Finish,
                ExpireReservation
  <2>2. faults' \in 0..MaxFaults
    BY <1>3 DEF WriteStep, Price, CheckWrite, Insert, InsertFails, Finish,
                ExpireReservation, Faulty
  <2>3. landed' \subseteq Row /\ late' \subseteq Row
    <3>1. CASE Insert(d) \/ InsertFails(d)
      <4>1. Rows(d) \subseteq Row
        <5>1. run[d].at = "write"
          BY <3>1 DEF Insert, InsertFails, At
        <5> QED BY <5>1, RowsType, Writer
      <4> QED BY <3>1, <4>1 DEF Insert, InsertFails
    <3>2. CASE ~(Insert(d) \/ InsertFails(d))
      BY <1>3, <3>2 DEF WriteStep, Price, CheckWrite, Finish, ExpireReservation
    <3> QED BY <3>1, <3>2
  <2> QED BY <2>1, <2>2, <2>3
<1>4. CASE LandLate
  BY <1>4 DEF LandLate
<1>5. CASE SnapshotStep
  <2>1. copies' \in Nat /\ copied' \subseteq Row /\ published' \subseteq Row
    <3>1. \A day : LiveOn(day) \subseteq Row
      BY DEF LiveOn, Newest
    <3>2. CASE RunCopy
      BY <3>1, <3>2 DEF RunCopy
    <3>3. CASE PublishManifest
      BY <3>3 DEF PublishManifest
    <3>4. ASSUME NEW c \in Claims, RunnerCall(c)  PROVE <2>1
      BY <3>4, RunnerForgets DEF ForgetCopies
    <3> QED BY <1>5, <3>2, <3>3, <3>4 DEF SnapshotStep
  <2> QED BY <1>5, <2>1 DEF SnapshotStep, RunCopy, PublishManifest
<1>6. CASE TimePasses
  <2>1. life' \in [Deliveries -> 0..DeliveryRetention]
    BY <1>6 DEF TimePasses, Down
  <2> QED BY <1>6, <2>1 DEF TimePasses
<1>7. CASE UNCHANGED allVars
  BY <1>7 DEF allVars
<1> QED BY <1>2, <1>3, <1>4, <1>5, <1>6, <1>7, AgentCases

-----------------------------------------------------------------------------
(* The lower layers *)

Core == AgentTypeOK /\ IInv /\ Bookkeeping

LEMMA InitCore == AgentInit => Core
<1> SUFFICES ASSUME AgentInit  PROVE  Core
  OBVIOUS
<1>1. IInv /\ Init
  BY InitSafe DEF AgentInit
<1>2. /\ today = RetentionDays /\ lastSequence = 1 /\ dirty = {} /\ links = {}
      /\ sequence = [d \in Deliveries |-> 0] /\ days = [d \in Deliveries |-> {}]
      /\ ~erasing
  BY <1>1 DEF Init
<1>3. Active = {} /\ ActiveDays = {} /\ LinkNodes(links) = {}
  BY <1>2 DEF Active, ActiveDays, LinkNodes
<1>4. AgentTypeOK
  <2>1. TypeOK
    BY <1>1 DEF IInv, TypeInv
  <2>2. Window \subseteq Day
    BY DEF Window
  <2> QED BY <2>1, <2>2, IdleType, NoReceiptType DEF AgentInit, AgentTypeOK
<1>5. Bookkeeping
  <2>1. ASSUME NEW d \in Deliveries
        PROVE  HandlerSound(d) /\ ReceiptSound(d) /\ DaysSound(d)
    <3>1. /\ run[d].at = "idle" /\ receipt[d] = NoReceipt /\ newDay[d] \in Window
          /\ days[d] = {} /\ d \notin Active
      BY <1>2, <1>3 DEF AgentInit, Idle
    <3>2. HandlerSound(d)
      BY <3>1 DEF HandlerSound, Writing
    <3>3. ReceiptSound(d)
      BY <3>1, NoReceiptType DEF ReceiptSound, Started
    <3> QED BY <3>1, <3>2, <3>3 DEF DaysSound
  <2>2. SequencesSound
    BY <1>3 DEF SequencesSound
  <2>3. DaysRetained
    BY <1>2, <1>3 DEF DaysRetained
  <2> QED BY <2>1, <2>2, <2>3 DEF Bookkeeping
<1> QED BY <1>1, <1>4, <1>5 DEF Core

LEMMA NextCore ==
  ASSUME Core, [AgentNext]_allVars
  PROVE  Core'
<1>1. AgentTypeOK /\ IInv /\ Bookkeeping
  BY DEF Core
<1>2. IInv'
  BY <1>1, AgentStepIsNext, NextSafe
<1>3. TypeOK'
  BY <1>2 DEF IInv, TypeInv
<1>4. /\ run' \in [Deliveries -> Handler] /\ receipt' \in [Deliveries -> Receipt]
      /\ Bookkeeping'
  BY <1>1, NextBookkeeping
<1>5. AgentTypeOK'
  BY <1>1, <1>3, <1>4, NextAgentType
<1> QED BY <1>2, <1>4, <1>5 DEF Core

THEOREM CoreInvariance == AgentSpec => []Core
BY InitCore, NextCore, PTL DEF AgentSpec

(* Under the delivery objects as they are - handlers that crash, repeat    *)
(* what they did and are overtaken by their alarm - the coordinator keeps  *)
(* every promise proved of it for callers that may call anything: captures *)
(* hold still, dirty days survive, and others see a lifecycle of snapshots.*)
THEOREM DeliveriesKeepTheCoordinator ==
  AgentSpec => /\ [](StableInput /\ CaptureSafe /\ TablesAgree)
               /\ DirtyDaySurvives /\ ImplementsLifecycle
<1>1. Core => StableInput /\ CaptureSafe /\ TablesAgree
  BY InvariantPromises DEF Core, StatePromises
<1>2. Core /\ Core' /\ [AgentNext]_allVars => StepPromises
  BY AgentStepIsNext, StepsKeepPromises DEF Core
<1>3. StepPromises => /\ [ForgetsNoUnpublishedDay]_vars
                      /\ [Abstract!Next]_LifecycleSeen
  BY DEF StepPromises
<1>4. AgentInit => Abstract!Init
  BY InitLife DEF AgentInit
<1> QED BY CoreInvariance, <1>1, <1>2, <1>3, <1>4, PTL
        DEF AgentSpec, DirtyDaySurvives, ImplementsLifecycle, Abstract!Spec

(* At most one delivery is between its write permit and the end of its     *)
(* reservation, through any crashes, expiries and redeliveries.            *)
THEOREM OneWriterAtATime == AgentSpec => []SingleWriter
<1>1. Core => SingleWriter
  <2>1. SUFFICES ASSUME Core, NEW d \in Deliveries, NEW e \in Deliveries,
                        Writing(d), Writing(e)
        PROVE  d = e
    BY DEF SingleWriter
  <2>2. Bookkeeping /\ sequence \in [Deliveries -> 0..MaxSequence]
    BY <2>1 DEF Core, AgentTypeOK, TypeOK
  <2>3. Earliest(d) /\ Earliest(e)
    BY <2>1, <2>2 DEF Bookkeeping, HandlerSound
  <2>4. d \in Active /\ e \in Active /\ sequence[d] = sequence[e]
    BY <2>2, <2>3 DEF Earliest
  <2> QED BY <2>2, <2>4 DEF Bookkeeping, SequencesSound
<1> QED BY CoreInvariance, <1>1, PTL

(* A delivery is committed only when every row it stored was written.      *)
THEOREM ReceiptsAreSound == AgentSpec => []ReceiptsSound
<1>1. Core => ReceiptsSound
  BY DEF Core, Bookkeeping, ReceiptSound, ReceiptsSound, CommittedIsWritten
<1> QED BY CoreInvariance, <1>1, PTL

-----------------------------------------------------------------------------
(* Where the fact shows: the rows that are there or may still land *)

Facts == RowsSound /\ LateHeld /\ StaleIsHeld /\ PricedOnLatest

(* A step after which the rows, and every delivery, look the same. *)
Quiet ==
  /\ Onward
  /\ \A d \in Deliveries : SameDelivery(d)
  /\ UNCHANGED <<newDay, factVars>>

LEMMA StepKinds ==
  ASSUME Core, [AgentNext]_allVars
  PROVE  Quiet \/ LandLate \/ \E d \in Deliveries : WriteStep(d)
<1>1. AgentTypeOK /\ IInv /\ Bookkeeping /\ TypeOK
  BY DEF Core, AgentTypeOK
<1>2. ASSUME NEW d \in Deliveries, QuietStep(d)  PROVE  Quiet
  BY <1>1, <1>2, QuietStepSound DEF Quiet, Forward
<1>3. CASE SnapshotStep
  BY <1>1, <1>3, SnapshotStepSound DEF Quiet, agentVars
<1>4. CASE TimePasses
  <2>1. Onward /\ \A d \in Deliveries : SameDelivery(d)
    BY <1>1, <1>4, TimePassesSound, StillForward DEF Forward
  <2> QED BY <1>4, <2>1 DEF TimePasses, Quiet
<1>5. CASE UNCHANGED allVars
  <2>1. Still /\ UNCHANGED <<receipt, newDay, run, factVars>>
    BY <1>5, StillVars DEF allVars, agentVars
  <2>2. \A d \in Deliveries : SameDelivery(d)
    BY <1>1, <2>1, QuietAgents DEF factVars
  <2> QED BY <1>1, <2>1, <2>2, StillForward DEF Forward, Quiet
<1> QED BY <1>2, <1>3, <1>4, <1>5, AgentCases

(* What a delivery that was priced, or may have written, owns. *)
LEMMA Owners ==
  ASSUME Core, NEW d \in Deliveries
  PROVE  /\ Started(d) \/ Priced(d) =>
              /\ d \in Active /\ Earliest(d)
              /\ receipt[d].revision = sequence[d] /\ receipt[d].revision \in 1..MaxSequence
         /\ Started(d) => days[d] = PlannedDays(d) /\ receipt[d].stored
         /\ Earliest(d) => /\ d \in Active
                           /\ \A e \in Deliveries : Earliest(e) => e = d
<1>1. /\ HandlerSound(d) /\ ReceiptSound(d) /\ SequencesSound
      /\ sequence \in [Deliveries -> 0..MaxSequence]
      /\ receipt \in [Deliveries -> Receipt]
  BY DEF Core, Bookkeeping, AgentTypeOK, TypeOK
<1>2. receipt[d].revision \in 0..MaxSequence
  BY <1>1 DEF Receipt, ReceiptFields
<1>3. Priced(d) => Earliest(d) /\ receipt[d].revision # 0
  BY <1>1 DEF Priced, At, HandlerSound, ReceiptSound, Writing
<1>4. Started(d) => receipt[d].stored
  BY <1>1 DEF Started, ReceiptSound
<1>5. Started(d) => Priced(d)
  BY <1>4 DEF Started, Priced
<1>6. Priced(d) => d \in Active /\ receipt[d].revision = sequence[d]
  BY <1>1, <1>3 DEF Priced, ReceiptSound
<1>7. Earliest(d) => d \in Active /\ \A e \in Deliveries : Earliest(e) => e = d
  <2>1. SUFFICES ASSUME Earliest(d), NEW e \in Deliveries, Earliest(e)
        PROVE  d \in Active /\ e = d
    BY DEF Earliest
  <2>2. d \in Active /\ e \in Active /\ sequence[d] = sequence[e]
    BY <1>1, <2>1 DEF Earliest
  <2> QED BY <1>1, <2>2 DEF SequencesSound
<1> QED BY <1>1, <1>2, <1>3, <1>4, <1>5, <1>6, <1>7 DEF ReceiptSound

LEMMA RowTypes ==
  ASSUME Core
  PROVE  \A r \in landed \cup late :
           r \in Row /\ r.rev \in Int /\ r.day \in Day /\ r.live \in BOOLEAN
BY DEF Core, AgentTypeOK, Row

(* No row is newer than a reservation. *)
LEMMA NewestReserved ==
  ASSUME Core, RowsSound, NEW d \in Deliveries, d \in Active
  PROVE  \A r \in landed \cup late : r.rev <= sequence[d]
BY DEF RowsSound

(* Rows that were there stay sound while reservations come and go. *)
LEMMA OldRowsSound ==
  ASSUME Core, Core', Onward, RowsSound,
         \A d \in Deliveries :
           Started(d) /\ (d \in Active)' => Started(d)' /\ Rows(d)' = Rows(d)
  PROVE  \A r \in landed \cup late :
           /\ r.day \in Window' /\ r.rev <= lastSequence'
           /\ \A d \in Active' :
                /\ r.rev <= sequence'[d]
                /\ r.rev = sequence'[d] => Started(d)' /\ r \in Rows(d)'
<1>1. Window' = Window
  BY DEF Core, Bookkeeping, DaysRetained, Window, InWindow
<1>2. /\ lastSequence \in Int /\ lastSequence' \in Int
      /\ sequence' \in [Deliveries -> 0..MaxSequence]
      /\ Active' \subseteq Deliveries
  BY DEF Core, AgentTypeOK, TypeOK, Active
<1>3. SUFFICES ASSUME NEW r \in landed \cup late
      PROVE  /\ r.day \in Window' /\ r.rev <= lastSequence'
             /\ \A d \in Active' :
                  /\ r.rev <= sequence'[d]
                  /\ r.rev = sequence'[d] => Started(d)' /\ r \in Rows(d)'
  OBVIOUS
<1>4. r.rev \in Int /\ r.day \in Window /\ r.rev <= lastSequence
  BY RowTypes DEF RowsSound
<1>5. r.rev <= lastSequence'
  BY <1>2, <1>4 DEF Onward
<1>6. ASSUME NEW d \in Active'
      PROVE  /\ r.rev <= sequence'[d]
             /\ r.rev = sequence'[d] => Started(d)' /\ r \in Rows(d)'
  <2>1. d \in Deliveries /\ (d \in Active)' /\ sequence'[d] \in Int
    BY <1>2, <1>6
  <2>2. CASE d \in Active /\ sequence'[d] = sequence[d]
    BY <2>1, <2>2 DEF RowsSound
  <2>3. CASE sequence'[d] > lastSequence
    BY <1>2, <1>4, <2>1, <2>3
  <2> QED BY <2>1, <2>2, <2>3 DEF Onward
<1> QED BY <1>1, <1>4, <1>5, <1>6

LEMMA QuietFacts ==
  ASSUME Core, Core', Facts, Quiet
  PROVE  Facts'
<1>1. RowsSound /\ LateHeld /\ StaleIsHeld /\ PricedOnLatest
  BY DEF Facts
<1>2. landed' = landed /\ late' = late /\ newDay' = newDay /\ Onward
  BY DEF Quiet, factVars
<1>3. \A d \in Deliveries :
        /\ Started(d)' <=> Started(d)
        /\ Started(d) => Rows(d)' = Rows(d) /\ days'[d] = days[d]
        /\ Priced(d)' => /\ Priced(d) /\ PrevDay(d)' = PrevDay(d)
                         /\ receipt'[d].revision = receipt[d].revision
  BY DEF Quiet, SameDelivery
<1>4. RowsSound'
  <2>1. \A r \in landed \cup late :
           /\ r.day \in Window' /\ r.rev <= lastSequence'
           /\ \A d \in Active' :
                /\ r.rev <= sequence'[d]
                /\ r.rev = sequence'[d] => Started(d)' /\ r \in Rows(d)'
    BY <1>1, <1>2, <1>3, OldRowsSound
  <2> QED BY <1>1, <1>2, <2>1 DEF RowsSound
<1>5. LateHeld'
  BY <1>1, <1>2, <1>3 DEF LateHeld, Onward
<1>6. LiveRows' = LiveRows
  BY <1>2 DEF LiveRows
<1>7. \A day : Held(day) => Held(day)'
  BY <1>2, <1>3 DEF Held, Onward
<1>8. StaleIsHeld'
  BY <1>1, <1>2, <1>6, <1>7 DEF StaleIsHeld
<1>9. PricedOnLatest'
  BY <1>1, <1>2, <1>3, <1>6 DEF PricedOnLatest, Onward
<1> QED BY <1>4, <1>5, <1>8, <1>9 DEF Facts

(* No rows are written, and a delivery that ends leaves nothing behind     *)
(* that is not held back.                                                  *)
LEMMA ReleasedFacts ==
  ASSUME Core, Core', Facts, Onward, UNCHANGED <<factVars, newDay>>,
         \A d \in Deliveries : Started(d) =>
           \/ Started(d)' /\ Rows(d)' = Rows(d) /\ days'[d] = days[d]
           \/ /\ ~(d \in Active)'
              /\ \A r \in late : r \in Rows(d) => r \in landed \/ r.day \in incomplete'
              /\ \A r \in LiveRows, s \in landed \cup late :
                   s.live /\ r.rev < s.rev /\ r.day \in days[d]
                     => r.day \in incomplete',
         PricedOnLatest'
  PROVE  Facts'
<1>1. RowsSound /\ LateHeld /\ StaleIsHeld
  BY DEF Facts
<1>2. landed' = landed /\ late' = late
  BY DEF factVars
<1>3. RowsSound'
  <2>1. \A r \in landed \cup late :
           /\ r.day \in Window' /\ r.rev <= lastSequence'
           /\ \A d \in Active' :
                /\ r.rev <= sequence'[d]
                /\ r.rev = sequence'[d] => Started(d)' /\ r \in Rows(d)'
    BY <1>1, OldRowsSound
  <2> QED BY <1>1, <1>2, <2>1 DEF RowsSound
<1>4. LateHeld'
  BY <1>1, <1>2 DEF LateHeld, Onward
<1>5. LiveRows' = LiveRows
  BY <1>2 DEF LiveRows
<1>6. StaleIsHeld'
  <2>1. SUFFICES ASSUME NEW r \in LiveRows, NEW s \in landed \cup late,
                        s.live, r.rev < s.rev
        PROVE  Held(r.day)'
    BY <1>2, <1>5 DEF StaleIsHeld
  <2>2. CASE r.day \in incomplete
    BY <2>2 DEF Held, Onward
  <2>3. ASSUME NEW d \in Deliveries, Started(d), r.day \in days[d]
        PROVE  Held(r.day)'
    BY <2>1, <2>3 DEF Held
  <2> QED BY <1>1, <2>1, <2>2, <2>3 DEF StaleIsHeld, Held
<1> QED BY <1>3, <1>4, <1>6 DEF Facts

(* Nothing new is priced, and what is held back stays held back. *)
LEMMA PricedStays ==
  ASSUME PricedOnLatest, Onward, UNCHANGED <<factVars, newDay>>,
         \A d \in Deliveries :
           Priced(d)' => /\ Priced(d) /\ PrevDay(d)' = PrevDay(d)
                         /\ receipt'[d].revision = receipt[d].revision
  PROVE  PricedOnLatest'
<1>1. LiveRows' = LiveRows
  BY DEF LiveRows, factVars
<1> QED BY <1>1 DEF PricedOnLatest, Onward

LEMMA CheckWriteFacts ==
  ASSUME Core, Core', Facts, NEW d \in Deliveries, CheckWrite(d)
  PROVE  Facts'
<1>1. AgentTypeOK /\ IInv /\ Bookkeeping /\ UNCHANGED <<factVars, newDay>>
        /\ days' = days
  BY DEF Core, CheckWrite, vars, deliveryVars
<1>2. Onward
  BY <1>1, WriteStepSound DEF WriteStep, Forward
<1>3. /\ \A e \in Deliveries : e # d => SameDelivery(e)
      /\ Started(d)' /\ Rows(d)' = Rows(d)
      /\ Priced(d)' => Priced(d) /\ PrevDay(d)' = PrevDay(d)
      /\ receipt'[d].revision = receipt[d].revision
  BY <1>1, CheckWriteSound DEF SameContents
<1>4. PricedOnLatest'
  <2>1. \A e \in Deliveries :
           Priced(e)' => /\ Priced(e) /\ PrevDay(e)' = PrevDay(e)
                         /\ receipt'[e].revision = receipt[e].revision
    BY <1>3 DEF SameDelivery
  <2> QED BY <1>1, <1>2, <2>1, PricedStays DEF Facts
<1>5. \A e \in Deliveries :
        Started(e) => Started(e)' /\ Rows(e)' = Rows(e) /\ days'[e] = days[e]
  BY <1>1, <1>3 DEF SameDelivery
<1> QED BY <1>1, <1>2, <1>4, <1>5, ReleasedFacts

(* A delivery that finishes wrote all its rows, the newest there are, so   *)
(* what shows on its days is the latest.                                   *)
LEMMA FinishFacts ==
  ASSUME Core, Core', Facts, NEW d \in Deliveries, Finish(d)
  PROVE  Facts'
<1>1. AgentTypeOK /\ IInv /\ Bookkeeping /\ UNCHANGED <<factVars, newDay>>
  BY DEF Core, Finish
<1>2. Onward
  BY <1>1, WriteStepSound DEF WriteStep, Forward
<1>3. /\ \A e \in Deliveries : e # d => SameDelivery(e)
      /\ \/ SameDelivery(d)
         \/ /\ d \in Active /\ ~Started(d)' /\ ~Priced(d)'
            /\ receipt[d].write = "done" /\ receipt[d].stored
  BY <1>1, FinishSound
<1>4. CASE SameDelivery(d)
  BY <1>1, <1>2, <1>3, <1>4, QuietFacts DEF Quiet
<1>5. CASE /\ d \in Active /\ ~Started(d)' /\ ~Priced(d)'
           /\ receipt[d].write = "done" /\ receipt[d].stored
  <2>1. PricedOnLatest'
    <3>1. \A e \in Deliveries :
             Priced(e)' => /\ Priced(e) /\ PrevDay(e)' = PrevDay(e)
                           /\ receipt'[e].revision = receipt[e].revision
      BY <1>3, <1>5 DEF SameDelivery
    <3> QED BY <1>1, <1>2, <3>1, PricedStays DEF Facts
  <2>2. Rows(d) \subseteq landed
    BY <1>1, <1>5 DEF Bookkeeping, ReceiptSound
  <2>3. ~(d \in Active)'
    <3>1. receipt' = receipt
      BY DEF Finish
    <3> QED BY <1>5, <3>1 DEF Started
  <2>4. ASSUME NEW r \in LiveRows, NEW s \in landed \cup late,
               r.rev < s.rev, r.day \in days[d]
        PROVE  FALSE
    <3>1. Started(d)
      BY <1>5 DEF Started
    <3>2. days[d] = PlannedDays(d) /\ receipt[d].revision = sequence[d]
      BY <3>1, Owners
    <3>3. PICK own \in Rows(d) : own.day = r.day
      BY <2>4, <3>2 DEF PlannedDays
    <3>4. own \in landed /\ own.rev = sequence[d]
      BY <2>2, <3>2, <3>3, RowsAre
    <3>5. own.rev <= r.rev
      BY <2>4, <3>3, <3>4 DEF LiveRows
    <3>6. s.rev <= sequence[d]
      BY <1>5, NewestReserved DEF Facts
    <3>7. own.rev \in Int /\ r.rev \in Int /\ s.rev \in Int
      BY <3>4, RowTypes DEF LiveRows
    <3> QED BY <2>4, <3>4, <3>5, <3>6, <3>7
  <2>5. \A e \in Deliveries : e # d /\ Started(e) =>
          Started(e)' /\ Rows(e)' = Rows(e) /\ days'[e] = days[e]
    BY <1>3 DEF SameDelivery
  <2> QED BY <1>1, <1>2, <2>1, <2>2, <2>3, <2>4, <2>5, ReleasedFacts
<1> QED BY <1>3, <1>4, <1>5

(* An expired delivery marks its days incomplete. *)
LEMMA ExpireFacts ==
  ASSUME Core, Core', Facts, NEW d \in Deliveries, ExpireReservation(d)
  PROVE  Facts'
<1>1. AgentTypeOK /\ IInv /\ Bookkeeping /\ UNCHANGED <<factVars, newDay>>
  BY DEF Core, ExpireReservation
<1>2. Onward
  BY <1>1, WriteStepSound DEF WriteStep, Forward
<1>3. /\ \A e \in Deliveries : e # d => SameDelivery(e)
      /\ \/ SameDelivery(d)
         \/ /\ d \in Active /\ ~Started(d)' /\ ~Priced(d)'
            /\ days[d] \subseteq incomplete'
  BY <1>1, ExpireSound
<1>4. CASE SameDelivery(d)
  BY <1>1, <1>2, <1>3, <1>4, QuietFacts DEF Quiet
<1>5. CASE ~Started(d)' /\ ~Priced(d)' /\ days[d] \subseteq incomplete'
  <2>1. PricedOnLatest'
    <3>1. \A e \in Deliveries :
             Priced(e)' => /\ Priced(e) /\ PrevDay(e)' = PrevDay(e)
                           /\ receipt'[e].revision = receipt[e].revision
      BY <1>3, <1>5 DEF SameDelivery
    <3> QED BY <1>1, <1>2, <3>1, PricedStays DEF Facts
  <2>2. Started(d) => ~(d \in Active)'
    <3>1. receipt' = receipt
      BY DEF ExpireReservation
    <3> QED BY <1>5, <3>1 DEF Started
  <2>3. Started(d) => \A r \in Rows(d) : r.day \in days[d]
    BY Owners, RowsAre
  <2>4. \A e \in Deliveries : e # d /\ Started(e) =>
          Started(e)' /\ Rows(e)' = Rows(e) /\ days'[e] = days[e]
    BY <1>3 DEF SameDelivery
  <2> QED BY <1>1, <1>2, <1>5, <2>1, <2>2, <2>3, <2>4, ReleasedFacts
<1> QED BY <1>3, <1>4, <1>5

(* The identity lookup finds the newest live row, if there is one. *)
LEMMA IdentityFound ==
  ASSUME Core, RowsSound
  PROVE  /\ IdentityDay \subseteq {h \in landed : h.live}
         /\ \A h \in IdentityDay, s \in landed : s.live => s.rev <= h.rev
         /\ IdentityDay = {} => \A s \in landed : ~s.live
<1> DEFINE Shown == {s \in landed : s.live}
           Left == {MaxSequence - s.rev : s \in Shown}
           Less == {ss \in Nat \X Nat : ss[1] < ss[2]}
<1>1. IdentityDay = {r \in Shown : (\A s \in Shown : s.rev <= r.rev) /\ InWindow(r.day)}
  BY DEF IdentityDay, Newest
<1>2. \A s \in landed : s.rev \in 1..MaxSequence /\ InWindow(s.day)
  BY DEF Core, AgentTypeOK, Row, RowsSound, Window
<1>3. ASSUME Shown # {}  PROVE IdentityDay # {}
  <2>1. Left \subseteq Nat /\ Left # {}
    BY <1>2, <1>3
  <2>2. IsWellFoundedOn(Less, Nat)
    BY NatLessThanWellFounded DEF OpToRel
  <2>3. PICK x \in Left : \A y \in Left : <<y, x>> \notin Less
    <3> HIDE DEF Left, Less
    <3> QED BY <2>1, <2>2, WFMin
  <2>4. PICK h \in Shown : x = MaxSequence - h.rev
    BY <2>3
  <2>5. \A s \in Shown : s.rev <= h.rev
    <3>1. SUFFICES ASSUME NEW s \in Shown  PROVE s.rev <= h.rev
      OBVIOUS
    <3>2. <<MaxSequence - s.rev, x>> \notin Less
      BY <2>3
    <3>3. MaxSequence - s.rev \in Nat /\ x \in Nat
      BY <2>1, <2>3
    <3>4. ~(MaxSequence - s.rev < x)
      BY <3>2, <3>3
    <3> QED BY <1>2, <2>4, <3>4
  <2> QED BY <1>1, <1>2, <2>4, <2>5
<1> QED BY <1>1, <1>3

LEMMA PriceFacts ==
  ASSUME Core, Core', Facts, NEW d \in Deliveries, Price(d)
  PROVE  Facts'
<1>1. AgentTypeOK /\ IInv /\ Bookkeeping /\ UNCHANGED <<factVars, newDay>>
        /\ days' = days /\ receipt' = receipt
  BY DEF Core, Price, vars, deliveryVars
<1>2. Onward
  BY <1>1, WriteStepSound DEF WriteStep, Forward
<1>3. /\ \A e \in Deliveries : e # d => SameDelivery(e)
      /\ Earliest(d) /\ ~Started(d) /\ ~Started(d)'
      /\ \/ SameDelivery(d)
         \/ /\ \A r \in IdentityDay : r.rev < receipt[d].revision
            /\ PrevDay(d)' \in IF IdentityDay = {} THEN {NoDay}
                                                  ELSE {r.day : r \in IdentityDay}
  BY <1>1, PriceSound
<1>4. CASE SameDelivery(d)
  BY <1>1, <1>2, <1>3, <1>4, QuietFacts DEF Quiet
<1>5. CASE PrevDay(d)' \in IF IdentityDay = {} THEN {NoDay}
                                              ELSE {r.day : r \in IdentityDay}
  <2>1. LiveRows' = LiveRows
    BY <1>1 DEF LiveRows, factVars
  <2>2. ASSUME NEW r \in LiveRows, r.day \notin incomplete
        PROVE  r.day = PrevDay(d)'
    <3>1. r \in landed /\ r.live /\ RowsSound /\ StaleIsHeld
      BY DEF LiveRows, Facts
    <3>2. PICK h \in IdentityDay : h.day = PrevDay(d)'
      BY <1>5, <3>1, IdentityFound
    <3>3. h \in landed /\ h.live /\ r.rev <= h.rev
      BY <3>1, <3>2, IdentityFound
    <3>4. ~(r.rev < h.rev)
      <4>1. ASSUME r.rev < h.rev  PROVE FALSE
        <5>1. PICK e \in Deliveries : Started(e) /\ r.day \in days[e]
          BY <2>2, <3>1, <3>3, <4>1 DEF StaleIsHeld, Held
        <5>2. e = d
          BY <1>3, <5>1, Owners
        <5> QED BY <1>3, <5>1, <5>2
      <4> QED BY <4>1
    <3>5. r.rev = h.rev
      BY <3>1, <3>3, <3>4, RowTypes
    <3> QED BY <3>1, <3>2, <3>3, <3>5 DEF RowsSound
  <2>3. PricedOnLatest'
    <3>1. SUFFICES ASSUME NEW e \in Deliveries, Priced(e)', NEW r \in LiveRows',
                          r.rev < receipt'[e].revision
          PROVE  r.day \in incomplete' \cup {PrevDay(e)', newDay'[e]}
      BY DEF PricedOnLatest
    <3>2. CASE e # d
      BY <1>1, <1>2, <1>3, <2>1, <3>1, <3>2
         DEF SameDelivery, Facts, PricedOnLatest, Onward
    <3>3. CASE e = d
      BY <1>2, <2>1, <2>2, <3>1, <3>3 DEF Onward
    <3> QED BY <3>2, <3>3
  <2>4. \A e \in Deliveries :
          Started(e) => Started(e)' /\ Rows(e)' = Rows(e) /\ days'[e] = days[e]
    BY <1>1, <1>3 DEF SameDelivery
  <2> QED BY <1>1, <1>2, <2>3, <2>4, ReleasedFacts
<1> QED BY <1>3, <1>4, <1>5

(* What is known when rows are written. *)
LEMMA Inserting ==
  ASSUME Core, NEW d \in Deliveries, Insert(d) \/ InsertFails(d)
  PROVE  /\ Started(d) /\ Priced(d) /\ PrevDay(d) = receipt[d].prev
         /\ days[d] = PlannedDays(d) /\ PlannedLinks(d) \subseteq links
         /\ receipt[d].revision = sequence[d] /\ Earliest(d) /\ d \in Active
         /\ \A r \in Rows(d) : r.day \in days[d] /\ r.rev = sequence[d] /\ r \in Row
         /\ UNCHANGED <<vars, receipt, newDay, publishVars>>
         /\ \A e \in Deliveries : SameDelivery(e)
         /\ landed \subseteq landed' /\ landed' \subseteq landed \cup Rows(d)
         /\ late \subseteq late' /\ late' \subseteq late \cup Rows(d)
<1>1. run[d].at = "write" /\ AgentTypeOK /\ Bookkeeping
  BY DEF Insert, InsertFails, At, Core
<1>2. /\ Earliest(d) /\ d \in Active /\ HandlerSound(d) /\ receipt[d].stored
      /\ receipt[d].revision = sequence[d] /\ receipt[d].revision # 0
      /\ days[d] = PlannedDays(d) /\ PlannedLinks(d) \subseteq links
  BY <1>1, Writer
<1>3. receipt[d].write # "none"
  BY <1>1, <1>2 DEF HandlerSound
<1>4. Rows(d) \subseteq Row
  BY <1>1, <1>2, RowsType
<1>5. \A r \in Rows(d) : r.day \in days[d] /\ r.rev = sequence[d] /\ r \in Row
  BY <1>2, <1>4, RowsAre
<1>6. \A e \in Deliveries : SameDelivery(e)
  BY <1>1, InsertSound
<1> QED BY <1>1, <1>2, <1>3, <1>5, <1>6
        DEF Insert, InsertFails, Started, Priced, PrevDay, At

LEMMA InsertFacts ==
  ASSUME Core, Core', Facts, NEW d \in Deliveries, Insert(d) \/ InsertFails(d)
  PROVE  Facts'
<1>1. /\ Started(d) /\ Priced(d) /\ PrevDay(d) = receipt[d].prev
      /\ days[d] = PlannedDays(d)
      /\ receipt[d].revision = sequence[d] /\ Earliest(d) /\ d \in Active
      /\ \A r \in Rows(d) : r.day \in days[d] /\ r.rev = sequence[d] /\ r \in Row
      /\ UNCHANGED <<vars, receipt, newDay>>
      /\ landed \subseteq landed' /\ landed' \subseteq landed \cup Rows(d)
      /\ late \subseteq late' /\ late' \subseteq late \cup Rows(d)
  BY Inserting
<1>2. /\ sequence' = sequence /\ days' = days /\ incomplete' = incomplete
      /\ lastSequence' = lastSequence /\ today' = today /\ Still
  BY <1>1, StillVars DEF vars, deliveryVars, dayVars
<1>3. RowsSound /\ LateHeld /\ StaleIsHeld /\ PricedOnLatest /\ Bookkeeping /\ TypeOK
  BY DEF Facts, Core, AgentTypeOK
<1>4. Onward
  BY <1>2, <1>3, StillForward DEF Forward
<1>5. \A e \in Deliveries :
        /\ Started(e)' <=> Started(e)
        /\ Started(e) => Rows(e)' = Rows(e)
        /\ Priced(e)' => Priced(e) /\ PrevDay(e)' = PrevDay(e)
  BY Inserting DEF SameDelivery
<1>6. \A r \in landed \cup late : r.rev <= sequence[d]
  BY <1>1, <1>3, NewestReserved
<1>7. \A r \in landed' \cup late' : r \in landed \cup late \/ r \in Rows(d)
  BY <1>1
<1>8. \A r \in Rows(d) : r.rev \in Int /\ r.day \in Day
  BY <1>1 DEF Row
<1>9. RowsSound'
  <2>1. \A r \in landed \cup late :
           /\ r.day \in Window' /\ r.rev <= lastSequence'
           /\ \A e \in Active' :
                /\ r.rev <= sequence'[e]
                /\ r.rev = sequence'[e] => Started(e)' /\ r \in Rows(e)'
    BY <1>3, <1>4, <1>5, OldRowsSound
  <2>2. \A r \in Rows(d) :
           /\ r.day \in Window' /\ r.rev <= lastSequence'
           /\ \A e \in Active' :
                /\ r.rev <= sequence'[e]
                /\ r.rev = sequence'[e] => Started(e)' /\ r \in Rows(e)'
    <3>1. days[d] \subseteq Window
      BY <1>3 DEF Bookkeeping, DaysRetained, ActiveDays
    <3>2. Window' = Window /\ Active' = Active
      BY <1>2 DEF Window, InWindow, Active
    <3>3. sequence[d] <= lastSequence
      BY <1>1, <1>3 DEF Bookkeeping, SequencesSound
    <3>4. \A e \in Active : /\ sequence[d] <= sequence[e]
                            /\ sequence[d] = sequence[e] => e = d
      BY <1>1, <1>3 DEF Earliest, Bookkeeping, SequencesSound
    <3> QED BY <1>1, <1>2, <1>5, <3>1, <3>2, <3>3, <3>4
  <2>3. \A r, s \in landed' \cup late' : r.live /\ s.live /\ r.rev = s.rev => r = s
    <3>1. SUFFICES ASSUME NEW r \in landed' \cup late', NEW s \in landed' \cup late',
                          r.live, s.live, r.rev = s.rev
          PROVE  r = s
      OBVIOUS
    <3>2. CASE r \in Rows(d) \/ s \in Rows(d)
      <4>1. r.rev = sequence[d] /\ s.rev = sequence[d]
        BY <1>1, <3>1, <3>2
      <4>2. r \in Rows(d) /\ s \in Rows(d)
        BY <1>1, <1>3, <1>7, <3>1, <4>1 DEF RowsSound
      <4> QED BY <3>1, <4>2, RowsAre
    <3>3. CASE r \in landed \cup late /\ s \in landed \cup late
      BY <1>3, <3>1, <3>3 DEF RowsSound
    <3> QED BY <1>7, <3>1, <3>2, <3>3
  <2> QED BY <1>7, <2>1, <2>2, <2>3 DEF RowsSound
<1>10. LateHeld'
  <2>1. SUFFICES ASSUME NEW r \in late'
        PROVE  \/ r \in landed' \/ r.day \in incomplete'
               \/ \E e \in Deliveries : Started(e)' /\ r \in Rows(e)'
    BY DEF LateHeld
  <2>2. CASE r \in Rows(d)
    BY <1>1, <1>5, <2>2
  <2>3. CASE r \in late
    BY <1>1, <1>2, <1>3, <1>5, <2>3 DEF LateHeld
  <2> QED BY <1>1, <2>1, <2>2, <2>3
<1>11. \A day : Held(day) => Held(day)'
  BY <1>2, <1>5 DEF Held
<1>12. \A r \in LiveRows' : r \in LiveRows \/ r \in Rows(d)
  BY <1>1 DEF LiveRows
<1>13. StaleIsHeld'
  <2>1. SUFFICES ASSUME NEW r \in LiveRows', NEW s \in landed' \cup late',
                        s.live, r.rev < s.rev
        PROVE  Held(r.day)'
    BY DEF StaleIsHeld
  <2>2. r \notin Rows(d)
    <3>1. s.rev <= sequence[d] /\ s.rev \in Int
      BY <1>1, <1>6, <1>7, <1>8, RowTypes
    <3> QED BY <1>1, <1>8, <2>1, <3>1
  <2>3. r \in LiveRows /\ r \in landed
    BY <1>12, <2>1, <2>2 DEF LiveRows
  <2>4. CASE s \in landed \cup late
    BY <1>3, <1>11, <2>1, <2>3, <2>4 DEF StaleIsHeld
  <2>5. CASE s \in Rows(d)
    <3>1. r.rev < receipt[d].revision
      BY <1>1, <2>1, <2>5
    <3>2. r.day \in incomplete \/ r.day = receipt[d].prev \/ r.day = newDay[d]
      BY <1>1, <1>3, <2>3, <3>1 DEF PricedOnLatest
    <3>3. r.day \in Day
      BY <2>3, RowTypes
    <3>4. r.day \in incomplete \/ r.day \in PlannedDays(d)
      BY <3>2, <3>3, PlannedDaysAre DEF Moves, NoDay, Day
    <3>5. Held(r.day)
      BY <1>1, <3>4 DEF Held
    <3> QED BY <1>11, <3>5
  <2> QED BY <1>7, <2>1, <2>4, <2>5
<1>14. PricedOnLatest'
  <2>1. SUFFICES ASSUME NEW e \in Deliveries, Priced(e)', NEW r \in LiveRows',
                        r.rev < receipt'[e].revision
        PROVE  r.day \in incomplete' \cup {PrevDay(e)', newDay'[e]}
    BY DEF PricedOnLatest
  <2>2. Priced(e) /\ e = d /\ PrevDay(e)' = PrevDay(e)
    BY <1>1, <1>5, <2>1, Owners
  <2>3. r \notin Rows(d)
    BY <1>1, <1>8, <2>1, <2>2
  <2> QED BY <1>1, <1>2, <1>3, <1>12, <2>1, <2>2, <2>3 DEF PricedOnLatest
<1> QED BY <1>9, <1>10, <1>13, <1>14 DEF Facts

LEMMA LandLateFacts ==
  ASSUME Core, Core', Facts, LandLate
  PROVE  Facts'
<1>1. PICK new \in late : landed' = landed \cup {new} /\ late' = late \ {new}
  BY DEF LandLate
<1>2. UNCHANGED <<vars, newDay, receipt, run>>
  BY DEF LandLate, agentVars
<1>3. /\ sequence' = sequence /\ days' = days /\ incomplete' = incomplete /\ Still
  BY <1>2, StillVars DEF vars, deliveryVars, dayVars
<1>4. RowsSound /\ LateHeld /\ StaleIsHeld /\ PricedOnLatest /\ Bookkeeping /\ TypeOK
        /\ AgentTypeOK
  BY DEF Facts, Core, AgentTypeOK
<1>5. Onward /\ \A e \in Deliveries : SameDelivery(e)
  BY <1>3, <1>4, StillForward, LandLateSound DEF Forward
<1>6. \A e \in Deliveries :
        /\ Started(e)' <=> Started(e)
        /\ Started(e) => Rows(e)' = Rows(e) /\ days'[e] = days[e]
        /\ Priced(e)' => /\ Priced(e) /\ PrevDay(e)' = PrevDay(e)
                         /\ receipt'[e].revision = receipt[e].revision
  BY <1>5 DEF SameDelivery
<1>7. landed' \cup late' = landed \cup late
  BY <1>1
<1>8. RowsSound'
  <2>1. \A r \in landed \cup late :
           /\ r.day \in Window' /\ r.rev <= lastSequence'
           /\ \A e \in Active' :
                /\ r.rev <= sequence'[e]
                /\ r.rev = sequence'[e] => Started(e)' /\ r \in Rows(e)'
    BY <1>4, <1>5, <1>6, OldRowsSound
  <2> QED BY <1>4, <1>7, <2>1 DEF RowsSound
<1>9. LateHeld'
  BY <1>1, <1>3, <1>4, <1>6 DEF LateHeld
<1>10. \A day : Held(day) => Held(day)'
  BY <1>3, <1>6 DEF Held
<1>11. \A r \in LiveRows' : r \in LiveRows \/ (r = new /\ new \notin landed)
  BY <1>1 DEF LiveRows
<1>12. new \in landed \/ new.day \in incomplete
         \/ \E e \in Deliveries : Started(e) /\ new \in Rows(e)
  BY <1>4 DEF LateHeld
<1>13. StaleIsHeld'
  <2>1. SUFFICES ASSUME NEW r \in LiveRows', NEW s \in landed \cup late,
                        s.live, r.rev < s.rev
        PROVE  Held(r.day)'
    BY <1>7 DEF StaleIsHeld
  <2>2. CASE r \in LiveRows
    BY <1>4, <1>10, <2>1, <2>2 DEF StaleIsHeld
  <2>3. CASE r = new /\ new \notin landed
    <3>1. \A e \in Deliveries : Started(e) /\ new \in Rows(e) => new.day \in days[e]
      BY Owners, RowsAre
    <3>2. Held(new.day)
      BY <1>12, <2>3, <3>1 DEF Held
    <3> QED BY <1>10, <2>3, <3>2
  <2> QED BY <1>11, <2>1, <2>2, <2>3
<1>14. PricedOnLatest'
  <2>1. SUFFICES ASSUME NEW e \in Deliveries, Priced(e)', NEW r \in LiveRows',
                        r.rev < receipt'[e].revision
        PROVE  r.day \in incomplete' \cup {PrevDay(e)', newDay'[e]}
    BY DEF PricedOnLatest
  <2>2. /\ Priced(e) /\ PrevDay(e)' = PrevDay(e)
        /\ receipt'[e].revision = receipt[e].revision
    BY <1>6, <2>1
  <2>3. CASE r \in LiveRows
    BY <1>2, <1>3, <1>4, <2>1, <2>2, <2>3 DEF PricedOnLatest
  <2>4. CASE r = new /\ new \notin landed
    <3>1. ASSUME NEW x \in Deliveries, Started(x), new \in Rows(x)  PROVE FALSE
      <4>1. x = e
        BY <2>2, <3>1, Owners
      <4>2. new.rev = receipt[e].revision /\ receipt[e].revision \in Int
        BY <2>2, <3>1, <4>1, RowsAre, Owners
      <4> QED BY <2>1, <2>2, <2>4, <4>2
    <3> QED BY <1>3, <1>12, <2>4, <3>1
  <2> QED BY <1>11, <2>1, <2>3, <2>4
<1> QED BY <1>8, <1>9, <1>13, <1>14 DEF Facts

LEMMA NextFacts ==
  ASSUME Core, Core', Facts, [AgentNext]_allVars
  PROVE  Facts'
BY StepKinds, QuietFacts, LandLateFacts, PriceFacts, CheckWriteFacts, InsertFacts,
   FinishFacts, ExpireFacts DEF WriteStep

-----------------------------------------------------------------------------
(* What the Copies of a generation read *)

LEMMA LiveOnAre ==
  ASSUME NEW day
  PROVE  LiveOn(day) = {r \in LiveRows : r.day = day}
BY DEF LiveOn, Newest, LiveRows

LEMMA LiveOnBecome ==
  ASSUME NEW day
  PROVE  LiveOn(day)' = {r \in LiveRows' : r.day = day}
BY DEF LiveOn, Newest, LiveRows

LEMMA CopiedDaysCaptured == CopiedDays \subseteq snapshotDays
BY DEF CopiedDays, ChunkDays

(* No row lands on a captured day: nothing is written, and rows that are   *)
(* late are there already or have their day held back.                     *)
LEMMA CapturedRowsHold ==
  ASSUME Core, Facts, [AgentNext]_allVars, gate.phase = "snapshot",
         NEW day \in snapshotDays
  PROVE  LiveOn(day)' = LiveOn(day)
<1>1. /\ IInv /\ Bookkeeping /\ LateHeld
  BY DEF Core, Facts
<1>2. /\ Active = {} /\ \A d \in Deliveries : ~Started(d) /\ ~Priced(d)
      /\ day \notin incomplete
  BY <1>1, CapturedDaysSound
<1>3. CASE landed' = landed
  <2>1. LiveRows' = LiveRows
    BY <1>3 DEF LiveRows
  <2> QED BY <2>1, LiveOnAre, LiveOnBecome
<1>4. CASE LandLate
  <2>1. PICK new \in late : landed' = landed \cup {new}
    BY <1>4 DEF LandLate
  <2>2. new \in landed \/ new.day # day
    BY <1>1, <1>2 DEF LateHeld
  <2>3. {r \in LiveRows' : r.day = day} = {r \in LiveRows : r.day = day}
    BY <2>1, <2>2 DEF LiveRows
  <2> QED BY <2>3, LiveOnAre, LiveOnBecome
<1>5. ASSUME NEW d \in Deliveries, WriteStep(d)
      PROVE  landed' = landed
  <2>1. ~(Insert(d) \/ InsertFails(d))
    BY <1>2, Inserting
  <2> QED BY <1>5, <2>1 DEF WriteStep, Price, CheckWrite, Finish, ExpireReservation,
                            factVars
<1>6. Quiet => landed' = landed
  BY DEF Quiet, factVars
<1> QED BY <1>3, <1>4, <1>5, <1>6, StepKinds

(* A step that keeps the captured days and what was read of them. *)
LEMMA CopiesKept ==
  ASSUME CopiesSound,
         gate'.phase = "snapshot" <=> gate.phase = "snapshot",
         UNCHANGED <<snapshotDays, copies, copied, published>>,
         landed \subseteq landed',
         gate.phase = "snapshot" =>
           /\ progress'.nextCopy <= copies
           /\ \A day \in snapshotDays : LiveOn(day)' = LiveOn(day),
         progress'.manifest => progress'.nextCopy = CopyCount
  PROVE  CopiesSound'
<1>1. CopiedDays' = CopiedDays /\ CopyCount' = CopyCount
  BY DEF CopiedDays, ChunkDays, Rank, CopyCount, CopyChunks
<1>2. ASSUME gate.phase = "snapshot"
      PROVE  {r \in LiveRows' : r.day \in CopiedDays} = {r \in LiveRows : r.day \in CopiedDays}
  <2>1. \A day \in CopiedDays : {r \in LiveRows' : r.day = day} = {r \in LiveRows : r.day = day}
    BY <1>2, CopiedDaysCaptured, LiveOnAre, LiveOnBecome
  <2> QED BY <2>1
<1> QED BY <1>1, <1>2 DEF CopiesSound

LEMMA HandlerKeepsCapture ==
  ASSUME Core, NEW d \in Deliveries, QuietStep(d) \/ WriteStep(d)
  PROVE  /\ gate'.phase = "snapshot" <=> gate.phase = "snapshot"
         /\ UNCHANGED <<snapshotDays, progress, publishVars>>
<1> USE DEF captureVars
<1>1. IInv /\ DaysRetained
  BY DEF Core, Bookkeeping
<1>2. UNCHANGED publishVars
  BY QuietStepSound, WriteStepSound DEF Core
<1>3. CASE CallReserve(d)
  <2>1. Housekeep /\ progress' = progress
    BY <1>3 DEF CallReserve, Reserve, GetStats
  <2> QED BY <1>1, <1>2, <2>1, HousekeepKeeps
<1>4. CASE ~CallReserve(d)
  <2>1. UNCHANGED captureVars
    <3>1. CASE Plan(d)
      BY <3>1 DEF Plan, SendPlan, PlanWrite, vars
    <3>2. CASE Finish(d)
      BY <3>2 DEF Finish, FinishDelivery
    <3>3. CASE ExpireReservation(d)
      BY <3>3 DEF ExpireReservation, EndReservation, Expire, vars
    <3>4. CASE ~(Plan(d) \/ Finish(d) \/ ExpireReservation(d))
      <4>1. UNCHANGED vars
        BY <1>4, <3>4 DEF QuietStep, WriteStep, Register, Deliver, Discard,
          DeliveryAlarm, Arm, KeepRevision, Send, BeginWrite, StoreRows, Confirm,
          Commit, Handoff, Completed, CheckTurn, ClearReceipt, Abort, LoseMessage,
          Price, CheckWrite, Insert, InsertFails
      <4> QED BY <4>1 DEF vars
    <3> QED BY <3>1, <3>2, <3>3, <3>4
  <2> QED BY <1>2, <2>1
<1> QED BY <1>3, <1>4

LEMMA RunCopyCopies ==
  ASSUME Core, CopiesSound, RunCopy
  PROVE  CopiesSound'
<1>1. /\ gate.phase = "snapshot" /\ copies \in Nat /\ IInv
  BY DEF RunCopy, Core, IInv, OneIntentAtCursor, AgentTypeOK
<1>2. /\ UNCHANGED <<gate, snapshotDays, progress, landed, published>>
      /\ copies' = copies + 1
      /\ copied' = copied \cup
           UNION {LiveOn(day) : day \in ChunkDays(copies \div TargetCount)}
  BY DEF RunCopy, vars, captureVars, factVars
<1>3. CopiedDays' = CopiedDays \cup ChunkDays(copies \div TargetCount)
  <2> DEFINE chunk(copy) == ChunkDays(copy \div TargetCount)
  <2>1. CopiedDays = UNION {chunk(copy) : copy \in 0..copies - 1}
    BY DEF CopiedDays
  <2>2. CopiedDays' = UNION {chunk(copy) : copy \in 0..copies' - 1}
    BY <1>2 DEF CopiedDays, ChunkDays, Rank
  <2>3. 0..copies' - 1 = (0..copies - 1) \cup {copies}
    BY <1>1, <1>2
  <2> HIDE DEF chunk
  <2>4. CopiedDays' = CopiedDays \cup chunk(copies)
    BY <2>1, <2>2, <2>3
  <2> QED BY <2>4 DEF chunk
<1>4. LiveRows' = LiveRows
  BY <1>2 DEF LiveRows
<1>5. UNION {LiveOn(day) : day \in ChunkDays(copies \div TargetCount)}
        = {r \in LiveRows : r.day \in ChunkDays(copies \div TargetCount)}
  BY LiveOnAre
<1>6. copied' = {r \in LiveRows : r.day \in CopiedDays'}
  BY <1>1, <1>2, <1>3, <1>5 DEF CopiesSound
<1>7. progress.nextCopy <= copies'
  <2>1. progress.nextCopy \in Nat
    BY <1>1 DEF IInv, TypeInv, TypeOK, Progress
  <2> QED BY <1>1, <1>2, <2>1 DEF CopiesSound
<1>8. CopyCount' = CopyCount
  BY <1>2 DEF CopyCount, CopyChunks
<1> QED BY <1>1, <1>2, <1>4, <1>6, <1>7, <1>8 DEF CopiesSound

LEMMA PublishCopies ==
  ASSUME Core, CopiesSound, PublishManifest
  PROVE  CopiesSound'
<1>1. gate.phase = "snapshot"
  BY DEF PublishManifest, Core, IInv, CaptureSound, NoProgress
<1>2. /\ UNCHANGED <<gate, snapshotDays, progress, landed, copies, copied>>
      /\ published' = {r \in published : r.day \notin snapshotDays} \cup copied
  BY DEF PublishManifest, vars, captureVars, factVars
<1>3. \A r \in published' : r \in landed /\ r.live
  BY <1>1, <1>2 DEF CopiesSound, LiveRows
<1>4. CopiedDays' = CopiedDays /\ CopyCount' = CopyCount /\ LiveRows' = LiveRows
  BY <1>2 DEF CopiedDays, ChunkDays, Rank, CopyCount, CopyChunks, LiveRows
<1> QED BY <1>2, <1>3, <1>4 DEF CopiesSound

(* The runner's calls: those that go on, and those that end a generation. *)
RunnerBegins(c) ==
  \/ RequestSnapshot \/ BeginEmptySnapshot \/ BeginSnapshot(c) \/ ClaimSnapshot(c)
  \/ RecordCopyIntent(c) \/ ResumeFailed \/ PrepareManifest(c)
  \/ \E job \in Jobs : AttachCopyJob(c, job)
  \/ \E job \in Jobs : copies > progress.nextCopy /\ SettleCopyDone(c, job)

LEMMA RunnerSplits ==
  ASSUME NEW c \in Claims, RunnerCall(c)
  PROVE  \/ RunnerBegins(c) /\ UNCHANGED publishVars
         \/ /\ \/ \E job \in Jobs : SettleCopyError(c, job)
               \/ FailSnapshot(c, FALSE) \/ FailSnapshot(c, TRUE)
               \/ FinishSnapshot(c)
            /\ ForgetCopies
BY Zenon DEF RunnerCall, RunnerBegins

LEMMA RunnerCopies ==
  ASSUME Core, CopiesSound, NEW c \in Claims, RunnerCall(c), UNCHANGED factVars
  PROVE  CopiesSound'
<1> USE DEF deliveryVars, dayVars, captureVars, copyVars
<1>1. IInv /\ progress \in Progress /\ gate \in Gate /\ copies \in Nat
  BY DEF Core, IInv, TypeInv, TypeOK, AgentTypeOK
<1>2. landed' = landed /\ LiveRows' = LiveRows
  BY DEF factVars, LiveRows
<1>3. \A day : LiveOn(day)' = LiveOn(day)
  BY <1>2, LiveOnAre, LiveOnBecome
<1>4. gate.phase # "snapshot" => progress = NoProgress /\ copies = 0 /\ copied = {}
  BY <1>1 DEF IInv, CaptureSound, CopiesSound
<1>5. ASSUME gate'.phase # "snapshot", ~progress'.manifest,
             published' = published, copies' = 0, copied' = {}
      PROVE  CopiesSound'
  BY <1>2, <1>5 DEF CopiesSound
<1>6. ASSUME ForgetCopies,
             \/ \E job \in Jobs : SettleCopyError(c, job)
             \/ FailSnapshot(c, FALSE) \/ FailSnapshot(c, TRUE)
             \/ FinishSnapshot(c)
      PROVE  CopiesSound'
  <2>1. gate' = OpenGate /\ progress' = NoProgress
    BY <1>6 DEF SettleCopyError, FailGeneration, FailSnapshot,
                AbandonGeneration, FinishSnapshot
  <2> QED BY <1>5, <1>6, <2>1 DEF ForgetCopies, OpenGate, NoProgress
<1>7. ASSUME UNCHANGED publishVars, RunnerBegins(c)
      PROVE  CopiesSound'
  <2>1. copies' = copies /\ copied' = copied /\ published' = published
    BY <1>7 DEF publishVars
  <2>2. CASE RequestSnapshot \/ BeginEmptySnapshot
    <3>1. gate.phase # "snapshot" /\ gate'.phase # "snapshot" /\ progress' = progress
      BY <2>2 DEF RequestSnapshot, BeginEmptySnapshot, RecoveredGate, DrainLapsed,
                  OpenGate
    <3> QED BY <1>4, <1>5, <2>1, <3>1 DEF NoProgress
  <2>3. CASE BeginSnapshot(c)
    <3>1. /\ gate.phase # "snapshot" /\ gate'.phase = "snapshot"
          /\ progress'.nextCopy = 0 /\ ~progress'.manifest
      BY <2>3 DEF BeginSnapshot, RecoveredGate, DrainLapsed, NoProgress
    <3>2. copies' = 0 /\ copied' = {}
      BY <1>4, <2>1, <3>1
    <3>3. CopiedDays' = {}
      BY <3>2 DEF CopiedDays
    <3> QED BY <1>2, <2>1, <3>1, <3>2, <3>3 DEF CopiesSound
  <2>4. CASE ClaimSnapshot(c)
    <3>1. /\ gate'.phase = gate.phase /\ snapshotDays' = snapshotDays
          /\ progress'.nextCopy = progress.nextCopy
          /\ progress'.manifest = progress.manifest
      BY <1>1, <2>4 DEF ClaimSnapshot, SetLease, Gate, Progress
    <3> QED BY <1>2, <1>3, <2>1, <3>1, CopiesKept DEF CopiesSound
  <2>5. CASE RecordCopyIntent(c) \/ ResumeFailed \/ \E job \in Jobs : AttachCopyJob(c, job)
    <3>1. gate' = gate /\ snapshotDays' = snapshotDays /\ progress' = progress
      BY <2>5 DEF RecordCopyIntent, ResumeFailed, AttachCopyJob
    <3> QED BY <1>2, <1>3, <2>1, <3>1, CopiesKept DEF CopiesSound
  <2>6. CASE \E job \in Jobs : copies > progress.nextCopy /\ SettleCopyDone(c, job)
    <3>1. /\ gate' = gate /\ snapshotDays' = snapshotDays
          /\ progress'.nextCopy = progress.nextCopy + 1
          /\ progress'.manifest = progress.manifest
          /\ copies > progress.nextCopy /\ progress.nextCopy < CopyCount
      BY <1>1, <2>6 DEF SettleCopyDone, HoldsCursor, Progress
    <3>2. progress.nextCopy \in Nat
      BY <1>1 DEF Progress
    <3>3. ~progress.manifest
      BY <3>1, <3>2 DEF CopiesSound
    <3> QED BY <1>1, <1>2, <1>3, <2>1, <3>1, <3>2, <3>3, CopiesKept
  <2>7. CASE PrepareManifest(c)
    <3>1. /\ gate' = gate /\ snapshotDays' = snapshotDays
          /\ progress'.nextCopy = progress.nextCopy /\ progress.nextCopy = CopyCount
      BY <1>1, <2>7 DEF PrepareManifest, Progress, CopiesComplete
    <3> QED BY <1>2, <1>3, <2>1, <3>1, CopiesKept DEF CopiesSound
  <2> QED BY <1>7, <2>2, <2>3, <2>4, <2>5, <2>6, <2>7 DEF RunnerBegins
<1> QED BY <1>6, <1>7, RunnerSplits

LEMMA NextCopies ==
  ASSUME Core, Facts, CopiesSound, [AgentNext]_allVars
  PROVE  CopiesSound'
<1>1. ASSUME gate'.phase = "snapshot" <=> gate.phase = "snapshot",
             UNCHANGED <<snapshotDays, progress, publishVars>>,
             landed \subseteq landed'
      PROVE  CopiesSound'
  BY <1>1, CapturedRowsHold, CopiesKept DEF CopiesSound, publishVars
<1>2. ASSUME NEW d \in Deliveries, QuietStep(d) \/ WriteStep(d)
      PROVE  CopiesSound'
  <2>1. landed \subseteq landed'
    <3>1. CASE QuietStep(d)
      BY <3>1, QuietStepSound DEF Core, factVars
    <3>2. CASE WriteStep(d)
      BY <3>2, Inserting DEF WriteStep, Price, CheckWrite, Finish,
                             ExpireReservation, factVars
    <3> QED BY <1>2, <3>1, <3>2
  <2> QED BY <1>1, <1>2, <2>1, HandlerKeepsCapture
<1>3. CASE SnapshotStep
  BY <1>3, RunCopyCopies, PublishCopies, RunnerCopies DEF SnapshotStep
<1>4. CASE LandLate
  BY <1>1, <1>4 DEF LandLate, vars, captureVars
<1>5. CASE TimePasses
  <2>1. gate'.phase = gate.phase
    BY <1>5 DEF TimePasses, Tick, Core, AgentTypeOK, TypeOK, Gate
  <2> QED BY <1>1, <1>5, <2>1 DEF TimePasses, Tick, factVars
<1>6. CASE UNCHANGED allVars
  BY <1>1, <1>6 DEF allVars, vars, captureVars, factVars
<1> QED BY <1>2, <1>3, <1>4, <1>5, <1>6, AgentCases

-----------------------------------------------------------------------------
(* Arithmetic of the Copy chunks *)

LEMMA QuotientBounds ==
  ASSUME NEW a \in Nat, NEW m \in Nat \ {0}
  PROVE  a \div m \in Nat /\ (a \div m) * m <= a /\ a < (a \div m) * m + m
OBVIOUS

LEMMA LessFactor ==
  ASSUME NEW a \in Int, NEW b \in Int, NEW m \in Nat \ {0}, a * m < b * m
  PROVE  a < b
OBVIOUS

LEMMA ProductQuotient ==
  ASSUME NEW a \in Nat, NEW m \in Nat \ {0}
  PROVE  (a * m) \div m = a
<1>1. a * m \in Nat
  OBVIOUS
<1>2. /\ (a * m) \div m \in Nat
      /\ ((a * m) \div m) * m <= a * m
      /\ a * m < ((a * m) \div m) * m + m
  BY <1>1, QuotientBounds
<1> DEFINE q == (a * m) \div m
<1>3. q \in Nat /\ q * m <= a * m /\ a * m < q * m + m
  BY <1>2
<1> HIDE DEF q
<1>4. (q + 1) * m = q * m + m /\ (a + 1) * m = a * m + m
  BY <1>3
<1>5. a < q + 1
  BY <1>3, <1>4, LessFactor
<1>6. q < a + 1
  <2>1. q * m < (a + 1) * m
    <3>1. q * m \in Int /\ a * m \in Int
      BY <1>3
    <3> QED BY <1>3, <1>4, <3>1
  <2> QED BY <1>3, <2>1, LessFactor
<1>7. q = a
  BY <1>3, <1>5, <1>6
<1> QED BY <1>7 DEF q

LEMMA ChunkWithin ==
  ASSUME NEW rank \in Nat, NEW size \in Nat, rank < size, NEW m \in Nat \ {0}
  PROVE  rank \div m < IF size <= m THEN 1 ELSE (size + m - 1) \div m
<1> DEFINE q == rank \div m
           c == (size + m - 1) \div m
<1>1. q \in Nat /\ q * m <= rank
  BY QuotientBounds
<1>2. c \in Nat /\ size + m - 1 < c * m + m
  <2>1. size + m - 1 \in Nat
    OBVIOUS
  <2> QED BY <2>1, QuotientBounds
<1>3. q * m \in Int /\ c * m \in Int
  BY <1>1, <1>2
<1> HIDE DEF q, c
<1>4. size <= m => q * m < 1 * m
  BY <1>1, <1>3
<1>5. q * m < c * m
  BY <1>1, <1>2, <1>3
<1>6. (size <= m => q < 1) /\ q < c
  BY <1>1, <1>2, <1>4, <1>5, LessFactor
<1> QED BY <1>6 DEF q, c

-----------------------------------------------------------------------------
(* Once every Copy is settled, every captured day was read. *)

LEMMA RankWithin ==
  ASSUME NEW day \in snapshotDays, snapshotDays \subseteq Day
  PROVE  Rank(day) \in Nat /\ Cardinality(snapshotDays) \in Nat
         /\ Rank(day) < Cardinality(snapshotDays)
<1> DEFINE earlier == {e \in snapshotDays : e < day}
<1>1. IsFiniteSet(snapshotDays)
  <2>1. IsFiniteSet(Day)
    BY FS_Interval DEF Day
  <2> QED BY <2>1, FS_Subset
<1>2. /\ IsFiniteSet(snapshotDays \ {day})
      /\ Cardinality(snapshotDays \ {day}) = Cardinality(snapshotDays) - 1
  BY <1>1, FS_RemoveElement
<1>3. earlier \subseteq snapshotDays \ {day}
  BY DEF Day
<1>4. /\ IsFiniteSet(earlier)
      /\ Cardinality(earlier) <= Cardinality(snapshotDays \ {day})
  BY <1>2, <1>3, FS_Subset
<1>5. Cardinality(earlier) \in Nat /\ Cardinality(snapshotDays) \in Nat
  BY <1>1, <1>4, FS_CardinalityType
<1> QED BY <1>2, <1>4, <1>5 DEF Rank

LEMMA AllCopied ==
  ASSUME Core, CopiesSound, gate.phase = "snapshot", progress.nextCopy = CopyCount
  PROVE  copied = {r \in LiveRows : r.day \in snapshotDays}
<1>1. snapshotDays \subseteq Day /\ progress.nextCopy \in Nat /\ copies \in Nat
  BY DEF Core, AgentTypeOK, TypeOK, Progress
<1>2. CopyCount <= copies
  BY DEF CopiesSound
<1>3. ASSUME NEW day \in snapshotDays
      PROVE  day \in CopiedDays
  <2> DEFINE chunk == Rank(day) \div MaxCopyDays
  <2>1. /\ Rank(day) \in Nat /\ Cardinality(snapshotDays) \in Nat
        /\ Rank(day) < Cardinality(snapshotDays)
    BY <1>1, RankWithin
  <2>2. chunk \in Nat /\ chunk < CopyChunks
    BY <2>1, ChunkWithin, QuotientBounds DEF CopyChunks
  <2>3. CopyChunks \in Nat
    <3>1. Cardinality(snapshotDays) + MaxCopyDays - 1 \in Nat
      BY <2>1
    <3> QED BY <3>1, QuotientBounds DEF CopyChunks
  <2>4. (chunk * TargetCount) \div TargetCount = chunk
    BY <2>2, ProductQuotient
  <2>5. day \in ChunkDays(chunk)
    BY DEF ChunkDays
  <2> HIDE DEF chunk
  <2>6. chunk * TargetCount \in Nat /\ CopyChunks * TargetCount \in Nat
    BY <2>2, <2>3
  <2>7. chunk * TargetCount < CopyChunks * TargetCount
    BY <2>2, <2>3, <2>6
  <2>8. chunk * TargetCount \in 0..copies - 1
    BY <1>1, <1>2, <2>6, <2>7 DEF CopyCount
  <2> QED BY <2>4, <2>5, <2>8 DEF CopiedDays
<1>4. CopiedDays = snapshotDays
  BY <1>3, CopiedDaysCaptured
<1> QED BY <1>4 DEF CopiesSound

-----------------------------------------------------------------------------
(* Steps seen from what is published *)

(* A step that forgets no day and no link, publishes nothing and leaves    *)
(* the rows and every delivery looking the same.                           *)
Advance ==
  /\ Forward
  /\ \A d \in Deliveries : SameDelivery(d)
  /\ UNCHANGED <<newDay, factVars, published>>

Publish(c) ==
  /\ FinishSnapshot(c) /\ progress.manifest /\ ManifestPublished
  /\ UNCHANGED <<agentVars, factVars, published>>

LEMMA PublishKinds ==
  ASSUME Core, [AgentNext]_allVars
  PROVE  \/ Advance \/ LandLate \/ PublishManifest
         \/ \E d \in Deliveries : WriteStep(d)
         \/ \E c \in Claims : Publish(c)
<1>1. AgentTypeOK /\ IInv /\ Bookkeeping /\ TypeOK
  BY DEF Core, AgentTypeOK
<1>2. ASSUME NEW d \in Deliveries, QuietStep(d)  PROVE  Advance
  BY <1>1, <1>2, QuietStepSound DEF Advance, publishVars
<1>3. ASSUME Still, UNCHANGED <<receipt, newDay, run, factVars, published>>
      PROVE  Advance
  <2>1. \A d \in Deliveries : SameDelivery(d)
    BY <1>1, <1>3, QuietAgents DEF factVars
  <2> QED BY <1>1, <1>3, <2>1, StillForward DEF Advance
<1>4. CASE RunCopy
  BY <1>3, <1>4, StillVars DEF RunCopy, agentVars
<1>5. ASSUME NEW c \in Claims, RunnerCall(c), UNCHANGED <<agentVars, factVars, faults>>
      PROVE  Advance \/ Publish(c)
  <2>1. published' = published
    BY <1>5, RunnerForgets DEF ForgetCopies, publishVars
  <2>2. CASE Still
    BY <1>3, <1>5, <2>1, <2>2 DEF agentVars
  <2>3. CASE FinishSnapshot(c) /\ progress.manifest /\ ManifestPublished
    BY <1>5, <2>1, <2>3 DEF Publish
  <2> QED BY <1>1, <1>5, <2>2, <2>3, RunnerStill
<1>6. CASE TimePasses
  BY <1>1, <1>3, <1>6, TimePassesSound, StillForward
     DEF TimePasses, Advance, publishVars
<1>7. CASE UNCHANGED allVars
  BY <1>3, <1>7, StillVars DEF allVars, agentVars, publishVars
<1> QED BY <1>2, <1>4, <1>5, <1>6, <1>7, AgentCases DEF SnapshotStep

-----------------------------------------------------------------------------
(* No fact is lost on the way to its snapshot *)

(* A step that forgets no day and lands rows, if any, on days that are     *)
(* dirty or reserved.                                                      *)
LEMMA DirtyForward ==
  ASSUME Core, Core', UnpublishedIsDirty,
         dirty \cup ActiveDays \subseteq dirty' \cup ActiveDays',
         published' = published, landed \subseteq landed',
         \A r \in landed' \ landed : r.day \in dirty \cup ActiveDays
  PROVE  UnpublishedIsDirty'
<1>1. Window' = Window
  BY DEF Core, Bookkeeping, DaysRetained, Window, InWindow
<1>2. SUFFICES ASSUME NEW day \in Window, day \notin dirty' \cup ActiveDays'
      PROVE  LiveOn(day)' = {r \in published' : r.day = day}
  BY <1>1 DEF UnpublishedIsDirty
<1>3. day \notin dirty \cup ActiveDays
  BY <1>2
<1>4. LiveOn(day) = {r \in published : r.day = day}
  BY <1>3 DEF UnpublishedIsDirty
<1>5. \A r \in landed' \ landed : r.day # day
  BY <1>3
<1>6. {r \in LiveRows' : r.day = day} = {r \in LiveRows : r.day = day}
  BY <1>5 DEF LiveRows
<1> QED BY <1>4, <1>6, LiveOnAre, LiveOnBecome

LEMMA NextUnpublished ==
  ASSUME Core, Core', Facts, CopiesSound, UnpublishedIsDirty, [AgentNext]_allVars
  PROVE  UnpublishedIsDirty'
<1>1. AgentTypeOK /\ IInv /\ Bookkeeping /\ TypeOK /\ LateHeld
  BY DEF Core, AgentTypeOK, Facts
<1>2. CASE Advance
  BY <1>2, DirtyForward DEF Advance, Forward, factVars
<1>3. CASE LandLate
  <2>1. PICK new \in late : landed' = landed \cup {new}
    BY <1>3 DEF LandLate
  <2>2. new \in landed \/ new.day \in dirty \cup ActiveDays
    <3>1. ASSUME NEW d \in Deliveries, Started(d), new \in Rows(d)
          PROVE  new.day \in ActiveDays
      BY <3>1, Owners, RowsAre DEF ActiveDays
    <3>2. incomplete \subseteq dirty
      BY <1>1 DEF IInv, IncompleteAreDirty
    <3> QED BY <1>1, <3>1, <3>2 DEF LateHeld
  <2>3. Forward /\ published' = published
    BY <1>1, <1>3, LandLateSound, StillForward DEF LandLate, publishVars
  <2> QED BY <2>1, <2>2, <2>3, DirtyForward DEF Forward
<1>4. ASSUME NEW d \in Deliveries, WriteStep(d)
      PROVE  UnpublishedIsDirty'
  <2>1. Forward /\ published' = published
    BY <1>1, <1>4, WriteStepSound DEF publishVars
  <2>2. CASE Insert(d) \/ InsertFails(d)
    <3>1. /\ landed \subseteq landed' /\ landed' \subseteq landed \cup Rows(d)
          /\ \A r \in Rows(d) : r.day \in days[d]
      BY <2>2, Inserting
    <3> QED BY <2>1, <3>1, DirtyForward DEF Forward, ActiveDays
  <2>3. CASE ~(Insert(d) \/ InsertFails(d))
    <3>1. landed' = landed
      BY <1>4, <2>3 DEF WriteStep, Price, CheckWrite, Finish, ExpireReservation,
                        factVars
    <3> QED BY <2>1, <3>1, DirtyForward DEF Forward
  <2> QED BY <2>2, <2>3
<1>5. CASE PublishManifest
  <2>1. gate.phase = "snapshot"
    BY <1>1, <1>5 DEF PublishManifest, IInv, CaptureSound, NoProgress
  <2>2. snapshotDays \subseteq dirty /\ snapshotDays \subseteq Day
    BY <1>1, <2>1, CapturedDaysSound DEF TypeOK
  <2>3. /\ UNCHANGED <<today, dirty, days, landed>>
        /\ published' = {r \in published : r.day \notin snapshotDays} \cup copied
    BY <1>5 DEF PublishManifest, vars, dayVars, deliveryVars, factVars
  <2>4. \A r \in copied : r.day \in snapshotDays
    BY <2>1, CopiedDaysCaptured DEF CopiesSound
  <2>5. SUFFICES ASSUME NEW day \in Window, day \notin dirty \cup ActiveDays
        PROVE  LiveOn(day)' = {r \in published' : r.day = day}
    BY <2>3 DEF UnpublishedIsDirty, Window, InWindow, ActiveDays
  <2>6. day \notin snapshotDays
    BY <2>2, <2>5
  <2>7. {r \in published' : r.day = day} = {r \in published : r.day = day}
    BY <2>3, <2>4, <2>6
  <2>8. LiveOn(day)' = LiveOn(day)
    BY <2>3, LiveOnAre, LiveOnBecome DEF LiveRows
  <2> QED BY <2>5, <2>7, <2>8 DEF UnpublishedIsDirty
<1>6. ASSUME NEW c \in Claims, Publish(c)
      PROVE  UnpublishedIsDirty'
  <2>1. /\ UNCHANGED <<receipt, newDay, run, landed, published>>
        /\ FinishSnapshot(c) /\ progress.manifest /\ ManifestPublished
    BY <1>6 DEF Publish, agentVars, factVars
  <2>2. /\ gate.phase = "snapshot" /\ CopiesComplete
        /\ dirty' = dirty \ snapshotDays
    BY <1>1, <2>1, FinishSnapshotSound
  <2>3. copied = {r \in LiveRows : r.day \in snapshotDays}
    BY <2>2, AllCopied DEF CopiesComplete
  <2>4. UNCHANGED <<today, days>>
    BY <2>1 DEF FinishSnapshot, deliveryVars
  <2>5. SUFFICES ASSUME NEW day \in Window, day \notin dirty' \cup ActiveDays
        PROVE  LiveOn(day)' = {r \in published : r.day = day}
    BY <2>1, <2>4 DEF UnpublishedIsDirty, Window, InWindow, ActiveDays
  <2>6. LiveOn(day)' = LiveOn(day)
    BY <2>1, LiveOnAre, LiveOnBecome DEF LiveRows
  <2>7. CASE day \in snapshotDays
    BY <2>1, <2>3, <2>6, <2>7, LiveOnAre DEF ManifestPublished
  <2>8. CASE day \notin snapshotDays
    BY <2>2, <2>5, <2>6, <2>8 DEF UnpublishedIsDirty
  <2> QED BY <2>7, <2>8
<1> QED BY <1>2, <1>3, <1>4, <1>5, <1>6, PublishKinds

-----------------------------------------------------------------------------
(* Where a fact was published is linked to where it is found next *)

LEMMA Linked ==
  ASSUME NEW a \in Day, NEW b \in Day, <<a, b>> \in links \/ <<b, a>> \in links
  PROVE  Connected(a, b)
BY DEF Connected, Saturated

LEMMA ConnectedOn ==
  ASSUME NEW a, NEW b, NEW c, Connected(a, b), Connected(b, c)
  PROVE  Connected(a, c)
BY DEF Connected

(* Links that are added separate nothing. *)
LEMMA StayConnected ==
  ASSUME links \subseteq links', NEW a, NEW b, Connected(a, b)
  PROVE  Connected(a, b)'
BY DEF Connected, Saturated

(* A step that forgets no link, after which no more places are in question. *)
LEMMA ConnectedForward ==
  ASSUME PublishedConnected, links \subseteq links', published' = published,
         Heads' \subseteq Heads,
         \A d \in Deliveries :
           Priced(d)' => Priced(d) /\ PrevDay(d)' = PrevDay(d)
  PROVE  PublishedConnected'
<1>1. ASSUME NEW p \in published, NEW r \in Heads'
      PROVE  Connected(p.day, r.day)'
  BY StayConnected DEF PublishedConnected
<1>2. ASSUME NEW d \in Deliveries, NEW p \in published, Priced(d)',
             NEW prev, prev = PrevDay(d)'
      PROVE  prev \in Day /\ Connected(p.day, prev)'
  <2>1. Priced(d) /\ prev = PrevDay(d)
    BY <1>2
  <2>2. prev \in Day /\ Connected(p.day, prev)
    BY <2>1 DEF PublishedConnected
  <2> QED BY <2>1, <2>2, StayConnected
<1> QED BY <1>1, <1>2 DEF PublishedConnected

(* A row that was copied is the only place its fact is, or may land. *)
LEMMA CopiedIsHead ==
  ASSUME Core, Facts, CopiesSound, gate.phase = "snapshot", NEW r \in copied
  PROVE  r \in Heads /\ Heads = {r} /\ r.day \in snapshotDays
<1>1. IInv /\ Bookkeeping /\ RowsSound /\ StaleIsHeld
  BY DEF Core, Facts
<1>2. r \in LiveRows /\ r.day \in snapshotDays /\ r \in landed /\ r.live
  BY CopiedDaysCaptured DEF CopiesSound, LiveRows
<1>3. ~Held(r.day)
  BY <1>1, <1>2, CapturedDaysSound
<1>4. ASSUME NEW s \in landed \cup late, s.live
      PROVE  s.rev <= r.rev /\ s.rev \in Int /\ r.rev \in Int
  BY <1>1, <1>2, <1>3, <1>4, RowTypes DEF StaleIsHeld
<1>5. r \in Heads
  BY <1>2, <1>4 DEF Heads
<1>6. ASSUME NEW h \in Heads  PROVE h = r
  <2>1. h \in landed \cup late /\ h.live /\ r.rev <= h.rev
    BY <1>2 DEF Heads
  <2>2. h.rev = r.rev
    BY <1>4, <2>1
  <2> QED BY <1>1, <1>2, <2>1, <2>2 DEF RowsSound
<1> QED BY <1>2, <1>5, <1>6

LEMMA ManifestConnected ==
  ASSUME Core, Core', Facts, CopiesSound, PublishedConnected, PublishManifest
  PROVE  PublishedConnected'
<1>1. gate.phase = "snapshot" /\ IInv /\ Bookkeeping
  BY DEF PublishManifest, Core, IInv, CaptureSound, NoProgress
<1>2. /\ UNCHANGED <<links, sequence, landed, late, run, receipt>>
      /\ published' = {r \in published : r.day \notin snapshotDays} \cup copied
  BY DEF PublishManifest, vars, dayVars, deliveryVars, factVars, agentVars
<1>3. Heads' = Heads /\ \A a, b : Connected(a, b)' <=> Connected(a, b)
  BY <1>2 DEF Heads, Connected, Saturated
<1>4. \A d \in Deliveries : ~Priced(d)'
  BY <1>1, <1>2, CapturedDaysSound DEF Priced, At, Active
<1>5. ASSUME NEW p \in published', NEW r \in Heads
      PROVE  Connected(p.day, r.day)
  <2>1. CASE p \in published
    BY <2>1 DEF PublishedConnected
  <2>2. CASE p \in copied
    <3>1. r = p
      BY <1>1, <2>2, CopiedIsHead
    <3> QED BY <3>1 DEF Connected
  <2> QED BY <1>2, <2>1, <2>2
<1> QED BY <1>3, <1>4, <1>5 DEF PublishedConnected

LEMMA PublishConnected ==
  ASSUME Core, Facts, CopiesSound, PublishedConnected,
         NEW c \in Claims, Publish(c)
  PROVE  PublishedConnected'
<1>1. /\ UNCHANGED <<receipt, newDay, run, landed, late, published>>
      /\ FinishSnapshot(c) /\ ManifestPublished
      /\ IInv /\ Bookkeeping /\ TypeOK
  BY DEF Publish, agentVars, factVars, Core, AgentTypeOK
<1>2. /\ gate.phase = "snapshot"
      /\ links' = {l \in links : ~(l[1] \in snapshotDays /\ l[2] \in snapshotDays)}
  BY <1>1, FinishSnapshotSound
<1>3. Saturated(snapshotDays) /\ snapshotDays \subseteq Day
        /\ \A d \in Deliveries : ~Priced(d)
  BY <1>1, <1>2, CapturedDaysSound DEF TypeOK
<1>4. \A d \in Deliveries : ~Priced(d)'
  <2>1. sequence' = sequence
    BY <1>1 DEF FinishSnapshot, deliveryVars
  <2> QED BY <1>1, <1>3, <2>1 DEF Priced, At, Active
<1>5. Heads' = Heads
  BY <1>1 DEF Heads
<1>6. ASSUME NEW p \in published, NEW r \in Heads
      PROVE  Connected(p.day, r.day)'
  <2>1. Connected(p.day, r.day)
    BY DEF PublishedConnected
  <2>2. CASE p.day \in snapshotDays
    <3>1. p \in copied
      BY <1>1, <2>2 DEF ManifestPublished
    <3>2. r = p
      BY <1>2, <3>1, CopiedIsHead
    <3> QED BY <3>2 DEF Connected
  <2>3. CASE p.day \notin snapshotDays
    <3>1. r.day \notin snapshotDays
      BY <1>3, <2>1, <2>3 DEF Connected
    <3>2. SUFFICES ASSUME NEW S \in SUBSET Day, Saturated(S)'
          PROVE  p.day \in S <=> r.day \in S
      BY DEF Connected
    <3>3. Saturated(S \ snapshotDays)
      <4>1. SUFFICES ASSUME NEW l \in links
            PROVE  l[1] \in S \ snapshotDays <=> l[2] \in S \ snapshotDays
        BY DEF Saturated
      <4>2. l[1] \in snapshotDays <=> l[2] \in snapshotDays
        BY <1>3 DEF Saturated
      <4>3. CASE l[1] \in snapshotDays
        BY <4>2, <4>3
      <4>4. CASE l[1] \notin snapshotDays
        BY <1>2, <3>2, <4>2, <4>4 DEF Saturated
      <4> QED BY <4>3, <4>4
    <3>4. p.day \in S \ snapshotDays <=> r.day \in S \ snapshotDays
      BY <1>3, <2>1, <3>3 DEF Connected
    <3> QED BY <2>3, <3>1, <3>4
  <2> QED BY <2>2, <2>3
<1> QED BY <1>1, <1>4, <1>5, <1>6 DEF PublishedConnected

(* Rows are written where the identity was found, and where the delivery's *)
(* links lead from there.                                                  *)
LEMMA InsertConnected ==
  ASSUME Core, PublishedConnected, NEW d \in Deliveries, Insert(d) \/ InsertFails(d)
  PROVE  PublishedConnected'
<1>1. /\ Priced(d) /\ PrevDay(d) = receipt[d].prev /\ PlannedLinks(d) \subseteq links
      /\ UNCHANGED <<vars, receipt, newDay, publishVars>>
      /\ \A e \in Deliveries : SameDelivery(e)
      /\ landed \subseteq landed' /\ landed' \subseteq landed \cup Rows(d)
      /\ late \subseteq late' /\ late' \subseteq late \cup Rows(d)
  BY Inserting
<1>2. links' = links /\ published' = published
  BY <1>1 DEF vars, dayVars, publishVars
<1>3. \A a, b : Connected(a, b)' <=> Connected(a, b)
  BY <1>2 DEF Connected, Saturated
<1>4. newDay[d] \in Day
  BY DEF Core, AgentTypeOK
<1>5. ASSUME NEW p \in published, NEW r \in Heads'
      PROVE  Connected(p.day, r.day)
  <2>1. CASE r \in landed \cup late
    <3>1. r \in Heads
      BY <1>1, <2>1 DEF Heads
    <3> QED BY <3>1 DEF PublishedConnected
  <2>2. CASE r \in Rows(d)
    <3>1. r.day = newDay[d]
      BY <2>2, RowsAre DEF Heads
    <3>2. receipt[d].prev \in Day /\ Connected(p.day, receipt[d].prev)
      BY <1>1 DEF PublishedConnected
    <3>3. CASE receipt[d].prev = newDay[d]
      BY <3>1, <3>2, <3>3
    <3>4. CASE receipt[d].prev # newDay[d]
      <4>1. Moves(d)
        BY <3>2, <3>4 DEF Moves, NoDay, Day
      <4>2. \/ <<receipt[d].prev, newDay[d]>> \in PlannedLinks(d)
            \/ <<newDay[d], receipt[d].prev>> \in PlannedLinks(d)
        <5>1. receipt[d].prev < newDay[d] \/ newDay[d] < receipt[d].prev
          BY <1>4, <3>2, <3>4 DEF Day
        <5> QED BY <1>4, <3>2, <4>1, <5>1 DEF PlannedLinks, Link
      <4>3. Connected(receipt[d].prev, newDay[d])
        BY <1>1, <1>4, <3>2, <4>2, Linked
      <4> QED BY <3>1, <3>2, <4>3, ConnectedOn
    <3> QED BY <3>3, <3>4
  <2> QED BY <1>1, <2>1, <2>2 DEF Heads
<1>6. ASSUME NEW e \in Deliveries, NEW p \in published, Priced(e)'
      PROVE  PrevDay(e)' \in Day /\ Connected(p.day, PrevDay(e)')
  <2>1. Priced(e) /\ PrevDay(e)' = PrevDay(e)
    BY <1>1, <1>6 DEF SameDelivery
  <2> QED BY <2>1 DEF PublishedConnected
<1> QED BY <1>2, <1>3, <1>5, <1>6 DEF PublishedConnected

LEMMA PriceConnected ==
  ASSUME Core, Facts, CopiesSound, PublishedConnected,
         NEW d \in Deliveries, Price(d)
  PROVE  PublishedConnected'
<1>1. AgentTypeOK /\ Bookkeeping /\ UNCHANGED <<links, landed, late, published>>
  BY DEF Core, Price, vars, dayVars, factVars, publishVars
<1>2. /\ \A e \in Deliveries : e # d => SameDelivery(e)
      /\ \/ SameDelivery(d)
         \/ PrevDay(d)' \in IF IdentityDay = {} THEN {NoDay}
                                               ELSE {r.day : r \in IdentityDay}
  BY <1>1, PriceSound
<1>3. Heads' = Heads /\ \A a, b : Connected(a, b)' <=> Connected(a, b)
  BY <1>1 DEF Heads, Connected, Saturated
<1>4. ASSUME NEW e \in Deliveries, NEW p \in published, Priced(e)'
      PROVE  PrevDay(e)' \in Day /\ Connected(p.day, PrevDay(e)')
  <2>1. CASE SameDelivery(e)
    BY <1>4, <2>1 DEF SameDelivery, PublishedConnected
  <2>2. CASE e = d /\ PrevDay(d)' \in IF IdentityDay = {} THEN {NoDay}
                                                     ELSE {r.day : r \in IdentityDay}
    <3>1. p \in landed /\ p.live /\ RowsSound
      BY DEF CopiesSound, Facts
    <3>2. PICK h \in IdentityDay : h.day = PrevDay(d)'
      BY <2>2, <3>1, IdentityFound
    <3>3. h \in Heads /\ h \in landed
      BY <3>1, <3>2, IdentityFound DEF Heads
    <3> QED BY <2>2, <3>2, <3>3, RowTypes DEF PublishedConnected
  <2> QED BY <1>2, <2>1, <2>2
<1> QED BY <1>1, <1>3, <1>4 DEF PublishedConnected

LEMMA WriteConnected ==
  ASSUME Core, Facts, CopiesSound, PublishedConnected,
         NEW d \in Deliveries, WriteStep(d)
  PROVE  PublishedConnected'
<1>1. AgentTypeOK /\ IInv /\ Bookkeeping
  BY DEF Core
<1>2. links \subseteq links' /\ published' = published
  BY <1>1, WriteStepSound DEF Forward, publishVars
<1>3. ASSUME UNCHANGED factVars,
             \A e \in Deliveries :
               Priced(e)' => Priced(e) /\ PrevDay(e)' = PrevDay(e)
      PROVE  PublishedConnected'
  BY <1>2, <1>3, ConnectedForward DEF factVars, Heads
<1>4. CASE CheckWrite(d)
  <2>1. /\ \A e \in Deliveries : e # d => SameDelivery(e)
        /\ Priced(d)' => Priced(d) /\ PrevDay(d)' = PrevDay(d)
    BY <1>1, <1>4, CheckWriteSound DEF SameContents
  <2> QED BY <1>3, <1>4, <2>1 DEF SameDelivery, CheckWrite
<1>5. CASE Finish(d) \/ ExpireReservation(d)
  <2>1. /\ \A e \in Deliveries : e # d => SameDelivery(e)
        /\ SameDelivery(d) \/ ~Priced(d)'
    BY <1>1, <1>5, FinishSound, ExpireSound
  <2> QED BY <1>3, <1>5, <2>1 DEF SameDelivery, Finish, ExpireReservation
<1> QED BY <1>4, <1>5, InsertConnected, PriceConnected DEF WriteStep

LEMMA NextConnected ==
  ASSUME Core, Core', Facts, CopiesSound, PublishedConnected, [AgentNext]_allVars
  PROVE  PublishedConnected'
<1>1. CASE Advance
  BY <1>1, ConnectedForward DEF Advance, Forward, SameDelivery, factVars, Heads
<1>2. CASE LandLate
  <2>1. links' = links /\ \A e \in Deliveries : SameDelivery(e)
    BY <1>2, LandLateSound DEF Core, Still
  <2>2. Heads' \subseteq Heads
    BY <1>2 DEF LandLate, Heads
  <2> QED BY <1>2, <2>1, <2>2, ConnectedForward
          DEF SameDelivery, LandLate, publishVars
<1> QED BY <1>1, <1>2, PublishKinds, ManifestConnected, PublishConnected, WriteConnected

-----------------------------------------------------------------------------
(* No fact is published on two days *)

LEMMA NextPublishedOnce ==
  ASSUME Core, Core', Facts, CopiesSound, PublishedConnected, PublishedOnce,
         [AgentNext]_allVars
  PROVE  PublishedOnce'
<1>1. CASE published' = published
  BY <1>1 DEF PublishedOnce
<1>2. CASE PublishManifest
  <2>1. gate.phase = "snapshot" /\ IInv /\ Bookkeeping
    BY <1>2 DEF PublishManifest, Core, IInv, CaptureSound, NoProgress
  <2>2. published' = {r \in published : r.day \notin snapshotDays} \cup copied
    BY <1>2 DEF PublishManifest
  <2>3. Saturated(snapshotDays) /\ snapshotDays \in SUBSET Day
    BY <2>1, CapturedDaysSound DEF Core, AgentTypeOK, TypeOK
  <2>4. ASSUME NEW r \in copied, NEW p \in published, p.day \notin snapshotDays
        PROVE  FALSE
    <3>1. r \in Heads /\ r.day \in snapshotDays
      BY <2>1, CopiedIsHead
    <3>2. Connected(p.day, r.day)
      BY <3>1 DEF PublishedConnected
    <3> QED BY <2>3, <2>4, <3>1, <3>2 DEF Connected
  <2>5. \A r, s \in copied : r = s
    BY <2>1, CopiedIsHead
  <2> QED BY <2>2, <2>4, <2>5 DEF PublishedOnce
<1>3. ASSUME NEW d \in Deliveries, WriteStep(d)
      PROVE  published' = published
  BY <1>3, WriteStepSound DEF Core, publishVars
<1> QED BY <1>1, <1>2, <1>3, PublishKinds DEF Advance, Publish, LandLate, publishVars

-----------------------------------------------------------------------------
(* The theorems *)

AgentIInv ==
  Core /\ Facts /\ CopiesSound /\ PublishedConnected
    /\ UnpublishedIsDirty /\ PublishedOnce

LEMMA InitAgentIInv == AgentInit => AgentIInv
<1> SUFFICES ASSUME AgentInit  PROVE AgentIInv
  OBVIOUS
<1>1. /\ landed = {} /\ late = {} /\ published = {} /\ copied = {} /\ copies = 0
      /\ gate.phase # "snapshot" /\ ~progress.manifest
  BY DEF AgentInit, Init, OpenGate, NoProgress
<1>2. LiveRows = {} /\ Heads = {}
  BY <1>1 DEF LiveRows, Heads
<1>3. Facts
  BY <1>1, <1>2 DEF Facts, RowsSound, LateHeld, StaleIsHeld, PricedOnLatest
<1>4. CopiesSound
  BY <1>1 DEF CopiesSound
<1>5. PublishedConnected /\ PublishedOnce
  BY <1>1 DEF PublishedConnected, PublishedOnce
<1>6. UnpublishedIsDirty
  BY <1>1, <1>2, LiveOnAre DEF UnpublishedIsDirty
<1> QED BY <1>3, <1>4, <1>5, <1>6, InitCore DEF AgentIInv

THEOREM AgentInvariance == AgentSpec => []AgentIInv
<1>1. AgentIInv /\ [AgentNext]_allVars => AgentIInv'
  <2>1. SUFFICES ASSUME AgentIInv, [AgentNext]_allVars  PROVE AgentIInv'
    OBVIOUS
  <2>2. Core /\ Facts /\ CopiesSound /\ PublishedConnected
          /\ UnpublishedIsDirty /\ PublishedOnce
    BY <2>1 DEF AgentIInv
  <2>3. Core'
    BY <2>1, <2>2, NextCore
  <2> QED BY <2>1, <2>2, <2>3, NextFacts, NextCopies, NextUnpublished,
             NextConnected, NextPublishedOnce DEF AgentIInv
<1> QED BY InitAgentIInv, <1>1, PTL DEF AgentSpec

(* No fact is lost on the way to its snapshot: what is not published as it *)
(* is stays dirty or reserved, through failed, repeated and late inserts,  *)
(* expiries, crashes and failed snapshots.                                 *)
THEOREM NothingIsLost == AgentSpec => []UnpublishedIsDirty
BY AgentInvariance, PTL DEF AgentIInv

(* A fact that moves between days is never published on two of them.       *)
THEOREM NothingIsDoubled == AgentSpec => []PublishedOnce
BY AgentInvariance, PTL DEF AgentIInv

(* The Copies of one generation read its days as of one moment.            *)
THEOREM CapturesHoldStill == AgentSpec => FactsHoldStill
<1>1. AgentIInv /\ [AgentNext]_allVars =>
        [gate.phase = "snapshot" /\ gate'.phase = "snapshot"
           => \A day \in snapshotDays : LiveOn(day)' = LiveOn(day)]_allVars
  BY CapturedRowsHold DEF AgentIInv
<1> QED BY AgentInvariance, <1>1, PTL DEF AgentSpec, FactsHoldStill
-----------------------------------------------------------------------------
(* No reservation is left behind *)

(* An object sets its alarm before it asks for a reservation, and opens    *)
(* its receipt before either.                                              *)
Watched(d) ==
  /\ d \in Active => armed[d] /\ receipt[d].phase \notin {"none", "complete"}
  /\ At(d, "arm") => receipt[d].phase # "none"
  /\ At(d, "reserve") => armed[d] /\ receipt[d].phase # "none"
  /\ receipt[d].phase = "none" => receipt[d] = NoReceipt
WatchSound == \A d \in Deliveries : Watched(d)

(* Only reserve makes a reservation, and only the coordinator ends one.    *)
LEMMA OnlyReserveAdds ==
  ASSUME AgentTypeOK, NEW d \in Deliveries, QuietStep(d) \/ WriteStep(d),
         NEW e \in Deliveries, (e \in Active)', e \notin Active
  PROVE  e = d /\ At(d, "reserve")
<1>1. sequence \in [Deliveries -> 0..MaxSequence]
  BY DEF AgentTypeOK, TypeOK
<1>2. CASE CallReserve(d)
  <2>1. CASE Reserve(d, {newDay[d]}, life[d])
    BY <1>1, <1>2, <2>1 DEF CallReserve, Reserve, Active
  <2>2. CASE GetStats
    BY <2>2 DEF GetStats, deliveryVars, Active
  <2> QED BY <1>2, <2>1, <2>2 DEF CallReserve
<1>3. CASE Plan(d)
  <2>1. sequence' = sequence
    BY <1>3 DEF Plan, SendPlan, PlanWrite, vars, deliveryVars
  <2> QED BY <2>1 DEF Active
<1>4. CASE Finish(d) \/ ExpireReservation(d)
  <2>1. sequence' = sequence \/ DeleteReservation(d)
    BY <1>4 DEF Finish, FinishDelivery, CompleteEffect, ExpireReservation,
                EndReservation, Expire, vars, deliveryVars
  <2> QED BY <1>1, <2>1 DEF DeleteReservation, Active
<1>5. CASE ~(CallReserve(d) \/ Plan(d) \/ Finish(d) \/ ExpireReservation(d))
  <2>1. UNCHANGED vars
    BY <1>5 DEF QuietStep, WriteStep, Register, Deliver, Discard,
         DeliveryAlarm, Arm, KeepRevision, Send, BeginWrite, StoreRows, Confirm,
         Commit, Handoff, Completed, CheckTurn, ClearReceipt, Abort, LoseMessage,
         Price, CheckWrite, Insert, InsertFails
  <2> QED BY <2>1 DEF vars, deliveryVars, Active
<1> QED BY <1>2, <1>3, <1>4, <1>5

(* A step of one object leaves the others as they are. *)
LEMMA OneObjectMoves ==
  ASSUME AgentTypeOK, NEW d \in Deliveries, QuietStep(d) \/ WriteStep(d),
         NEW e \in Deliveries, e # d
  PROVE  run'[e] = run[e] /\ receipt'[e] = receipt[e] /\ armed'[e] = armed[e]
<1> USE DEF AgentTypeOK
<1>1. run'[e] = run[e]
  BY DEF QuietStep, WriteStep, Register, Deliver, Discard, DeliveryAlarm, Arm,
         CallReserve, KeepRevision, Send, BeginWrite, StoreRows, Plan, Confirm,
         Commit, Handoff, Completed, CheckTurn, ClearReceipt, Abort,
         LoseMessage, Price, CheckWrite, Insert, InsertFails, Finish,
         ExpireReservation, Goto, Start, Stop
<1>2. receipt'[e] = receipt[e]
  BY DEF QuietStep, WriteStep, Register, Deliver, Discard, DeliveryAlarm, Arm,
         CallReserve, KeepRevision, Send, BeginWrite, StoreRows, Plan, Confirm,
         Commit, Handoff, Completed, CheckTurn, ClearReceipt, Abort,
         LoseMessage, Price, CheckWrite, Insert, InsertFails, Finish,
         ExpireReservation, Keep
<1>3. armed'[e] = armed[e]
  BY DEF QuietStep, WriteStep, Register, Deliver, Discard, DeliveryAlarm, Arm,
         CallReserve, KeepRevision, Send, BeginWrite, StoreRows, Plan, Confirm,
         Commit, Handoff, Completed, CheckTurn, ClearReceipt, Abort,
         LoseMessage, Price, CheckWrite, Insert, InsertFails, Finish,
         ExpireReservation
<1> QED BY <1>1, <1>2, <1>3

(* A step that leaves the alarm set and the receipt open, at a place where *)
(* nothing is asked of either.                                             *)
LEMMA StaysWatched ==
  ASSUME AgentTypeOK, Bookkeeping, NEW d \in Deliveries, Watched(d),
         QuietStep(d) \/ WriteStep(d),
         armed'[d] = armed[d],
         receipt'[d].phase = receipt[d].phase \/ receipt'[d].phase = "expired",
         receipt[d].phase = "none" => receipt'[d] = receipt[d],
         run'[d] = run[d] \/ run'[d].at \notin {"arm", "reserve"}
  PROVE  Watched(d)'
<1>1. (d \in Active)' => d \in Active \/ At(d, "reserve")
  BY OnlyReserveAdds
<1>2. At(d, "reserve") => receipt[d].phase # "complete"
  BY DEF At, Bookkeeping, HandlerSound, AgentTypeOK, Receipt
<1>3. (d \in Active)' => armed'[d] /\ receipt'[d].phase \notin {"none", "complete"}
  BY <1>1, <1>2 DEF Watched
<1>4. /\ At(d, "arm")' => receipt'[d].phase # "none"
      /\ At(d, "reserve")' => armed'[d] /\ receipt'[d].phase # "none"
  BY DEF Watched, At
<1>5. receipt'[d].phase = "none" => receipt'[d] = NoReceipt
  BY DEF Watched
<1> QED BY <1>3, <1>4, <1>5 DEF Watched

(* Handlers that leave the receipt and the alarm alone. *)
LEMMA SilentWatched ==
  ASSUME AgentTypeOK, Bookkeeping, NEW d \in Deliveries, Watched(d),
         \/ Discard(d) \/ LoseMessage(d) \/ Abort(d)
         \/ CallReserve(d) \/ Send(d) \/ BeginWrite(d) \/ Price(d) \/ Plan(d)
         \/ Insert(d) \/ InsertFails(d) \/ Finish(d) \/ Handoff(d)
         \/ CheckTurn(d) \/ ExpireReservation(d)
  PROVE  Watched(d)'
<1>1. QuietStep(d) \/ WriteStep(d)
  BY DEF QuietStep, WriteStep
<1>2. UNCHANGED <<receipt, armed>>
  BY DEF Discard, LoseMessage, Abort, CallReserve, Send, BeginWrite, Price, Plan,
         Insert, InsertFails, Finish, Handoff, CheckTurn, ExpireReservation
<1>3. run'[d] = run[d] \/ run'[d].at \notin {"arm", "reserve"}
  BY DEF AgentTypeOK, Handler, Discard, LoseMessage, Abort, CallReserve, Send,
         BeginWrite, Price, Plan, Insert, InsertFails, Finish, Handoff, CheckTurn,
         ExpireReservation, Goto, Stop, Idle
<1> QED BY <1>1, <1>2, <1>3, StaysWatched

(* Handlers that write the receipt of an open delivery. *)
LEMMA OpenWatched ==
  ASSUME AgentTypeOK, Bookkeeping, NEW d \in Deliveries, Watched(d),
         \/ KeepRevision(d) \/ Deliver(d) \/ StoreRows(d) \/ CheckWrite(d)
         \/ Confirm(d)
  PROVE  Watched(d)'
<1>1. QuietStep(d) \/ WriteStep(d)
  BY DEF QuietStep, WriteStep
<1>2. receipt[d].phase # "none"
  <2>1. CASE KeepRevision(d)
    BY <2>1 DEF KeepRevision, At, Bookkeeping, HandlerSound, Watched
  <2>2. CASE Deliver(d)
    BY <2>2 DEF Deliver
  <2>3. CASE StoreRows(d) \/ CheckWrite(d) \/ Confirm(d)
    <3>1. Writing(d)
      BY <2>3 DEF StoreRows, CheckWrite, Confirm, At, Writing
    <3> QED BY <3>1 DEF Bookkeeping, HandlerSound
  <2> QED BY <2>1, <2>2, <2>3
<1>3. armed' = armed
  BY DEF KeepRevision, Deliver, StoreRows, CheckWrite, Confirm
<1>4. receipt'[d].phase = receipt[d].phase
  <2>1. receipt \in [Deliveries -> Receipt] /\ Receipt \subseteq ReceiptFields
    BY DEF AgentTypeOK, Receipt
  <2>2. CASE KeepRevision(d)
    BY <2>1, <2>2 DEF KeepRevision, Keep, ReceiptFields
  <2>3. CASE Deliver(d)
    BY <2>1, <2>3 DEF Deliver, Keep, ReceiptFields
  <2>4. CASE StoreRows(d)
    BY <2>1, <2>4 DEF StoreRows, StoredReceipt, ReceiptFields
  <2>5. CASE CheckWrite(d)
    BY <2>1, <2>5 DEF CheckWrite, Keep, ReceiptFields
  <2>6. CASE Confirm(d)
    BY <2>1, <2>6 DEF Confirm, Keep, ReceiptFields
  <2> QED BY <2>2, <2>3, <2>4, <2>5, <2>6
<1>5. run'[d].at \notin {"arm", "reserve"}
  <2>1. run \in [Deliveries -> Handler]
    BY DEF AgentTypeOK
  <2>2. CASE KeepRevision(d)
    BY <2>1, <2>2 DEF KeepRevision, Goto, Handler
  <2>3. CASE Deliver(d)
    BY <2>1, <2>3 DEF Deliver, Start, Idle
  <2>4. CASE StoreRows(d)
    BY <2>1, <2>4 DEF StoreRows, Handler
  <2>5. CASE CheckWrite(d)
    BY <2>1, <2>5 DEF CheckWrite, Goto, Handler
  <2>6. CASE Confirm(d)
    BY <2>1, <2>6 DEF Confirm, Goto, Handler
  <2> QED BY <2>2, <2>3, <2>4, <2>5, <2>6
<1> QED BY <1>1, <1>2, <1>3, <1>4, <1>5, StaysWatched

(* Handlers that open the receipt, set the alarm or end the delivery. *)
LEMMA EdgeWatched ==
  ASSUME AgentTypeOK, Bookkeeping, NEW d \in Deliveries, Watched(d),
         \/ Register(d) \/ Arm(d) \/ DeliveryAlarm(d) \/ Commit(d)
         \/ Completed(d) \/ ClearReceipt(d)
  PROVE  Watched(d)'
<1>1. /\ receipt \in [Deliveries -> Receipt] /\ Receipt \subseteq ReceiptFields
      /\ run \in [Deliveries -> Handler] /\ armed \in [Deliveries -> BOOLEAN]
  BY DEF AgentTypeOK, Receipt
<1>2. QuietStep(d)
  BY DEF QuietStep
<1>3. sequence' = sequence
  BY DEF Register, Arm, DeliveryAlarm, Commit, Completed, ClearReceipt, vars,
         deliveryVars
<1>4. (d \in Active)' <=> d \in Active
  BY <1>3 DEF Active
<1>5. CASE Register(d)
  <2>1. armed' = armed
    BY <1>5 DEF Register
  <2>2. CASE receipt[d].revision # 0
    <3>1. receipt' = receipt /\ run'[d].at = "send"
      BY <1>1, <1>5, <2>2 DEF Register, Start, Idle
    <3> QED BY <1>4, <2>1, <3>1 DEF Watched, At
  <2>3. CASE receipt[d].revision = 0
    <3>1. run'[d].at = "arm"
      BY <1>1, <1>5, <2>3 DEF Register, Start, Idle
    <3>2. receipt'[d] = IF receipt[d] = NoReceipt THEN NewReceipt ELSE receipt[d]
      BY <1>1, <1>5, <2>3 DEF Register
    <3>3. NewReceipt.phase = "registered" /\ NoReceipt.phase = "none"
      BY DEF NewReceipt, NoReceipt
    <3>4. receipt'[d].phase # "none"
      BY <3>2, <3>3 DEF Watched
    <3>5. d \in Active => receipt'[d].phase # "complete"
      BY <3>2, <3>3 DEF Watched
    <3> QED BY <1>4, <2>1, <3>1, <3>4, <3>5 DEF Watched, At
  <2> QED BY <2>2, <2>3
<1>6. CASE Arm(d)
  <2>1. /\ receipt' = receipt /\ armed'[d]
        /\ receipt[d].phase # "none" /\ run'[d].at = "reserve"
    BY <1>1, <1>6 DEF Arm, Goto, At, Handler, Watched
  <2> QED BY <1>4, <2>1 DEF Watched, At
<1>7. CASE DeliveryAlarm(d)
  <2>1. armed[d] /\ armed' = armed /\ receipt[d].phase # "none"
    BY <1>7 DEF DeliveryAlarm
  <2>2. receipt'[d].phase \in {receipt[d].phase, "expired"}
    <3>1. UNCHANGED receipt \/ Keep(d, "phase", "expired")
      BY <1>7, Zenon DEF DeliveryAlarm
    <3>2. CASE UNCHANGED receipt
      BY <3>2
    <3>3. CASE Keep(d, "phase", "expired")
      BY <1>1, <3>3 DEF Keep, ReceiptFields
    <3> QED BY <3>1, <3>2, <3>3
  <2>3. run'[d].at # "arm"
    <3> DEFINE held == [Idle EXCEPT !.at = "finish", !.by = "alarm",
                                    !.held = d \in Active]
    <3>1. \/ \E place \in {"clear", "expire", "send", "reserve", "next"} :
               Start(d, place, "alarm")
          \/ run' = [run EXCEPT ![d] = held]
      BY <1>7 DEF DeliveryAlarm
    <3>2. ASSUME NEW place \in {"clear", "expire", "send", "reserve", "next"},
                 Start(d, place, "alarm")
          PROVE  run'[d].at = place
      BY <1>1, <3>2 DEF Start, Idle
    <3>3. held.at = "finish"
      BY DEF Idle
    <3> HIDE DEF held
    <3> QED BY <1>1, <3>1, <3>2, <3>3
  <2> QED BY <1>4, <2>1, <2>2, <2>3 DEF Watched, At
<1>8. CASE Commit(d)
  <2>1. receipt'[d].phase = "committing" /\ armed' = armed
    BY <1>1, <1>8 DEF Commit, Keep, ReceiptFields
  <2>2. run'[d].at = "finish"
    BY <1>1, <1>8 DEF Commit, Handler
  <2> QED BY <1>4, <2>1, <2>2 DEF Watched, At
<1>9. CASE Completed(d)
  <2>1. receipt'[d].phase = "complete"
    BY <1>1, <1>9 DEF Completed, Keep, ReceiptFields
  <2>2. d \notin Active
    BY <1>9 DEF Completed, At, Bookkeeping, HandlerSound
  <2>3. run'[d].at \notin {"arm", "reserve"}
    BY <1>1, <1>9 DEF Completed, Goto, Stop, Idle, Handler
  <2> QED BY <1>4, <2>1, <2>2, <2>3 DEF Watched, At
<1>10. CASE ClearReceipt(d)
  <2>1. receipt'[d] = NoReceipt
    BY <1>1, <1>10 DEF ClearReceipt
  <2>2. d \notin Active
    BY <1>10 DEF ClearReceipt, At, Bookkeeping, HandlerSound
  <2>3. run'[d].at \notin {"arm", "reserve"}
    BY <1>1, <1>10 DEF ClearReceipt, Stop, Idle
  <2> QED BY <1>4, <2>1, <2>2, <2>3 DEF Watched, At
<1> QED BY <1>5, <1>6, <1>7, <1>8, <1>9, <1>10

LEMMA InitWatched == AgentInit => WatchSound
<1> SUFFICES ASSUME AgentInit, NEW d \in Deliveries  PROVE Watched(d)
  BY DEF WatchSound
<1>1. d \notin Active
  BY DEF AgentInit, Init, Active
<1>2. receipt[d] = NoReceipt /\ run[d].at = "idle"
  BY DEF AgentInit, Idle
<1> QED BY <1>1, <1>2 DEF Watched, At

LEMMA NextWatched ==
  ASSUME Core, WatchSound, [AgentNext]_allVars
  PROVE  WatchSound'
<1>1. AgentTypeOK /\ Bookkeeping
  BY DEF Core
<1>2. ASSUME NEW d \in Deliveries, QuietStep(d) \/ WriteStep(d)
      PROVE  WatchSound'
  <2>1. Watched(d)'
    <3>1. Watched(d)
      BY DEF WatchSound
    <3> QED BY <1>1, <1>2, <3>1, SilentWatched, OpenWatched, EdgeWatched
            DEF QuietStep, WriteStep
  <2>2. ASSUME NEW e \in Deliveries, e # d  PROVE Watched(e)'
    <3>1. run'[e] = run[e] /\ receipt'[e] = receipt[e] /\ armed'[e] = armed[e]
      BY <1>1, <1>2, <2>2, OneObjectMoves
    <3>2. (e \in Active)' => e \in Active
      BY <1>1, <1>2, <2>2, OnlyReserveAdds
    <3>3. Watched(e)
      BY DEF WatchSound
    <3> QED BY <3>1, <3>2, <3>3 DEF Watched, At
  <2> QED BY <2>1, <2>2 DEF WatchSound
<1>3. CASE LandLate \/ SnapshotStep \/ TimePasses \/ UNCHANGED allVars
  <2>1. UNCHANGED <<receipt, armed, run>>
    BY <1>3 DEF LandLate, SnapshotStep, RunCopy, PublishManifest, TimePasses,
                allVars, agentVars
  <2>2. sequence' = sequence
    <3>1. CASE SnapshotStep
      <4>1. ASSUME NEW c \in Claims, RunnerCall(c)  PROVE sequence' = sequence
        BY <1>1, <4>1, RunnerStill DEF Core, Still, FinishSnapshot, deliveryVars
      <4>2. CASE RunCopy \/ PublishManifest
        BY <4>2 DEF RunCopy, PublishManifest, vars, deliveryVars
      <4> QED BY <3>1, <4>1, <4>2 DEF SnapshotStep
    <3>2. CASE LandLate \/ UNCHANGED allVars
      BY <3>2 DEF LandLate, allVars, vars, deliveryVars
    <3>3. CASE TimePasses
      BY <3>3 DEF TimePasses, Tick, deliveryVars
    <3> QED BY <1>3, <3>1, <3>2, <3>3
  <2>3. ASSUME NEW e \in Deliveries  PROVE Watched(e)'
    BY <2>1, <2>2 DEF WatchSound, Watched, At, Active
  <2> QED BY <2>3 DEF WatchSound
<1> QED BY <1>2, <1>3, AgentCases

(* Whatever crashes or goes unanswered, every reservation the coordinator  *)
(* holds has an object whose alarm is set and whose receipt is open, so no *)
(* delivery that nothing wakes up keeps the others from writing.           *)
THEOREM ReservationsAreWatched == AgentSpec => []ReservationIsWatched
<1>1. Core /\ WatchSound => ReservationIsWatched
  BY DEF WatchSound, Watched, ReservationIsWatched, Active
<1> QED BY CoreInvariance, InitWatched, NextWatched, <1>1, PTL DEF AgentSpec
=============================================================================
