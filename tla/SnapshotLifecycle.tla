------------------------- MODULE SnapshotLifecycle -------------------------
(***************************************************************************)
(* What the coordinator of one organization promises to everybody who has  *)
(* to do with its snapshots - runners, the capacity object, the erasure    *)
(* workflow - without days, deliveries, claims or clocks: generations are  *)
(* numbered upwards and run one at a time; a generation copies one target  *)
(* after the other and owes at most one Copy; it ends only when it owes    *)
(* none, and never comes back; and an organization that is being erased    *)
(* begins no generation and starts no Copy.                                *)
(*                                                                         *)
(* The steps are sets of successors, so that a module with one lifecycle   *)
(* per organization can use them too.                                      *)
(***************************************************************************)
EXTENDS Naturals

CONSTANT MaxGeneration  \* Number.MAX_SAFE_INTEGER, as the generation limit

VARIABLE life

Lifecycle ==
  [active : Nat,       \* the generation that runs, 0 if none
   last : Nat,         \* the newest generation there ever was
   owed : BOOLEAN,     \* a Copy was announced and is not settled
   settled : Nat,      \* Copies the active generation has settled
   erasing : BOOLEAN]

NewLife == [active |-> 0, last |-> 0, owed |-> FALSE, settled |-> 0,
            erasing |-> FALSE]
Init == life = NewLife

Begun(l) ==
  IF l.active = 0 /\ ~l.erasing /\ l.last < MaxGeneration
    THEN {[l EXCEPT !.active = l.last + 1, !.last = l.last + 1, !.settled = 0]}
    ELSE {}

Ended(l) ==
  IF l.active # 0 /\ ~l.owed
    THEN {[l EXCEPT !.active = 0, !.settled = 0]}
    ELSE {}

Announced(l) ==
  IF l.active # 0 /\ ~l.owed /\ ~l.erasing
    THEN {[l EXCEPT !.owed = TRUE]}
    ELSE {}

(* The Copy at the cursor is done; erasure settles it without moving on. *)
Settled(l) ==
  IF l.owed
    THEN {[l EXCEPT !.owed = FALSE, !.settled = @ + 1],
          [l EXCEPT !.owed = FALSE]}
    ELSE {}

(* A Copy that failed, was rejected or was given up ends its generation. *)
Failed(l) ==
  IF l.owed
    THEN {[l EXCEPT !.owed = FALSE, !.active = 0, !.settled = 0]}
    ELSE {}

Erased(l) == {[l EXCEPT !.erasing = TRUE]}

Steps(l) == Begun(l) \cup Ended(l) \cup Announced(l) \cup Settled(l)
              \cup Failed(l) \cup Erased(l)

Next == life' \in Steps(life)
Spec == Init /\ [][Next]_life
=============================================================================
