------------------------ MODULE SelectSnapshotDays ------------------------
(***************************************************************************)
(* selectSnapshotDirtyDays as the code runs it: a depth-first search over  *)
(* the dirty days that collects the complete components, then a greedy     *)
(* loop that takes them newest first.  DirtyDayGraph says what the result  *)
(* is; this module is checked to compute it, for every graph on Days.      *)
(*                                                                         *)
(* The order in which rows and adjacent days come back is left open.       *)
(***************************************************************************)
EXTENDS DirtyDayGraph

CONSTANT Days  \* the days a dirty day may be: integers, finitely many

ASSUME DaysAssumption == Days \subseteq Int /\ IsFiniteSet(Days)

VARIABLES
  dirty, incomplete, links,  \* the coordinator's tables, fixed during the call
  visited,     \* days the search has reached
  component,   \* days popped in the current search
  pending,     \* days pushed and not yet popped
  components,  \* complete components found so far
  selected,    \* days taken by the greedy loop
  phase        \* "search", "select", "done"

tables == <<dirty, incomplete, links>>
vars == <<tables, visited, component, pending, components, selected, phase>>

Init ==
  /\ dirty \in SUBSET Days
  /\ incomplete \in SUBSET dirty
  /\ links \in SUBSET {l \in Days \X Days : l[1] < l[2]}
  /\ visited = {} /\ component = {} /\ pending = {}
  /\ components = {} /\ selected = {}
  /\ phase = "search"

(* A link is followed only when both of its days are dirty. *)
Neighbours(day) == {e \in dirty : Adjacent(day, e, links)}

Unvisited(day) == Neighbours(day) \ visited

StartComponent ==
  /\ phase = "search" /\ pending = {} /\ component = {}
  /\ \E day \in dirty \ visited :
       pending' = {day} /\ visited' = visited \cup {day}
  /\ UNCHANGED <<tables, component, components, selected, phase>>

Visit ==
  /\ phase = "search"
  /\ \E day \in pending :
       /\ component' = component \cup {day}
       /\ pending' = (pending \ {day}) \cup Unvisited(day)
       /\ visited' = visited \cup Neighbours(day)
  /\ UNCHANGED <<tables, components, selected, phase>>

IsComplete(c) == c \cap incomplete = {}

EndComponent ==
  /\ phase = "search" /\ pending = {} /\ component # {}
  /\ components' = IF IsComplete(component)
                     THEN components \cup {component} ELSE components
  /\ component' = {}
  /\ UNCHANGED <<tables, visited, pending, selected, phase>>

EndSearch ==
  /\ phase = "search" /\ pending = {} /\ component = {} /\ visited = dirty
  /\ phase' = "select"
  /\ UNCHANGED <<tables, visited, component, pending, components, selected>>

\* Variant with a bug: an oversized component is taken whatever its place.
OversizedAnywhere(c) == Cardinality(c) > MaxSnapshotDays
TakenAlone(c) == selected = {} /\ Cardinality(c) > MaxSnapshotDays

\* Variant with a bug: one day too many fits.
FitsOneMore(c) == Cardinality(selected) + Cardinality(c) <= MaxSnapshotDays + 1
Fits(c) == Cardinality(selected) + Cardinality(c) <= MaxSnapshotDays

(* One turn of the loop over the components sorted newest first. *)
SelectNewest ==
  /\ phase = "select"
  /\ \E c \in components :
       /\ IsNewest(c, components)
       /\ \/ TakenAlone(c) /\ selected' = c /\ phase' = "done"
          \/ /\ ~TakenAlone(c)
             /\ selected' = IF Fits(c) THEN selected \cup c ELSE selected
             /\ phase' = phase
       /\ components' = components \ {c}
  /\ UNCHANGED <<tables, visited, component, pending>>

EndSelect ==
  /\ phase = "select" /\ components = {}
  /\ phase' = "done"
  /\ UNCHANGED <<tables, visited, component, pending, components, selected>>

Next == StartComponent \/ Visit \/ EndComponent \/ EndSearch
          \/ SelectNewest \/ EndSelect

Spec == Init /\ [][Next]_vars

-----------------------------------------------------------------------------
(* Properties *)

(* The loop returns the days of the one selection DirtyDayGraph defines,   *)
(* which is what the coordinator's beginSnapshot is modelled with.         *)
ResultIsTheSelection ==
  phase = "done" =>
    LET complete == CompleteComponents(dirty, incomplete, links)
    IN  {UNION s : s \in {t \in SUBSET complete : IsSelection(t, complete)}}
          = {selected}

(* A snapshot takes the newest complete component, whatever its size; it   *)
(* exceeds the limit only with a single component; and what it leaves      *)
(* behind would not have fitted.  An older component larger than the limit *)
(* is therefore passed over for as long as a newer complete one exists.    *)
NewestIsTaken ==
  phase = "done" =>
    LET complete == CompleteComponents(dirty, incomplete, links)
    IN  /\ \A c \in complete : IsNewest(c, complete) => c \subseteq selected
        /\ Cardinality(selected) > MaxSnapshotDays => selected \in complete
        /\ \A c \in complete :
             ~(c \subseteq selected)
               => Cardinality(selected) + Cardinality(c) > MaxSnapshotDays
=============================================================================
