--------------------------- MODULE DirtyDayGraph ---------------------------
(***************************************************************************)
(* The pure part of the agent delivery coordinator: which dirty days one   *)
(* snapshot captures (agent-delivery-dirty-graph.ts).                      *)
(*                                                                         *)
(* When a fact moves from one day to another, the delivery that moved it   *)
(* links the two days.  A snapshot captures whole connected components of  *)
(* that graph, newest first, so that a moved fact is never published on    *)
(* both days or on neither.  A day is an integer, ordered as the code's    *)
(* YYYY-MM-DD strings are; a link is a pair <<a, b>> with a < b.           *)
(***************************************************************************)
EXTENDS Integers, FiniteSets

CONSTANT MaxSnapshotDays  \* MAX_AGENT_SNAPSHOT_DAYS: days one snapshot captures

ASSUME MaxSnapshotDaysAssumption == MaxSnapshotDays \in Nat \ {0}

Adjacent(a, b, links) == <<a, b>> \in links \/ <<b, a>> \in links

(* A set of dirty days that no link between dirty days leaves. *)
LinkClosed(S, dirty, links) ==
  \A a \in S, b \in dirty : Adjacent(a, b, links) => b \in S

(* The days a search from d visits: the least link-closed set holding d. *)
Component(d, dirty, links) ==
  {e \in dirty :
     \A S \in SUBSET dirty : d \in S /\ LinkClosed(S, dirty, links) => e \in S}

\* Variant with a bug: incomplete days are dropped from their component.
WithoutIncompleteDays(dirty, incomplete, links) ==
  {Component(d, dirty, links) \ incomplete : d \in dirty} \ {{}}

(* The components no incomplete day holds back. *)
CompleteComponents(dirty, incomplete, links) ==
  {c \in {Component(d, dirty, links) : d \in dirty} : c \cap incomplete = {}}

Latest(c) == CHOOSE d \in c : \A e \in c : e <= d

IsNewest(c, components) ==
  c \in components /\ \A other \in components : Latest(other) <= Latest(c)

(* The days already selected when the loop reaches component c. *)
SelectedBefore(c, selected) ==
  UNION {s \in selected : Latest(s) > Latest(c)}

(* The newest component is taken whatever its size, and alone when it is   *)
(* oversized; otherwise each component, newest first, is taken when it     *)
(* still fits.                                                             *)
IsSelection(selected, components) ==
  \/ \E c \in components :
       /\ IsNewest(c, components)
       /\ Cardinality(c) > MaxSnapshotDays
       /\ selected = {c}
  \/ /\ \A c \in components :
          IsNewest(c, components) => Cardinality(c) <= MaxSnapshotDays
     /\ \A c \in components :
          c \in selected
            <=> Cardinality(SelectedBefore(c, selected)) + Cardinality(c)
                  <= MaxSnapshotDays
=============================================================================
