---------------------- MODULE SelectSnapshotDays_proofs ----------------------
(***************************************************************************)
(* The dirty-day graph, proved for every finite set of days, every graph   *)
(* on them and every limit: there is exactly one selection, and            *)
(* the search and the greedy loop compute it.                              *)
(*                                                                         *)
(* The search is sound because what it has left behind is link-closed:     *)
(* nothing it still has to visit is adjacent to it.  The loop is sound     *)
(* because what it has passed is newer than what is left, so that a        *)
(* component is judged by the days taken so far and by no later one.       *)
(***************************************************************************)
EXTENDS SelectSnapshotDays, FiniteSetTheorems, WellFoundedInduction,
        NaturalsInduction, TLAPS

USE MaxSnapshotDaysAssumption, DaysAssumption
    DEF MaxSnapshotDaysAssumption, DaysAssumption

-----------------------------------------------------------------------------
(* Finite sets *)

LEMMA SmallestExists ==
  ASSUME NEW S \in SUBSET Nat, S # {}
  PROVE  \E x \in S : \A y \in S : x <= y
<1> DEFINE Less == {ss \in Nat \X Nat : ss[1] < ss[2]}
<1>1. IsWellFoundedOn(Less, Nat)
  BY NatLessThanWellFounded DEF OpToRel
<1>2. PICK x \in S : \A y \in S : <<y, x>> \notin Less
  <2> HIDE DEF Less
  <2> QED BY <1>1, WFMin
<1>3. ASSUME NEW y \in S  PROVE x <= y
  <2>1. x \in Nat /\ y \in Nat /\ ~(y < x)
    BY <1>2
  <2> QED BY <2>1
<1> QED BY <1>3

IsStrictOrder(R, S) ==
  /\ \A a \in S : <<a, a>> \notin R
  /\ \A a, b, c \in S : <<a, b>> \in R /\ <<b, c>> \in R => <<a, c>> \in R

(* A finite set has an element that no other precedes. *)
LEMMA MinimalExists ==
  ASSUME NEW S, IsFiniteSet(S), S # {}, NEW R, IsStrictOrder(R, S)
  PROVE  \E m \in S : \A a \in S : <<a, m>> \notin R
<1> DEFINE Below(d) == {e \in S : <<e, d>> \in R}
           Counts == {Cardinality(Below(d)) : d \in S}
<1>1. \A d \in S : IsFiniteSet(Below(d)) /\ Cardinality(Below(d)) \in Nat
  BY FS_Subset, FS_CardinalityType
<1>2. Counts \in SUBSET Nat /\ Counts # {}
  BY <1>1
<1>3. PICK n \in Counts : \A k \in Counts : n <= k
  <2> HIDE DEF Counts
  <2> QED BY <1>2, SmallestExists
<1>4. PICK m \in S : n = Cardinality(Below(m))
  BY <1>3
<1>5. ASSUME NEW a \in S, <<a, m>> \in R  PROVE FALSE
  <2>1. Below(a) \subseteq Below(m) /\ a \in Below(m) /\ a \notin Below(a)
    BY <1>4, <1>5 DEF IsStrictOrder
  <2>2. Cardinality(Below(a)) < Cardinality(Below(m))
    <3>1. IsFiniteSet(Below(m)) /\ Below(a) # Below(m)
      BY <1>1, <2>1
    <3> HIDE DEF Below
    <3>2. /\ Cardinality(Below(a)) <= Cardinality(Below(m))
          /\ Cardinality(Below(a)) # Cardinality(Below(m))
      BY <2>1, <3>1, FS_Subset
    <3> QED BY <1>1, <3>2
  <2>3. n <= Cardinality(Below(a))
    BY <1>3
  <2>4. Cardinality(Below(a)) \in Nat /\ Cardinality(Below(m)) \in Nat
    BY <1>1
  <2>5. n = Cardinality(Below(m))
    BY <1>4
  <2> HIDE DEF Below, Counts
  <2> QED BY <2>2, <2>3, <2>4, <2>5
<1> QED BY <1>5

(* A finite set of days has a latest one. *)
LEMMA LatestExists ==
  ASSUME NEW S \in SUBSET Int, IsFiniteSet(S), S # {}
  PROVE  \E m \in S : \A e \in S : e <= m
<1> DEFINE R == {p \in S \X S : p[1] > p[2]}
<1>1. IsStrictOrder(R, S)
  BY DEF IsStrictOrder
<1>2. PICK m \in S : \A e \in S : <<e, m>> \notin R
  <2> HIDE DEF R
  <2> QED BY <1>1, MinimalExists
<1>3. ASSUME NEW e \in S  PROVE e <= m
  <2>1. ~(e > m) /\ e \in Int /\ m \in Int
    BY <1>2, <1>3
  <2> QED BY <2>1
<1> QED BY <1>3

-----------------------------------------------------------------------------
(* The graph *)

LEMMA AdjacentSymmetric ==
  ASSUME NEW a, NEW b, NEW L
  PROVE  Adjacent(a, b, L) <=> Adjacent(b, a, L)
BY DEF Adjacent

LEMMA ComponentClosed ==
  ASSUME NEW D, NEW L, NEW d \in D
  PROVE  /\ d \in Component(d, D, L)
         /\ Component(d, D, L) \subseteq D
         /\ LinkClosed(Component(d, D, L), D, L)
BY DEF Component, LinkClosed

LEMMA ComponentLeast ==
  ASSUME NEW D, NEW L, NEW d, NEW S \in SUBSET D, d \in S, LinkClosed(S, D, L)
  PROVE  Component(d, D, L) \subseteq S
BY DEF Component

(* A search from any day of a component visits the same component. *)
LEMMA ComponentsEqual ==
  ASSUME NEW D, NEW L, NEW d \in D, NEW e \in Component(d, D, L)
  PROVE  e \in D /\ Component(e, D, L) = Component(d, D, L)
<1>1. e \in D
  BY ComponentClosed
<1>2. Component(e, D, L) \subseteq Component(d, D, L)
  BY ComponentClosed, ComponentLeast
<1>3. d \in Component(e, D, L)
  <2> DEFINE Rest == D \ Component(e, D, L)
  <2>1. SUFFICES ASSUME d \notin Component(e, D, L)  PROVE FALSE
    OBVIOUS
  <2>2. LinkClosed(Rest, D, L)
    BY <1>1, ComponentClosed, AdjacentSymmetric DEF LinkClosed
  <2>3. Rest \in SUBSET D /\ d \in Rest
    BY <2>1
  <2>4. Component(d, D, L) \subseteq Rest
    <3> HIDE DEF Rest
    <3> QED BY <2>2, <2>3, ComponentLeast
  <2> QED BY <1>1, <2>4, ComponentClosed
<1>4. Component(d, D, L) \subseteq Component(e, D, L)
  BY <1>1, <1>3, ComponentClosed, ComponentLeast
<1> QED BY <1>1, <1>2, <1>4

LEMMA AdjacentComponents ==
  ASSUME NEW D, NEW L, NEW a \in D, NEW b \in D, Adjacent(a, b, L)
  PROVE  Component(a, D, L) = Component(b, D, L)
<1>1. b \in Component(a, D, L)
  BY ComponentClosed DEF LinkClosed
<1> QED BY <1>1, ComponentsEqual

(* What the greedy loop needs to know about the components: disjoint finite *)
(* sets of days, of which there are finitely many.                          *)
Groups(CC) ==
  /\ IsFiniteSet(CC)
  /\ \A c \in CC : c \subseteq Int /\ IsFiniteSet(c) /\ c # {}
  /\ \A c, o \in CC : c # o => c \cap o = {}

LEMMA ComponentsAreGroups ==
  ASSUME NEW D \in SUBSET Int, IsFiniteSet(D), NEW I, NEW L
  PROVE  Groups(CompleteComponents(D, I, L))
<1> DEFINE CC == CompleteComponents(D, I, L)
<1>1. \A c \in CC : \E d \in D : c = Component(d, D, L)
  BY DEF CompleteComponents
<1>2. CC \subseteq SUBSET D
  BY <1>1, ComponentClosed
<1>3. IsFiniteSet(CC)
  BY <1>2, FS_SUBSET, FS_Subset
<1>4. ASSUME NEW c \in CC  PROVE c \subseteq Int /\ IsFiniteSet(c) /\ c # {}
  <2>1. c \subseteq D /\ c # {}
    BY <1>1, <1>4, ComponentClosed
  <2> QED BY <2>1, FS_Subset
<1>5. ASSUME NEW c \in CC, NEW o \in CC, NEW e, e \in c, e \in o
      PROVE  c = o
  BY <1>1, <1>5, ComponentsEqual
<1> QED BY <1>3, <1>4, <1>5 DEF Groups

-----------------------------------------------------------------------------
(* The selection *)

LEMMA LatestOfGroup ==
  ASSUME NEW CC, Groups(CC), NEW c \in CC
  PROVE  /\ Latest(c) \in c /\ Latest(c) \in Int
         /\ \A e \in c : e <= Latest(c)
<1>1. c \in SUBSET Int /\ IsFiniteSet(c) /\ c # {}
  BY DEF Groups
<1>2. \E m \in c : \A e \in c : e <= m
  BY <1>1, LatestExists
<1> QED BY <1>1, <1>2 DEF Latest

LEMMA LatestTellsApart ==
  ASSUME NEW CC, Groups(CC), NEW c \in CC, NEW o \in CC, Latest(c) = Latest(o)
  PROVE  c = o
<1>1. Latest(c) \in c \cap o
  BY LatestOfGroup
<1> QED BY <1>1 DEF Groups

(* Of some components there is a newest and an oldest one. *)
LEMMA NewestExists ==
  ASSUME NEW CC, Groups(CC), NEW S \in SUBSET CC, S # {}
  PROVE  /\ \E m \in S : \A o \in S : Latest(o) <= Latest(m)
         /\ \E m \in S : \A o \in S : Latest(m) <= Latest(o)
<1> DEFINE Later == {p \in S \X S : Latest(p[1]) > Latest(p[2])}
           Earlier == {p \in S \X S : Latest(p[1]) < Latest(p[2])}
<1>1. IsFiniteSet(S)
  BY FS_Subset DEF Groups
<1>2. \A o \in S : Latest(o) \in Int
  BY LatestOfGroup
<1>3. IsStrictOrder(Later, S) /\ IsStrictOrder(Earlier, S)
  BY <1>2 DEF IsStrictOrder
<1>4. PICK m \in S : \A o \in S : <<o, m>> \notin Later
  <2> HIDE DEF Later
  <2> QED BY <1>1, <1>3, MinimalExists
<1>5. PICK k \in S : \A o \in S : <<o, k>> \notin Earlier
  <2> HIDE DEF Earlier
  <2> QED BY <1>1, <1>3, MinimalExists
<1>6. ASSUME NEW o \in S  PROVE Latest(o) <= Latest(m)
  <2>1. ~(Latest(o) > Latest(m))
    BY <1>4
  <2> QED BY <1>2, <2>1
<1>7. ASSUME NEW o \in S  PROVE Latest(k) <= Latest(o)
  <2>1. ~(Latest(o) < Latest(k))
    BY <1>5
  <2> QED BY <1>2, <2>1
<1> QED BY <1>6, <1>7

LEMMA UnionOfGroups ==
  ASSUME NEW CC, Groups(CC), NEW S \in SUBSET CC
  PROVE  /\ IsFiniteSet(UNION S) /\ Cardinality(UNION S) \in Nat
         /\ \A c \in CC : IsFiniteSet(c) /\ Cardinality(c) \in Nat
<1>1. IsFiniteSet(S) /\ \A c \in CC : IsFiniteSet(c)
  BY FS_Subset DEF Groups
<1>2. IsFiniteSet(UNION S)
  BY <1>1, FS_UNION
<1> QED BY <1>1, <1>2, FS_CardinalityType

(* The components passed are newer than those left. *)
Passed(done, CC) ==
  /\ done \subseteq CC
  /\ \A c \in done, o \in CC \ done : Latest(o) < Latest(c)

(* The components taken of those passed are the ones that fitted. *)
Chosen(taken, done) ==
  /\ taken \subseteq done
  /\ \A c \in done :
       c \in taken
         <=> Cardinality(SelectedBefore(c, taken)) + Cardinality(c) <= MaxSnapshotDays

TakeIfFits(c, taken) ==
  IF Cardinality(UNION taken) + Cardinality(c) <= MaxSnapshotDays
    THEN taken \cup {c} ELSE taken

(* One turn of the loop: the newest component left is taken when it fits. *)
LEMMA TakeOne ==
  ASSUME NEW CC, Groups(CC), NEW done, NEW taken,
         Passed(done, CC), Chosen(taken, done),
         NEW c \in CC \ done, \A o \in CC \ done : Latest(o) <= Latest(c)
  PROVE  /\ Passed(done \cup {c}, CC)
         /\ Chosen(TakeIfFits(c, taken), done \cup {c})
<1> DEFINE more == TakeIfFits(c, taken)
<1>1. \A o \in CC : Latest(o) \in Int
  BY LatestOfGroup
<1>2. \A o \in CC \ done : o # c => Latest(o) < Latest(c)
  BY <1>1, LatestTellsApart
<1>3. \A d \in done : Latest(d) > Latest(c)
  BY <1>1 DEF Passed
<1>4. Passed(done \cup {c}, CC)
  BY <1>2 DEF Passed
<1>5. taken \subseteq done /\ done \subseteq CC
  BY DEF Passed, Chosen
<1>6. SelectedBefore(c, more) = UNION taken
  <2>1. {s \in more : Latest(s) > Latest(c)} = taken
    BY <1>1, <1>3, <1>5 DEF TakeIfFits
  <2> QED BY <2>1 DEF SelectedBefore
<1>7. ASSUME NEW d \in done
      PROVE  SelectedBefore(d, more) = SelectedBefore(d, taken)
  <2>1. {s \in more : Latest(s) > Latest(d)} = {s \in taken : Latest(s) > Latest(d)}
    <3>1. ~(Latest(c) > Latest(d))
      BY <1>1, <1>3, <1>5
    <3> QED BY <3>1 DEF TakeIfFits
  <2> QED BY <2>1 DEF SelectedBefore
<1>8. ASSUME NEW d \in done  PROVE d \in more <=> d \in taken
  BY DEF TakeIfFits
<1>9. c \in more <=> Cardinality(UNION taken) + Cardinality(c) <= MaxSnapshotDays
  BY <1>5 DEF TakeIfFits
<1>10. more \subseteq done \cup {c}
  BY <1>5 DEF TakeIfFits
<1>11. Chosen(more, done \cup {c})
  <2> HIDE DEF more
  <2> QED BY <1>6, <1>7, <1>8, <1>9, <1>10 DEF Chosen
<1> QED BY <1>4, <1>11

(* A newest component that is not oversized is taken. *)
LEMMA NewestFits ==
  ASSUME NEW CC, Groups(CC), NEW done, NEW taken,
         Passed(done, CC), Chosen(taken, done),
         NEW c \in CC, IsNewest(c, CC), Cardinality(c) <= MaxSnapshotDays, done # {}
  PROVE  c \in taken
<1>1. \A o \in CC : Latest(o) \in Int
  BY LatestOfGroup
<1>2. c \in done
  <2>1. PICK d \in done : TRUE
    OBVIOUS
  <2> QED BY <1>1, <2>1 DEF Passed, IsNewest
<1>3. SelectedBefore(c, taken) = {}
  BY <1>1 DEF SelectedBefore, IsNewest, Passed, Chosen
<1>4. Cardinality({}) = 0 /\ Cardinality(c) \in Nat
  BY FS_EmptySet, FS_CardinalityType DEF Groups
<1> QED BY <1>2, <1>3, <1>4 DEF Chosen

(* Two selections cannot differ: the newest component they differ in was   *)
(* judged by the same components.                                          *)
LEMMA ChosenUnique ==
  ASSUME NEW CC, Groups(CC), NEW s, NEW t, Chosen(s, CC), Chosen(t, CC)
  PROVE  s = t
<1> DEFINE Differ == {c \in CC : ~(c \in s <=> c \in t)}
<1>1. SUFFICES ASSUME Differ # {}  PROVE FALSE
  BY DEF Chosen
<1>2. PICK c \in Differ : \A o \in Differ : Latest(o) <= Latest(c)
  <2>1. Differ \in SUBSET CC
    OBVIOUS
  <2> HIDE DEF Differ
  <2> QED BY <1>1, <2>1, NewestExists
<1>3. \A o \in CC : Latest(o) \in Int
  BY LatestOfGroup
<1>4. \A o \in CC : Latest(o) > Latest(c) => (o \in s <=> o \in t)
  BY <1>2, <1>3
<1>5. {o \in s : Latest(o) > Latest(c)} = {o \in t : Latest(o) > Latest(c)}
  BY <1>4 DEF Chosen
<1>6. SelectedBefore(c, s) = SelectedBefore(c, t)
  BY <1>5 DEF SelectedBefore
<1>7. c \in CC /\ ~(c \in s <=> c \in t)
  BY <1>2
<1> QED BY <1>6, <1>7 DEF Chosen

Oversized(c, CC) == IsNewest(c, CC) /\ Cardinality(c) > MaxSnapshotDays

LEMMA SelectionForms ==
  ASSUME NEW CC, Groups(CC), NEW s \in SUBSET CC
  PROVE  IsSelection(s, CC)
           <=> \/ \E c \in CC : Oversized(c, CC) /\ s = {c}
               \/ (\A c \in CC : ~Oversized(c, CC)) /\ Chosen(s, CC)
<1>1. \A c \in CC : Cardinality(c) \in Nat
  BY UnionOfGroups
<1>2. \A c \in CC : Oversized(c, CC) <=> IsNewest(c, CC) /\ ~(Cardinality(c) <= MaxSnapshotDays)
  BY <1>1 DEF Oversized
<1>3. Chosen(s, CC) <=> \A c \in CC :
          c \in s <=> Cardinality(SelectedBefore(c, s)) + Cardinality(c) <= MaxSnapshotDays
  BY DEF Chosen
<1>4. (\A c \in CC : ~Oversized(c, CC))
        <=> \A c \in CC : IsNewest(c, CC) => Cardinality(c) <= MaxSnapshotDays
  BY <1>2
<1>5. (\E c \in CC : Oversized(c, CC) /\ s = {c})
        <=> \E c \in CC : IsNewest(c, CC) /\ Cardinality(c) > MaxSnapshotDays /\ s = {c}
  BY DEF Oversized
<1> QED BY <1>3, <1>4, <1>5 DEF IsSelection

LEMMA NewestUnique ==
  ASSUME NEW CC, Groups(CC), NEW c, NEW o, IsNewest(c, CC), IsNewest(o, CC)
  PROVE  c = o
<1>1. c \in CC /\ o \in CC /\ Latest(c) <= Latest(o) /\ Latest(o) <= Latest(c)
  BY DEF IsNewest
<1>2. Latest(c) \in Int /\ Latest(o) \in Int
  BY <1>1, LatestOfGroup
<1>3. Latest(c) = Latest(o)
  BY <1>1, <1>2
<1> QED BY <1>1, <1>3, LatestTellsApart

LEMMA SelectionUnique ==
  ASSUME NEW CC, Groups(CC), NEW s \in SUBSET CC, NEW t \in SUBSET CC,
         IsSelection(s, CC), IsSelection(t, CC)
  PROVE  s = t
<1>1. CASE \E c \in CC : Oversized(c, CC)
  <2>1. PICK c \in CC : Oversized(c, CC) /\ s = {c}
    BY <1>1, SelectionForms
  <2>2. PICK o \in CC : Oversized(o, CC) /\ t = {o}
    BY <1>1, SelectionForms
  <2> QED BY <2>1, <2>2, NewestUnique DEF Oversized
<1>2. CASE \A c \in CC : ~Oversized(c, CC)
  <2>1. Chosen(s, CC) /\ Chosen(t, CC)
    BY <1>2, SelectionForms
  <2> QED BY <2>1, ChosenUnique
<1> QED BY <1>1, <1>2

(* The greedy loop always gets to the end. *)
LEMMA ChosenExists ==
  ASSUME NEW CC, Groups(CC)
  PROVE  \E t \in SUBSET CC : Chosen(t, CC)
<1> DEFINE Reached == {done \in SUBSET CC :
                        Passed(done, CC) /\ \E t \in SUBSET CC : Chosen(t, done)}
           Further == {p \in Reached \X Reached : p[2] \subseteq p[1] /\ p[1] # p[2]}
<1>1. IsFiniteSet(Reached)
  BY FS_SUBSET, FS_Subset DEF Groups
<1>2. Reached # {}
  <2>1. Passed({}, CC) /\ Chosen({}, {})
    BY DEF Passed, Chosen
  <2> QED BY <2>1
<1>3. IsStrictOrder(Further, Reached)
  <2> HIDE DEF Reached
  <2> QED BY DEF IsStrictOrder
<1>4. PICK done \in Reached : \A more \in Reached : <<more, done>> \notin Further
  <2> HIDE DEF Reached, Further
  <2> QED BY <1>1, <1>2, <1>3, MinimalExists
<1>5. PICK t \in SUBSET CC : Chosen(t, done)
  BY <1>4
<1>6. Passed(done, CC)
  BY <1>4
<1>7. ASSUME done # CC  PROVE FALSE
  <2>1. CC \ done # {} /\ CC \ done \in SUBSET CC
    BY <1>6, <1>7 DEF Passed
  <2>2. PICK c \in CC \ done : \A o \in CC \ done : Latest(o) <= Latest(c)
    BY <2>1, NewestExists
  <2>3. /\ Passed(done \cup {c}, CC)
        /\ Chosen(TakeIfFits(c, t), done \cup {c})
    BY <1>5, <1>6, <2>2, TakeOne
  <2>4. TakeIfFits(c, t) \in SUBSET CC
    BY DEF TakeIfFits
  <2>5. done \cup {c} \in Reached
    BY <2>3, <2>4
  <2>6. <<done \cup {c}, done>> \in Further
    <3> HIDE DEF Reached
    <3> QED BY <1>4, <2>2, <2>5
  <2> QED BY <1>4, <2>5, <2>6
<1> QED BY <1>5, <1>7

LEMMA SelectionExists ==
  ASSUME NEW CC, Groups(CC)
  PROVE  \E s \in SUBSET CC : IsSelection(s, CC)
<1>1. CASE \E c \in CC : Oversized(c, CC)
  <2>1. PICK c \in CC : Oversized(c, CC)
    BY <1>1
  <2>2. {c} \in SUBSET CC /\ IsSelection({c}, CC)
    BY <2>1, SelectionForms
  <2> QED BY <2>2
<1>2. CASE \A c \in CC : ~Oversized(c, CC)
  <2>1. PICK t \in SUBSET CC : Chosen(t, CC)
    BY ChosenExists
  <2> QED BY <1>2, <2>1, SelectionForms
<1> QED BY <1>1, <1>2

(* Whatever days are dirty, incomplete and linked, exactly one selection   *)
(* of the complete components exists: beginSnapshot, modelled as capturing *)
(* a selection, always has one and never has a choice.                     *)
THEOREM OneSelection ==
  ASSUME NEW D \in SUBSET Int, IsFiniteSet(D), NEW I, NEW L
  PROVE  \E s \in SUBSET CompleteComponents(D, I, L) :
           /\ IsSelection(s, CompleteComponents(D, I, L))
           /\ \A t \in SUBSET CompleteComponents(D, I, L) :
                IsSelection(t, CompleteComponents(D, I, L)) => t = s
<1>1. PICK CC : CC = CompleteComponents(D, I, L)
  OBVIOUS
<1>2. Groups(CC)
  BY <1>1, ComponentsAreGroups
<1>3. \E s \in SUBSET CC : IsSelection(s, CC)
  BY <1>2, SelectionExists
<1>4. \A s, t \in SUBSET CC : IsSelection(s, CC) /\ IsSelection(t, CC) => t = s
  BY <1>2, SelectionUnique
<1>5. \E s \in SUBSET CC : IsSelection(s, CC) /\ \A t \in SUBSET CC : IsSelection(t, CC) => t = s
  BY <1>3, <1>4
<1> QED BY <1>1, <1>5

-----------------------------------------------------------------------------
(* The inductive invariant *)

(* The components the loop chooses from. *)
Complete == CompleteComponents(dirty, incomplete, links)
ComponentOf(day) == Component(day, dirty, links)

Tables ==
  /\ dirty \in SUBSET Days /\ incomplete \in SUBSET dirty
  /\ phase \in {"search", "select", "done"}

(* What the search has reached and not yet put away as a component. *)
Current == component \cup pending
Finished == visited \ Current

(* The search leaves nothing behind: the finished days are link-closed,    *)
(* the days popped have all their neighbours in the current component,     *)
(* and the current days are of one component.                              *)
SearchSound ==
  /\ Current \subseteq visited /\ visited \subseteq dirty
  /\ LinkClosed(Finished, dirty, links)
  /\ \A day \in component : Neighbours(day) \subseteq Current
  /\ \A a, b \in Current : ComponentOf(a) = ComponentOf(b)
  /\ components = {c \in {ComponentOf(day) : day \in Finished} : IsComplete(c)}
  /\ selected = {}

(* The loop has passed the newer components, took those that fitted, and   *)
(* met no newest component that is oversized.                              *)
LoopSound ==
  /\ components \subseteq Complete
  /\ Passed(Complete \ components, Complete)
  /\ \A c \in Complete \ components : ~Oversized(c, Complete)
  /\ \E taken \in SUBSET Complete :
       Chosen(taken, Complete \ components) /\ selected = UNION taken

ResultSound ==
  \E s \in SUBSET Complete : IsSelection(s, Complete) /\ selected = UNION s

IInv ==
  /\ Tables
  /\ phase = "search" => SearchSound
  /\ phase = "select" => LoopSound
  /\ phase = "done" => ResultSound

LEMMA InitSafe == Init => IInv
<1> SUFFICES ASSUME Init  PROVE IInv
  OBVIOUS
<1>1. SearchSound
  BY DEF Init, SearchSound, Current, Finished, LinkClosed, IsComplete
<1> QED BY <1>1 DEF Init, IInv, Tables

LEMMA CompleteAreGroups ==
  ASSUME Tables
  PROVE  Groups(Complete)
<1>1. dirty \in SUBSET Int /\ IsFiniteSet(dirty)
  BY FS_Subset DEF Tables
<1> QED BY <1>1, ComponentsAreGroups DEF Complete

LEMMA StartSafe ==
  ASSUME IInv, StartComponent
  PROVE  IInv'
<1>1. SearchSound /\ Tables
  BY DEF IInv, StartComponent
<1>2. PICK day \in dirty \ visited : pending' = {day} /\ visited' = visited \cup {day}
  BY DEF StartComponent
<1>3. /\ pending = {} /\ component = {} /\ phase' = "search"
      /\ UNCHANGED <<dirty, incomplete, links, component, components, selected>>
  BY DEF StartComponent, tables
<1>4. Current' = {day} /\ Finished' = Finished
  BY <1>2, <1>3 DEF Current, Finished
<1>5. SearchSound'
  BY <1>1, <1>2, <1>3, <1>4
     DEF SearchSound, LinkClosed, ComponentOf, IsComplete, Neighbours
<1>6. Tables'
  BY <1>1, <1>3 DEF Tables
<1> QED BY <1>3, <1>5, <1>6 DEF IInv

LEMMA VisitSafe ==
  ASSUME IInv, Visit
  PROVE  IInv'
<1>1. SearchSound /\ Tables
  BY DEF IInv, Visit
<1>2. PICK day \in pending :
        /\ component' = component \cup {day}
        /\ pending' = (pending \ {day}) \cup Unvisited(day)
        /\ visited' = visited \cup Neighbours(day)
  BY DEF Visit
<1>3. phase' = "search" /\ UNCHANGED <<dirty, incomplete, links, components, selected>>
  BY DEF Visit, tables
<1>4. day \in dirty /\ day \in Current /\ Neighbours(day) \subseteq dirty
  BY <1>1 DEF SearchSound, Current, Neighbours
<1>5. Neighbours(day) \subseteq Current \cup Unvisited(day)
  <2> SUFFICES ASSUME NEW e \in Neighbours(day), e \in visited, e \notin Current
               PROVE  FALSE
    BY DEF Unvisited
  <2>1. e \in Finished /\ Adjacent(e, day, links)
    BY AdjacentSymmetric DEF Finished, Neighbours
  <2>2. day \in Finished
    BY <1>1, <1>4, <2>1 DEF SearchSound, LinkClosed
  <2> QED BY <1>4, <2>2 DEF Finished
<1>6. Current' = Current \cup Unvisited(day)
  BY <1>2 DEF Current
<1>7. Finished' = Finished
  BY <1>2, <1>5, <1>6 DEF Finished, Unvisited
<1>8. \A a \in Current' : ComponentOf(a) = ComponentOf(day)
  <2>1. \A a \in Unvisited(day) : ComponentOf(a) = ComponentOf(day)
    BY <1>4, AdjacentComponents DEF Unvisited, Neighbours, ComponentOf
  <2> QED BY <1>1, <1>4, <1>6, <2>1 DEF SearchSound
<1>9. \A a, b \in Current' : ComponentOf(a)' = ComponentOf(b)'
  BY <1>3, <1>8 DEF ComponentOf
<1>10. \A d \in component' : Neighbours(d)' \subseteq Current'
  BY <1>1, <1>2, <1>3, <1>5, <1>6 DEF SearchSound, Neighbours
<1>11. LinkClosed(Finished, dirty, links)'
  BY <1>1, <1>3, <1>7 DEF SearchSound, LinkClosed
<1>12. Current' \subseteq visited' /\ visited' \subseteq dirty'
  BY <1>1, <1>2, <1>3, <1>4, <1>6 DEF SearchSound, Unvisited
<1>13. (components = {c \in {ComponentOf(d) : d \in Finished} : IsComplete(c)})'
  BY <1>1, <1>3, <1>7 DEF SearchSound, ComponentOf, IsComplete
<1>14. SearchSound'
  BY <1>1, <1>3, <1>9, <1>10, <1>11, <1>12, <1>13 DEF SearchSound
<1>15. Tables'
  BY <1>1, <1>3 DEF Tables
<1> QED BY <1>3, <1>14, <1>15 DEF IInv

LEMMA EndComponentSafe ==
  ASSUME IInv, EndComponent
  PROVE  IInv'
<1>1. SearchSound /\ Tables
  BY DEF IInv, EndComponent
<1>2. /\ pending = {} /\ component # {}
      /\ components' = IF IsComplete(component)
                         THEN components \cup {component} ELSE components
      /\ component' = {} /\ pending' = {} /\ phase' = "search"
      /\ UNCHANGED <<dirty, incomplete, links, visited, selected>>
  BY DEF EndComponent, tables
<1>3. Current = component /\ Current' = {} /\ Finished' = visited
  BY <1>2 DEF Current, Finished
<1>4. component \in SUBSET dirty /\ LinkClosed(component, dirty, links)
  BY <1>1, <1>3 DEF SearchSound, LinkClosed, Neighbours
<1>5. ASSUME NEW a \in component  PROVE ComponentOf(a) = component
  <2>1. ComponentOf(a) \subseteq component
    BY <1>4, ComponentLeast DEF ComponentOf
  <2>2. ASSUME NEW b \in component  PROVE b \in ComponentOf(a)
    <3>1. b \in ComponentOf(b)
      BY <1>4, ComponentClosed DEF ComponentOf
    <3> QED BY <1>1, <1>3, <3>1 DEF SearchSound
  <2> QED BY <2>1, <2>2
<1>6. visited = Finished \cup component
  BY <1>1, <1>3 DEF Finished, SearchSound
<1>7. LinkClosed(Finished, dirty, links)'
  BY <1>1, <1>2, <1>3, <1>4, <1>6 DEF SearchSound, LinkClosed
<1>8. (components = {c \in {ComponentOf(d) : d \in Finished} : IsComplete(c)})'
  <2>1. {ComponentOf(d) : d \in visited}
          = {ComponentOf(d) : d \in Finished} \cup {component}
    BY <1>2, <1>5, <1>6
  <2>2. {c \in {ComponentOf(d) : d \in visited} : IsComplete(c)} = components'
    BY <1>1, <1>2, <2>1 DEF SearchSound
  <2> QED BY <1>2, <1>3, <2>2 DEF ComponentOf, IsComplete
<1>9. SearchSound'
  BY <1>1, <1>2, <1>3, <1>7, <1>8 DEF SearchSound
<1>10. Tables'
  BY <1>1, <1>2 DEF Tables
<1> QED BY <1>2, <1>9, <1>10 DEF IInv

LEMMA EndSearchSafe ==
  ASSUME IInv, EndSearch
  PROVE  IInv'
<1>1. SearchSound /\ Tables
  BY DEF IInv, EndSearch
<1>2. /\ pending = {} /\ component = {} /\ visited = dirty /\ phase' = "select"
      /\ UNCHANGED <<dirty, incomplete, links, components, selected>>
  BY DEF EndSearch, tables
<1>3. Finished = dirty
  BY <1>2 DEF Finished, Current
<1>4. components = Complete /\ selected = {}
  BY <1>1, <1>3 DEF SearchSound, Complete, CompleteComponents, ComponentOf, IsComplete
<1>5. Complete' = Complete
  BY <1>2 DEF Complete
<1>6. Passed({}, Complete) /\ Chosen({}, {})
  BY DEF Passed, Chosen
<1>7. LoopSound'
  BY <1>2, <1>4, <1>5, <1>6 DEF LoopSound
<1>8. Tables'
  BY <1>1, <1>2 DEF Tables
<1> QED BY <1>2, <1>7, <1>8 DEF IInv

LEMMA SelectNewestSafe ==
  ASSUME IInv, SelectNewest
  PROVE  IInv'
<1> DEFINE done == Complete \ components
<1>1. LoopSound /\ Tables /\ Groups(Complete)
  BY CompleteAreGroups DEF IInv, SelectNewest
<1>2. PICK c \in components :
        /\ IsNewest(c, components)
        /\ \/ TakenAlone(c) /\ selected' = c /\ phase' = "done"
           \/ /\ ~TakenAlone(c)
              /\ selected' = IF Fits(c) THEN selected \cup c ELSE selected
              /\ phase' = phase
        /\ components' = components \ {c}
  BY DEF SelectNewest
<1>3. phase = "select" /\ UNCHANGED <<dirty, incomplete, links>>
  BY DEF SelectNewest, tables
<1>4. Complete' = Complete /\ Tables'
  BY <1>1, <1>2, <1>3 DEF Complete, Tables
<1>5. PICK taken \in SUBSET Complete :
        Chosen(taken, done) /\ selected = UNION taken
  BY <1>1 DEF LoopSound
<1>6. /\ c \in Complete \ done /\ Passed(done, Complete)
      /\ \A o \in Complete \ done : Latest(o) <= Latest(c)
  BY <1>1, <1>2 DEF LoopSound, IsNewest
<1>7. IsNewest(c, Complete) <=> done = {}
  <2>1. CASE done = {}
    BY <1>2, <1>6, <2>1 DEF IsNewest
  <2>2. CASE done # {}
    <3>1. PICK d \in done : TRUE
      BY <2>2
    <3>2. d \in Complete /\ Latest(c) < Latest(d)
      BY <1>6, <3>1 DEF Passed
    <3>3. Latest(c) \in Int /\ Latest(d) \in Int
      BY <1>1, <1>6, <3>2, LatestOfGroup
    <3> QED BY <2>2, <3>2, <3>3 DEF IsNewest
  <2> QED BY <2>1, <2>2
<1>8. Cardinality(c) \in Nat /\ Cardinality(selected) \in Nat /\ c # {}
  BY <1>1, <1>5, <1>6, UnionOfGroups DEF Groups
<1>9. done # {} => selected # {}
  <2> SUFFICES ASSUME done # {}  PROVE selected # {}
    OBVIOUS
  <2>1. PICK n \in Complete : \A o \in Complete : Latest(o) <= Latest(n)
    BY <1>1, <1>6, NewestExists
  <2>2. IsNewest(n, Complete)
    BY <2>1 DEF IsNewest
  <2>3. n \in done
    <3>1. PICK d \in done : TRUE
      OBVIOUS
    <3>2. d \in Complete /\ Latest(d) \in Int /\ Latest(n) \in Int
      BY <1>1, <2>1, LatestOfGroup
    <3> QED BY <1>6, <2>1, <3>2 DEF Passed
  <2>4. Cardinality(n) <= MaxSnapshotDays
    <3>1. ~Oversized(n, Complete)
      BY <1>1, <2>3 DEF LoopSound
    <3>2. Cardinality(n) \in Nat
      BY <1>1, UnionOfGroups
    <3> QED BY <2>2, <3>1, <3>2 DEF Oversized
  <2>5. n \in taken /\ n # {}
    <3> HIDE DEF done
    <3> QED BY <1>1, <1>5, <1>6, <2>2, <2>4, NewestFits DEF Groups
  <2> QED BY <1>5, <2>5
<1>10. CASE TakenAlone(c) /\ selected' = c /\ phase' = "done"
  <2>1. Oversized(c, Complete)
    BY <1>7, <1>9, <1>10 DEF TakenAlone, Oversized
  <2>2. {c} \in SUBSET Complete /\ IsSelection({c}, Complete)
    BY <1>1, <1>6, <2>1, SelectionForms
  <2>3. ResultSound'
    BY <1>4, <1>10, <2>2 DEF ResultSound
  <2> QED BY <1>4, <1>10, <2>3 DEF IInv
<1>11. CASE /\ ~TakenAlone(c)
            /\ selected' = IF Fits(c) THEN selected \cup c ELSE selected
            /\ phase' = phase
  <2>1. selected' = UNION TakeIfFits(c, taken)
    BY <1>5, <1>11 DEF TakeIfFits, Fits
  <2>2. Complete' \ components' = done \cup {c}
    BY <1>1, <1>2, <1>4 DEF LoopSound
  <2>3. /\ Passed(done \cup {c}, Complete)
        /\ Chosen(TakeIfFits(c, taken), done \cup {c})
    <3> HIDE DEF done
    <3> QED BY <1>1, <1>5, <1>6, TakeOne
  <2>4. ~Oversized(c, Complete)
    <3>1. CASE done = {}
      <4>1. selected = {}
        BY <1>5, <3>1 DEF Chosen
      <4> QED BY <1>11, <4>1 DEF TakenAlone, Oversized
    <3>2. CASE done # {}
      BY <1>7, <3>2 DEF Oversized
    <3> QED BY <3>1, <3>2
  <2>5. TakeIfFits(c, taken) \in SUBSET Complete
    BY <1>5, <1>6 DEF TakeIfFits
  <2>6. components' \subseteq Complete
    BY <1>1, <1>2 DEF LoopSound
  <2>7. \A o \in done \cup {c} : ~Oversized(o, Complete)
    BY <1>1, <2>4 DEF LoopSound
  <2>8. LoopSound'
    <3>1. \E t \in SUBSET Complete : Chosen(t, done \cup {c}) /\ selected' = UNION t
      BY <2>1, <2>3, <2>5
    <3> HIDE DEF done
    <3> QED BY <1>4, <2>2, <2>3, <2>6, <2>7, <3>1 DEF LoopSound
  <2> QED BY <1>3, <1>4, <1>11, <2>8 DEF IInv
<1> QED BY <1>2, <1>10, <1>11

LEMMA EndSelectSafe ==
  ASSUME IInv, EndSelect
  PROVE  IInv'
<1>1. LoopSound /\ Tables /\ Groups(Complete) /\ components = {}
  BY CompleteAreGroups DEF IInv, EndSelect
<1>2. phase' = "done" /\ UNCHANGED <<dirty, incomplete, links, selected>>
  BY DEF EndSelect, tables
<1>3. Complete' = Complete /\ Tables'
  BY <1>1, <1>2 DEF Complete, Tables
<1>4. PICK taken \in SUBSET Complete : Chosen(taken, Complete) /\ selected = UNION taken
  BY <1>1 DEF LoopSound
<1>5. \A c \in Complete : ~Oversized(c, Complete)
  BY <1>1 DEF LoopSound
<1>6. IsSelection(taken, Complete)
  BY <1>1, <1>4, <1>5, SelectionForms
<1>7. ResultSound'
  BY <1>2, <1>3, <1>4, <1>6 DEF ResultSound
<1> QED BY <1>2, <1>3, <1>7 DEF IInv

LEMMA NextSafe == IInv /\ [Next]_vars => IInv'
<1> SUFFICES ASSUME IInv, [Next]_vars  PROVE IInv'
  OBVIOUS
<1>1. CASE UNCHANGED vars
  <2>1. UNCHANGED <<dirty, incomplete, links, visited, component, pending,
                    components, selected, phase>>
    BY <1>1 DEF vars, tables
  <2>2. Tables' = Tables /\ Complete' = Complete
    BY <2>1 DEF Tables, Complete
  <2>3. SearchSound => SearchSound'
    BY <2>1 DEF SearchSound, Current, Finished, ComponentOf, Neighbours, IsComplete
  <2>4. LoopSound => LoopSound'
    BY <2>1, <2>2 DEF LoopSound
  <2>5. ResultSound => ResultSound'
    BY <2>1, <2>2 DEF ResultSound
  <2> QED BY <2>1, <2>2, <2>3, <2>4, <2>5 DEF IInv
<1> QED BY <1>1, StartSafe, VisitSafe, EndComponentSafe, EndSearchSafe,
           SelectNewestSafe, EndSelectSafe DEF Next

-----------------------------------------------------------------------------
(* The theorems *)

(* The depth-first search and the greedy loop of selectSnapshotDirtyDays   *)
(* return the one selection there is, which is what beginSnapshot is       *)
(* modelled with, whatever order the rows come back in.                    *)
THEOREM SearchComputesTheSelection == Spec => []ResultIsTheSelection
<1>1. ASSUME IInv  PROVE ResultIsTheSelection
  <2> SUFFICES ASSUME phase = "done"
               PROVE  {UNION s : s \in {t \in SUBSET Complete : IsSelection(t, Complete)}}
                        = {selected}
    BY DEF ResultIsTheSelection, Complete
  <2>1. ResultSound /\ Groups(Complete)
    BY <1>1, CompleteAreGroups DEF IInv
  <2>2. PICK s \in SUBSET Complete : IsSelection(s, Complete) /\ selected = UNION s
    BY <2>1 DEF ResultSound
  <2>3. \A t \in SUBSET Complete : IsSelection(t, Complete) => t = s
    BY <2>1, <2>2, SelectionUnique
  <2> QED BY <2>2, <2>3
<1> QED BY <1>1, InitSafe, NextSafe, PTL DEF Spec

(* What a selection leaves behind would not have fitted. *)
LEMMA SelectionLeavesNoRoom ==
  ASSUME NEW GG, Groups(GG), NEW s \in SUBSET GG, IsSelection(s, GG),
         NEW c \in GG, c \notin s
  PROVE  Cardinality(UNION s) + Cardinality(c) > MaxSnapshotDays
<1>1. /\ IsFiniteSet(UNION s) /\ Cardinality(UNION s) \in Nat
      /\ \A o \in GG : Cardinality(o) \in Nat
  BY UnionOfGroups
<1>2. CASE \E o \in GG : Oversized(o, GG) /\ s = {o}
  <2>1. PICK o \in GG : Oversized(o, GG) /\ s = {o}
    BY <1>2
  <2>2. UNION s = o
    BY <2>1
  <2>3. Cardinality(o) > MaxSnapshotDays
    BY <2>1 DEF Oversized
  <2>4. Cardinality(UNION s) > MaxSnapshotDays
    BY <2>2, <2>3, Zenon
  <2> QED BY <1>1, <2>4
<1>3. CASE (\A o \in GG : ~Oversized(o, GG)) /\ Chosen(s, GG)
  <2> DEFINE Before == SelectedBefore(c, s)
  <2>1. ~(Cardinality(Before) + Cardinality(c) <= MaxSnapshotDays)
    BY <1>3 DEF Chosen
  <2>2. Before \subseteq UNION s
    BY DEF SelectedBefore
  <2> HIDE DEF Before
  <2>3. Cardinality(Before) \in Nat /\ Cardinality(Before) <= Cardinality(UNION s)
    BY <1>1, <2>2, FS_Subset, FS_CardinalityType
  <2> QED BY <1>1, <2>1, <2>3
<1> QED BY <1>2, <1>3, SelectionForms

(* A selection takes the newest component, and more days than the limit    *)
(* only with a component that is oversized by itself.                      *)
LEMMA SelectionTakesNewest ==
  ASSUME NEW GG, Groups(GG), NEW s \in SUBSET GG, IsSelection(s, GG)
  PROVE  /\ \A c \in GG : IsNewest(c, GG) => c \in s
         /\ Cardinality(UNION s) > MaxSnapshotDays => UNION s \in GG
<1>1. CASE \E c \in GG : Oversized(c, GG) /\ s = {c}
  <2>1. PICK c \in GG : Oversized(c, GG) /\ s = {c}
    BY <1>1
  <2>2. \A n \in GG : IsNewest(n, GG) => n = c
    BY <2>1, NewestUnique DEF Oversized
  <2>3. UNION s = c
    BY <2>1
  <2> QED BY <2>1, <2>2, <2>3
<1>2. CASE (\A c \in GG : ~Oversized(c, GG)) /\ Chosen(s, GG)
  <2>1. \A c \in GG : Cardinality(c) \in Nat
    BY UnionOfGroups
  <2>2. \A c \in GG : IsNewest(c, GG) => c \in s
    <3> SUFFICES ASSUME NEW c \in GG, IsNewest(c, GG)  PROVE c \in s
      OBVIOUS
    <3>1. Cardinality(c) <= MaxSnapshotDays
      BY <1>2, <2>1 DEF Oversized
    <3>2. Passed(GG, GG)
      BY DEF Passed
    <3> QED BY <1>2, <3>1, <3>2, NewestFits
  <2>3. CASE s = {}
    <3>1. UNION s = {} /\ Cardinality({}) = 0
      BY <2>3, FS_EmptySet
    <3>2. Cardinality(UNION s) = 0
      BY <3>1, Zenon
    <3>3. ~(Cardinality(UNION s) > MaxSnapshotDays)
      BY <3>2
    <3> QED BY <2>2, <3>3
  <2>4. CASE s # {}
    <3>1. PICK m \in s : \A o \in s : Latest(m) <= Latest(o)
      BY <2>4, NewestExists
    <3> DEFINE Before == SelectedBefore(m, s)
    <3>2. Cardinality(Before) + Cardinality(m) <= MaxSnapshotDays
      BY <1>2, <3>1 DEF Chosen
    <3>3. UNION s = Before \cup m
      <4>1. \A o \in s : Latest(o) \in Int /\ (o # m => Latest(o) > Latest(m))
        <5> SUFFICES ASSUME NEW o \in s
                     PROVE  Latest(o) \in Int /\ (o # m => Latest(o) > Latest(m))
          OBVIOUS
        <5>1. Latest(o) \in Int /\ Latest(m) \in Int /\ Latest(m) <= Latest(o)
          BY <3>1, LatestOfGroup
        <5>2. o # m => Latest(o) # Latest(m)
          BY <3>1, LatestTellsApart
        <5> QED BY <5>1, <5>2
      <4> QED BY <3>1, <4>1 DEF SelectedBefore
    <3>4. IsFiniteSet(Before) /\ IsFiniteSet(m)
      <4>1. {o \in s : Latest(o) > Latest(m)} \in SUBSET GG /\ m \in GG
        BY <3>1
      <4> QED BY <4>1, UnionOfGroups DEF SelectedBefore
    <3>5. Cardinality(UNION s) <= MaxSnapshotDays
      <4> HIDE DEF Before
      <4>1. /\ Cardinality(Before \cup m)
                = Cardinality(Before) + Cardinality(m) - Cardinality(Before \cap m)
            /\ IsFiniteSet(Before \cap m)
        BY <3>4, FS_Union, FS_Intersection
      <4>2. /\ Cardinality(Before) \in Nat /\ Cardinality(m) \in Nat
            /\ Cardinality(Before \cap m) \in Nat
        BY <3>4, <4>1, FS_CardinalityType
      <4>3. Cardinality(UNION s) = Cardinality(Before \cup m)
        BY <3>3, Zenon
      <4> QED BY <3>2, <4>1, <4>2, <4>3
    <3>6. ~(Cardinality(UNION s) > MaxSnapshotDays)
      <4>1. Cardinality(UNION s) \in Nat
        BY UnionOfGroups
      <4> QED BY <3>5, <4>1
    <3> QED BY <2>2, <3>6
  <2> QED BY <2>3, <2>4
<1> QED BY <1>1, <1>2, SelectionForms

(* The newest complete component is always captured, the limit is exceeded *)
(* only by a single component, and what is left behind would not have      *)
(* fitted - as is every oversized component older than a complete one.     *)
THEOREM NewestDaysAreTaken == Spec => []NewestIsTaken
<1>1. ASSUME IInv  PROVE NewestIsTaken
  <2> SUFFICES ASSUME phase = "done"
               PROVE  /\ \A c \in Complete : IsNewest(c, Complete) => c \subseteq selected
                      /\ Cardinality(selected) > MaxSnapshotDays => selected \in Complete
                      /\ \A c \in Complete :
                           ~(c \subseteq selected)
                             => Cardinality(selected) + Cardinality(c) > MaxSnapshotDays
    BY DEF NewestIsTaken, Complete
  <2>1. ResultSound /\ Groups(Complete)
    BY <1>1, CompleteAreGroups DEF IInv
  <2>2. PICK s \in SUBSET Complete : IsSelection(s, Complete) /\ selected = UNION s
    BY <2>1 DEF ResultSound
  <2>3. /\ \A c \in Complete : IsNewest(c, Complete) => c \in s
        /\ Cardinality(UNION s) > MaxSnapshotDays => UNION s \in Complete
    BY <2>1, <2>2, SelectionTakesNewest
  <2>4. ASSUME NEW c \in Complete, ~(c \subseteq selected)
        PROVE  Cardinality(selected) + Cardinality(c) > MaxSnapshotDays
    <3>1. c \notin s
      BY <2>2, <2>4
    <3> QED BY <2>1, <2>2, <3>1, SelectionLeavesNoRoom
  <2> QED BY <2>2, <2>3, <2>4
<1> QED BY <1>1, InitSafe, NextSafe, PTL DEF Spec

=============================================================================
