------------------------ MODULE IncrementalUpdateProofs ------------------------
(***************************************************************************)
(* Proofs about IncrementalUpdate, for every set of units and sources and  *)
(* every dependency graph: the counts are exact in the middle of every     *)
(* marking, nothing stale is missed, and nothing is analysed twice.        *)
(*                                                                         *)
(* The core of the argument is Closed: as long as a unit is outdated, PO   *)
(* or being analysed again, whatever depends on it is marked too, unless   *)
(* it was analysed in this update or the marking has yet to reach it.      *)
(***************************************************************************)
EXTENDS IncrementalUpdate, Integers, FiniteSetTheorems, SequenceTheorems, TLAPS

Dependees == Units \cup Sources

\* the units being analysed are not in the maps, and those found outdated are among them
StackInv ==
    /\ \A i, j \in 1 .. Len(stack) : stack[i] = stack[j] => i = j
    /\ \A i \in 1 .. Len(stack) :
          /\ stack[i] \in fresh /\ KindOf[stack[i]] # "type" /\ stack[i] \notin DOMAIN ValueOf
    /\ \A u \in awaited : \E i \in 1 .. Len(stack) : stack[i] = u

PhaseInv ==
    /\ phase = "edit" => stack = <<>> /\ fresh = {} /\ after = NoUnit
    /\ \A w \in Units, d \in Dependees :
          /\ phase = "edit" => <<"outdated", w, d>> \notin visits /\ <<"up_to_date", w, d>> \notin visits
          /\ phase = "analyze" => <<"edited", w, d>> \notin visits /\ <<"po", w, d>> \notin visits

KnownInv ==
    /\ Marked \subseteq known /\ fresh \subseteq known
    /\ \A w \in Units, d \in Dependees :
          <<w, d>> \in deps => w \in known /\ (d \in Units => KindOf[d] # "comptime")

\* a visit follows an edge: to a unit that is marked by now, or with one verdict about a
\* unit that is not in question any more
VisitInv ==
    \A w \in Units, d \in Dependees :
        /\ <<"edited", w, d>> \in visits => w \in known
        /\ <<"po", w, d>> \in visits => d \in Marked /\ <<w, d>> \in deps
        /\ <<"outdated", w, d>> \in visits \/ <<"up_to_date", w, d>> \in visits =>
              d \in Units \ (Marked \cup awaited) /\ <<w, d>> \in deps
        /\ <<"outdated", w, d>> \notin visits \/ <<"up_to_date", w, d>> \notin visits

Closed ==
    \A w, d \in Units :
        <<w, d>> \in deps /\ d \in Marked \cup awaited =>
            w \in Marked \cup fresh \/ <<"po", w, d>> \in visits

Disjoint ==
    /\ outdated \cap potentially_outdated = {}
    /\ \A u \in Units \ Marked : po_dep_count[u] = 0

StaleInv ==
    \A w \in stale :
        \/ w \in outdated
        \/ \E d \in Sources : <<"edited", w, d>> \in visits
        \/ w \in potentially_outdated /\ \E d \in Units : <<"outdated", w, d>> \in visits

IInv == /\ TypeOK /\ StackInv /\ PhaseInv /\ KnownInv /\ VisitInv /\ Closed
        /\ Disjoint /\ CountsExact /\ NotTwice /\ StaleInv

----------------------------------------------------------------------------
(* Counting. *)

LEMMA EmptyCount == Cardinality({}) = 0
  BY FS_EmptySet

LEMMA OneMore ==
  ASSUME NEW S, IsFiniteSet(S), NEW x, x \notin S
  PROVE  Cardinality(S \cup {x}) = Cardinality(S) + 1
  BY FS_AddElement

LEMMA OneLess ==
  ASSUME NEW S, IsFiniteSet(S), NEW x \in S
  PROVE  /\ Cardinality(S \ {x}) = Cardinality(S) - 1
         /\ Cardinality(S) \in Nat /\ Cardinality(S) >= 1
<1>1. IsFiniteSet(S \ {x}) /\ Cardinality(S \ {x}) \in Nat
  BY FS_RemoveElement, FS_CardinalityType
<1>2. Cardinality((S \ {x}) \cup {x}) = Cardinality(S \ {x}) + 1
  BY <1>1, OneMore
<1>3. (S \ {x}) \cup {x} = S
  OBVIOUS
<1>4. QED
  BY <1>1, <1>2, <1>3

\* if two dependees are waited for the count is at least two
LEMMA TwoApart ==
  ASSUME NEW S, IsFiniteSet(S), NEW x \in S, NEW y \in S, x # y
  PROVE  Cardinality(S) >= 2
<1>1. IsFiniteSet(S \ {x}) /\ y \in S \ {x}
  BY FS_RemoveElement
<1>2. Cardinality(S \ {x}) >= 1
  BY <1>1, OneLess
<1>3. QED
  BY <1>2, OneLess

LEMMA WaitsForFinite ==
  ASSUME UnitsAssumption, NEW w
  PROVE  IsFiniteSet(WaitsFor(w)) /\ Cardinality(WaitsFor(w)) \in Nat
<1>1. IsFiniteSet(Units) /\ WaitsFor(w) \subseteq Units
  BY DEF UnitsAssumption, WaitsFor
<1>2. QED
  BY <1>1, FS_Subset, FS_CardinalityType

----------------------------------------------------------------------------
(* The marking of an edit. *)

Frame == UNCHANGED <<deps, stack, awaited, early, after, known, phase, history>>

\* where nothing is analysed nothing is awaited
LEMMA EditPhase ==
  ASSUME TypeOK, StackInv, PhaseInv, phase = "edit"
  PROVE  awaited = {} /\ fresh = {} /\ stack = <<>>
  BY DEF TypeOK, StackInv, PhaseInv

LEMMA VisitType ==
  ASSUME NEW k \in {"edited", "po", "outdated", "up_to_date"}, NEW d \in Dependees, NEW edges
  PROVE  Visit(k, d, edges) \subseteq
            {"edited", "po", "outdated", "up_to_date"} \X Units \X (Units \cup Sources)
<1>1. SUFFICES ASSUME NEW v \in Visit(k, d, edges)
               PROVE  v \in {"edited", "po", "outdated", "up_to_date"} \X Units \X (Units \cup Sources)
  OBVIOUS
<1>2. PICK w \in Units : v = <<k, w, d>>
  BY DEF Visit, Dependers
<1>3. QED
  BY <1>2 DEF Dependees

LEMMA EditedStep ==
  ASSUME UnitsAssumption, IInv, NEW w \in Units, NEW s \in Dependees, VisitEdited(w, s), Frame
  PROVE  IInv'
<1> USE DEF Frame, history, Marked
<1>t. TypeOK /\ <<"edited", w, s>> \in visits
  BY DEF IInv, VisitEdited
<1>p. phase = "edit" /\ awaited = {} /\ fresh = {}
  BY <1>t, EditPhase DEF IInv, PhaseInv, TypeOK
<1>0. s \in Sources \/ s \in Units
  BY DEF Dependees
<1>1. CASE w \in outdated \/ w \in potentially_outdated
  <2>1. /\ outdated' = outdated \cup {w}
        /\ potentially_outdated' = potentially_outdated \ {w}
        /\ Marked' = Marked /\ po_dep_count' = po_dep_count
        /\ visits' = visits \ {<<"edited", w, s>>}
        /\ outdated_ready' = IF w \in potentially_outdated /\ po_dep_count[w] = 0
                             THEN outdated_ready \cup {w} ELSE outdated_ready
    BY <1>1 DEF VisitEdited, maps, IInv, Disjoint
  <2>2. \A x \in Units, d \in Dependees :
           /\ <<"po", x, d>> \in visits' <=> <<"po", x, d>> \in visits
           /\ <<"outdated", x, d>> \in visits' <=> <<"outdated", x, d>> \in visits
           /\ <<"up_to_date", x, d>> \in visits' <=> <<"up_to_date", x, d>> \in visits
           /\ <<"edited", x, d>> \in visits' => <<"edited", x, d>> \in visits
           /\ x # w => (<<"edited", x, d>> \in visits' <=> <<"edited", x, d>> \in visits)
    BY <2>1
  <2>3. TypeOK'
    BY <1>t, <2>1 DEF TypeOK
  <2>4. StackInv' /\ KnownInv' /\ NotTwice' /\ Disjoint'
    BY <2>1 DEF IInv, StackInv, KnownInv, NotTwice, Disjoint
  <2>5. PhaseInv' /\ VisitInv' /\ Closed'
    BY <2>1, <2>2, <1>p DEF IInv, PhaseInv, VisitInv, Closed, Dependees
  <2>6. ASSUME NEW x \in Units PROVE WaitsFor(x)' = WaitsFor(x)
    BY <2>1, <2>2 DEF WaitsFor, Dependees
  <2>7. CountsExact'
    BY <2>1, <2>6, <1>t, <1>1 DEF IInv, CountsExact, TypeOK, Disjoint
  <2>8. StaleInv'
    BY <2>1, <2>2, <1>t DEF IInv, StaleInv, TypeOK, Dependees
  <2>9. QED
    BY <2>3, <2>4, <2>5, <2>7, <2>8 DEF IInv
<1>2. CASE w \notin Marked
  <2>1. /\ outdated' = outdated \cup {w} /\ potentially_outdated' = potentially_outdated
        /\ Marked' = Marked \cup {w} /\ po_dep_count' = po_dep_count
        /\ visits' = (visits \ {<<"edited", w, s>>}) \cup Visit("po", w, deps)
        /\ outdated_ready' = outdated_ready \cup {w}
    BY <1>2 DEF VisitEdited, maps
  <2>2. \A x \in Units, d \in Dependees :
           /\ <<"po", x, d>> \in visits' <=>
                 <<"po", x, d>> \in visits \/ (d = w /\ <<x, w>> \in deps)
           /\ <<"outdated", x, d>> \in visits' <=> <<"outdated", x, d>> \in visits
           /\ <<"up_to_date", x, d>> \in visits' <=> <<"up_to_date", x, d>> \in visits
           /\ <<"edited", x, d>> \in visits' => <<"edited", x, d>> \in visits
           /\ x # w => (<<"edited", x, d>> \in visits' <=> <<"edited", x, d>> \in visits)
    BY <2>1 DEF Visit, Dependers
  <2>a. Visit("po", w, deps) \subseteq
           {"edited", "po", "outdated", "up_to_date"} \X Units \X (Units \cup Sources)
    BY VisitType DEF Dependees
  <2>3. TypeOK'
    BY <1>t, <2>1, <2>a DEF TypeOK
  <2>4. StackInv' /\ NotTwice'
    BY <2>1, <1>p DEF IInv, StackInv, NotTwice
  <2>5. KnownInv'
    <3>1. w \in known
      BY <1>t DEF IInv, VisitInv
    <3>2. QED
      BY <2>1, <3>1 DEF IInv, KnownInv
  <2>6. PhaseInv'
    BY <2>1, <2>2, <1>p DEF IInv, PhaseInv
  <2>b. VisitInv'
    BY <2>1, <2>2, <1>p, <1>2 DEF IInv, PhaseInv, VisitInv, Dependees
  <2>c. Closed'
    BY <2>1, <2>2, <1>p, <1>2 DEF IInv, Closed, Dependees
  <2>d. Disjoint'
    BY <2>1, <1>2 DEF IInv, Disjoint
  <2>e. \A x \in Units : <<"outdated", x, w>> \notin visits /\ <<"up_to_date", x, w>> \notin visits
    BY <1>p DEF IInv, PhaseInv, Dependees
  <2>7. ASSUME NEW x \in Units PROVE WaitsFor(x)' = WaitsFor(x)
    <3>1. ASSUME NEW d \in Units PROVE d \in WaitsFor(x)' <=> d \in WaitsFor(x)
      <4>1. CASE d = w
        BY <2>2, <2>e, <1>2, <1>p, <4>1 DEF WaitsFor, Dependees
      <4>2. CASE d # w
        <5>1. d \in (Marked \cup awaited)' <=> d \in Marked \cup awaited
          BY <2>1, <4>2
        <5>2. /\ <<"po", x, d>> \in visits' <=> <<"po", x, d>> \in visits
              /\ <<"outdated", x, d>> \in visits' <=> <<"outdated", x, d>> \in visits
              /\ <<"up_to_date", x, d>> \in visits' <=> <<"up_to_date", x, d>> \in visits
          BY <2>2, <4>2 DEF Dependees
        <5>3. QED
          BY <5>1, <5>2 DEF WaitsFor
      <4>3. QED
        BY <4>1, <4>2
    <3>2. QED
      BY <3>1 DEF WaitsFor
  <2>8. WaitsFor(w) = {}
    BY <1>p, <1>2 DEF WaitsFor, IInv, Closed, PhaseInv, Dependees
  <2>9. CountsExact'
    <3>1. po_dep_count[w] = 0 /\ Cardinality(WaitsFor(w)') = 0
      BY <2>7, <2>8, <1>2, EmptyCount DEF IInv, Disjoint
    <3>2. \A x \in Marked' : po_dep_count'[x] = Cardinality(WaitsFor(x)')
      BY <2>1, <2>7, <3>1, <1>t DEF IInv, CountsExact, TypeOK
    <3>3. outdated_ready' = {x \in outdated' : po_dep_count'[x] = 0}
      BY <2>1, <3>1 DEF IInv, CountsExact
    <3>4. QED
      BY <3>2, <3>3 DEF CountsExact
  <2>10. StaleInv'
    BY <2>1, <2>2, <1>t DEF IInv, StaleInv, TypeOK, Dependees
  <2>11. QED
    BY <2>3, <2>4, <2>5, <2>6, <2>b, <2>c, <2>d, <2>9, <2>10 DEF IInv
<1>3. QED
  BY <1>1, <1>2

LEMMA PoStep ==
  ASSUME UnitsAssumption, IInv, NEW w \in Units, NEW d \in Dependees, VisitPo(w, d), Frame
  PROVE  IInv'
<1> USE DEF Frame, history, Marked
<1> DEFINE new == IF w \in Marked THEN {} ELSE Visit("po", w, deps)
<1>t. TypeOK /\ <<"po", w, d>> \in visits
  BY DEF IInv, VisitPo
<1>d. d \in Marked /\ d \in Units /\ <<w, d>> \in deps /\ w \in known
  BY <1>t DEF IInv, VisitInv, KnownInv, TypeOK
<1>p. phase = "edit" /\ awaited = {} /\ fresh = {}
  BY <1>t, EditPhase DEF IInv, PhaseInv, TypeOK
<1>1. /\ outdated' = outdated /\ Marked' = Marked \cup {w}
      /\ potentially_outdated' = potentially_outdated \cup ({w} \ outdated)
      /\ po_dep_count' = [po_dep_count EXCEPT ![w] = @ + 1]
      /\ outdated_ready' = outdated_ready \ {w}
      /\ visits' = (visits \ {<<"po", w, d>>}) \cup new
  BY DEF VisitPo
<1>2. \A x \in Units, y \in Dependees :
         /\ <<"po", x, y>> \in visits' <=>
               \/ <<"po", x, y>> \in visits /\ ~ (x = w /\ y = d)
               \/ y = w /\ w \notin Marked /\ <<x, w>> \in deps
         /\ <<"outdated", x, y>> \in visits' <=> <<"outdated", x, y>> \in visits
         /\ <<"up_to_date", x, y>> \in visits' <=> <<"up_to_date", x, y>> \in visits
         /\ <<"edited", x, y>> \in visits' <=> <<"edited", x, y>> \in visits
  BY <1>1, <1>d DEF Visit, Dependers
<1>3. TypeOK'
  <2>1. new \subseteq {"edited", "po", "outdated", "up_to_date"} \X Units \X (Units \cup Sources)
    BY VisitType DEF Dependees
  <2>2. QED
    BY <1>t, <1>1, <2>1 DEF TypeOK
<1>4. StackInv' /\ NotTwice'
  BY <1>1, <1>p DEF IInv, StackInv, NotTwice
<1>5. KnownInv'
  BY <1>1, <1>d DEF IInv, KnownInv
<1>6. PhaseInv'
  BY <1>1, <1>2, <1>p DEF IInv, PhaseInv
<1>v. \A x \in Units, y \in Dependees :
         <<"outdated", x, y>> \notin visits /\ <<"up_to_date", x, y>> \notin visits
  BY <1>p DEF IInv, PhaseInv
<1>7. VisitInv'
  BY <1>1, <1>2, <1>p, <1>v DEF IInv, VisitInv, Dependees
<1>8. Closed'
  BY <1>1, <1>2, <1>p DEF IInv, Closed, Dependees
<1>9. Disjoint'
  BY <1>1, <1>t DEF IInv, Disjoint, TypeOK
<1>10. ASSUME NEW x \in Units PROVE WaitsFor(x)' = WaitsFor(x) \cup (IF x = w THEN {d} ELSE {})
  <2>1. ASSUME NEW y \in Units
        PROVE  y \in WaitsFor(x)' <=> y \in WaitsFor(x) \/ (x = w /\ y = d)
    <3>1. \A z \in Units : z \in WaitsFor(x) <=> <<x, z>> \in deps /\ z \in Marked /\ <<"po", x, z>> \notin visits
      BY <1>v, <1>p DEF WaitsFor, Dependees
    <3>2. \A z \in Units : z \in WaitsFor(x)' <=> <<x, z>> \in deps /\ z \in Marked' /\ <<"po", x, z>> \notin visits'
      BY <1>v, <1>p, <1>2 DEF WaitsFor, Dependees
    <3>3. <<"po", x, y>> \in visits' <=>
             \/ <<"po", x, y>> \in visits /\ ~ (x = w /\ y = d)
             \/ y = w /\ w \notin Marked /\ <<x, w>> \in deps
      BY <1>2 DEF Dependees
    <3>4. y \notin Marked => <<"po", x, y>> \notin visits
      BY DEF IInv, VisitInv, Dependees
    <3>5. CASE x = w /\ y = d
      BY <3>2, <3>3, <3>5, <1>d, <1>1
    <3>6. CASE ~ (x = w /\ y = d)
      BY <3>1, <3>2, <3>3, <3>4, <3>6, <1>1
    <3>7. QED
      BY <3>5, <3>6
  <2>2. WaitsFor(x)' \subseteq Units /\ WaitsFor(x) \subseteq Units
    BY DEF WaitsFor
  <2>3. QED
    BY <2>1, <2>2, <1>d
<1>11. d \notin WaitsFor(w)
  BY <1>t, <1>v DEF WaitsFor, Dependees
<1>12. Cardinality(WaitsFor(w)) \in Nat /\ Cardinality(WaitsFor(w)') = Cardinality(WaitsFor(w)) + 1
  BY <1>10, <1>11, WaitsForFinite, OneMore
<1>13. po_dep_count[w] = Cardinality(WaitsFor(w))
  <2>1. CASE w \in Marked
    BY <2>1 DEF IInv, CountsExact
  <2>2. CASE w \notin Marked
    <3>1. WaitsFor(w) = {}
      BY <1>p, <1>v, <2>2 DEF WaitsFor, IInv, Closed, Dependees
    <3>2. QED
      BY <3>1, <2>2, EmptyCount DEF IInv, Disjoint
  <2>3. QED
    BY <2>1, <2>2
<1>14. CountsExact'
  <2>1. po_dep_count'[w] = Cardinality(WaitsFor(w)') /\ po_dep_count'[w] # 0
    BY <1>1, <1>12, <1>13, <1>t DEF TypeOK
  <2>2. \A x \in Marked' : po_dep_count'[x] = Cardinality(WaitsFor(x)')
    <3>1. SUFFICES ASSUME NEW x \in Marked', x # w
                   PROVE  po_dep_count'[x] = Cardinality(WaitsFor(x)')
      BY <2>1
    <3>2. x \in Marked /\ x \in Units
      BY <1>1, <3>1, <1>t DEF TypeOK
    <3>3. WaitsFor(x)' = WaitsFor(x) \cup {}
      BY <1>10, <3>1, <3>2
    <3>4. po_dep_count'[x] = po_dep_count[x]
      BY <1>1, <3>1, <3>2, <1>t DEF TypeOK
    <3>5. QED
      BY <3>2, <3>3, <3>4 DEF IInv, CountsExact
  <2>3. outdated_ready' = {x \in outdated' : po_dep_count'[x] = 0}
    BY <1>1, <2>1, <1>t DEF IInv, CountsExact, TypeOK
  <2>4. QED
    BY <2>2, <2>3 DEF CountsExact
<1>15. StaleInv'
  <2>1. SUFFICES ASSUME NEW x \in stale
                 PROVE  x \in outdated' \/ \E y \in Sources : <<"edited", x, y>> \in visits'
    BY <1>1 DEF StaleInv
  <2>2. x \in Units
    BY <1>t, <2>1 DEF TypeOK
  <2>3. x \in outdated \/ \E y \in Sources : <<"edited", x, y>> \in visits
    BY <1>v, <2>1, <2>2 DEF IInv, StaleInv, Dependees
  <2>4. QED
    BY <1>1, <1>2, <2>2, <2>3 DEF Dependees
<1>16. QED
  BY <1>3, <1>4, <1>5, <1>6, <1>7, <1>8, <1>9, <1>14, <1>15 DEF IInv

----------------------------------------------------------------------------
(* The verdicts of the analysis. *)

\* one verdict less on the way, and the marked units are as before
LEMMA VerdictTaken ==
  ASSUME UnitsAssumption, IInv, NEW k \in {"outdated", "up_to_date"},
         NEW w \in Units, NEW d \in Dependees, <<k, w, d>> \in visits,
         visits' = visits \ {<<k, w, d>>}, Marked' = Marked, Frame
  PROVE  /\ phase = "analyze" /\ d \in Units
         /\ StackInv' /\ PhaseInv' /\ KnownInv' /\ VisitInv' /\ Closed' /\ NotTwice'
         /\ \A x \in Units \ {w} : WaitsFor(x)' = WaitsFor(x)
         /\ Cardinality(WaitsFor(w)) \in Nat /\ Cardinality(WaitsFor(w)) >= 1
         /\ Cardinality(WaitsFor(w)') = Cardinality(WaitsFor(w)) - 1
<1> USE DEF Frame, history
<1>p. phase = "analyze"
  BY DEF IInv, PhaseInv, TypeOK
<1>d. d \in Units \ (Marked \cup awaited) /\ <<w, d>> \in deps
  BY DEF IInv, VisitInv
<1>2. \A x \in Units, y \in Dependees :
         /\ <<"po", x, y>> \notin visits /\ <<"po", x, y>> \notin visits'
         /\ <<"edited", x, y>> \notin visits /\ <<"edited", x, y>> \notin visits'
         /\ <<"outdated", x, y>> \in visits' <=>
               <<"outdated", x, y>> \in visits /\ ~ (k = "outdated" /\ x = w /\ y = d)
         /\ <<"up_to_date", x, y>> \in visits' <=>
               <<"up_to_date", x, y>> \in visits /\ ~ (k = "up_to_date" /\ x = w /\ y = d)
  BY <1>p DEF IInv, PhaseInv
<1>3. StackInv' /\ KnownInv' /\ NotTwice'
  BY DEF IInv, StackInv, KnownInv, NotTwice
<1>4. PhaseInv'
  BY <1>p, <1>2 DEF IInv, PhaseInv
<1>5. VisitInv'
  BY <1>2 DEF IInv, VisitInv
<1>6. Closed'
  BY <1>2 DEF IInv, Closed, Dependees
<1>7. ASSUME NEW x \in Units PROVE WaitsFor(x)' = WaitsFor(x) \ (IF x = w THEN {d} ELSE {})
  <2>1. ASSUME NEW y \in Units
        PROVE  y \in WaitsFor(x)' <=> y \in WaitsFor(x) /\ ~ (x = w /\ y = d)
    <3>1. CASE x = w /\ y = d
      <4>1. <<"outdated", w, d>> \notin visits' /\ <<"up_to_date", w, d>> \notin visits'
        BY <1>2 DEF IInv, VisitInv
      <4>2. QED
        BY <4>1, <3>1, <1>d DEF WaitsFor
    <3>2. CASE ~ (x = w /\ y = d)
      <4>1. /\ <<"po", x, y>> \in visits' <=> <<"po", x, y>> \in visits
            /\ <<"outdated", x, y>> \in visits' <=> <<"outdated", x, y>> \in visits
            /\ <<"up_to_date", x, y>> \in visits' <=> <<"up_to_date", x, y>> \in visits
        BY <1>2, <3>2 DEF Dependees
      <4>2. QED
        BY <4>1, <3>2 DEF WaitsFor
    <3>3. QED
      BY <3>1, <3>2
  <2>2. WaitsFor(x)' \subseteq Units /\ WaitsFor(x) \subseteq Units
    BY DEF WaitsFor
  <2>3. QED
    BY <2>1, <2>2
<1>8. d \in WaitsFor(w) /\ WaitsFor(w)' = WaitsFor(w) \ {d}
  BY <1>d, <1>7 DEF WaitsFor
<1>9. \A x \in Units \ {w} : WaitsFor(x)' = WaitsFor(x)
  <2>1. \A x \in Units \ {w} : WaitsFor(x)' = WaitsFor(x) \ {}
    BY <1>7
  <2>2. QED
    BY <2>1
<1>10. IsFiniteSet(WaitsFor(w))
  BY WaitsForFinite
<1>11. /\ Cardinality(WaitsFor(w)) \in Nat /\ Cardinality(WaitsFor(w)) >= 1
       /\ Cardinality(WaitsFor(w)') = Cardinality(WaitsFor(w)) - 1
  BY <1>8, <1>10, OneLess
<1>12. QED
  BY <1>p, <1>d, <1>3, <1>4, <1>5, <1>6, <1>9, <1>11

\* CountDown keeps the counts exact
LEMMA CountedDown ==
  ASSUME UnitsAssumption, IInv, NEW w \in Marked, CountDown(w),
         Marked' = Marked, outdated' = outdated \cup {w},
         \A x \in Units \ {w} : WaitsFor(x)' = WaitsFor(x),
         Cardinality(WaitsFor(w)) \in Nat, Cardinality(WaitsFor(w)) >= 1,
         Cardinality(WaitsFor(w)') = Cardinality(WaitsFor(w)) - 1
  PROVE  /\ CountsExact' /\ po_dep_count' \in [Units -> Nat]
         /\ outdated_ready' \subseteq Units
         /\ \A u \in Units \ {w} : po_dep_count'[u] = po_dep_count[u]
<1>t. TypeOK /\ w \in Units /\ Marked \subseteq Units
  BY DEF IInv, TypeOK, Marked
<1>1. po_dep_count[w] = Cardinality(WaitsFor(w))
  BY DEF IInv, CountsExact
<1>2. po_dep_count[w] \in Nat /\ po_dep_count[w] >= 1
  BY <1>1
<1>3. /\ po_dep_count' \in [Units -> Nat] /\ po_dep_count'[w] = po_dep_count[w] - 1
      /\ \A u \in Units \ {w} : po_dep_count'[u] = po_dep_count[u]
      /\ outdated_ready' = IF po_dep_count[w] = 1 THEN outdated_ready \cup {w} ELSE outdated_ready
  <2>1. po_dep_count[w] - 1 \in Nat
    BY <1>2
  <2>2. QED
    BY <2>1, <1>t DEF CountDown, TypeOK
<1>4. \A x \in Marked' : po_dep_count'[x] = Cardinality(WaitsFor(x)')
  BY <1>1, <1>3, <1>t DEF IInv, CountsExact
<1>5. outdated_ready' = {x \in outdated' : po_dep_count'[x] = 0}
  <2>1. outdated_ready = {x \in outdated : po_dep_count[x] = 0} /\ outdated \subseteq Units
    BY <1>t DEF IInv, CountsExact, TypeOK
  <2>2. \A x \in Units \ {w} : x \in outdated' <=> x \in outdated
    OBVIOUS
  <2>3. w \in outdated' /\ w \notin outdated_ready
    BY <2>1, <1>2
  <2>4. w \in outdated_ready' <=> po_dep_count'[w] = 0
    BY <1>2, <1>3, <2>3
  <2>5. \A x : x \in outdated_ready' <=> x \in outdated' /\ po_dep_count'[x] = 0
    <3>1. ASSUME NEW x, x # w PROVE x \in outdated_ready' <=> x \in outdated' /\ po_dep_count'[x] = 0
      <4>1. x \in outdated_ready' <=> x \in outdated_ready
        BY <1>3, <3>1
      <4>2. x \in outdated => po_dep_count'[x] = po_dep_count[x]
        BY <1>3, <2>1, <3>1
      <4>3. QED
        BY <2>1, <3>1, <4>1, <4>2
    <3>2. QED
      BY <2>3, <2>4, <3>1
  <2>6. QED
    BY <2>5
<1>6. QED
  BY <1>3, <1>4, <1>5, <1>t DEF CountsExact, TypeOK

LEMMA OutdatedStep ==
  ASSUME UnitsAssumption, IInv, NEW w \in Units, NEW d \in Dependees, VisitOutdated(w, d), Frame
  PROVE  IInv'
<1>t. TypeOK /\ <<"outdated", w, d>> \in visits /\ visits' = visits \ {<<"outdated", w, d>>}
  BY DEF IInv, VisitOutdated
<1>m. Marked' = Marked
  BY DEF VisitOutdated, Marked, maps
<1>f. UNCHANGED <<deps, stack, awaited, early, after, known, phase, fresh, stale>>
  BY DEF Frame, history
<1>v. /\ phase = "analyze" /\ d \in Units
      /\ StackInv' /\ PhaseInv' /\ KnownInv' /\ VisitInv' /\ Closed' /\ NotTwice'
      /\ \A x \in Units \ {w} : WaitsFor(x)' = WaitsFor(x)
      /\ Cardinality(WaitsFor(w)) \in Nat /\ Cardinality(WaitsFor(w)) >= 1
      /\ Cardinality(WaitsFor(w)') = Cardinality(WaitsFor(w)) - 1
  BY <1>t, <1>m, VerdictTaken
<1>s. \A x \in Units \ {w}, y \in Dependees :
         /\ <<"outdated", x, y>> \in visits' <=> <<"outdated", x, y>> \in visits
         /\ <<"edited", x, y>> \in visits' <=> <<"edited", x, y>> \in visits
  BY <1>t
<1>1. CASE w \in Marked
  <2>1. /\ CountDown(w) /\ outdated' = outdated \cup {w}
        /\ potentially_outdated' = potentially_outdated \ {w}
    BY <1>1 DEF VisitOutdated, maps, Marked, IInv, Disjoint
  <2>2. /\ CountsExact' /\ po_dep_count' \in [Units -> Nat] /\ outdated_ready' \subseteq Units
        /\ \A u \in Units \ {w} : po_dep_count'[u] = po_dep_count[u]
    BY <1>1, <1>m, <1>v, <2>1, CountedDown
  <2>3. TypeOK'
    BY <1>t, <1>f, <2>1, <2>2 DEF TypeOK
  <2>4. Disjoint'
    BY <1>1, <1>m, <2>1, <2>2 DEF IInv, Disjoint
  <2>5. StaleInv'
    BY <1>f, <1>t, <1>s, <2>1 DEF IInv, StaleInv, TypeOK, Dependees
  <2>6. QED
    BY <1>v, <2>2, <2>3, <2>4, <2>5 DEF IInv
<1>2. CASE w \notin Marked
  <2>1. UNCHANGED <<outdated, potentially_outdated, outdated_ready, po_dep_count>>
    BY <1>2 DEF VisitOutdated, maps, Marked
  <2>2. TypeOK' /\ Disjoint'
    BY <1>t, <1>f, <1>m, <2>1 DEF TypeOK, IInv, Disjoint
  <2>3. CountsExact'
    <3>1. \A x \in Marked' : x \in Units \ {w}
      BY <1>2, <1>m, <1>t DEF TypeOK, Marked
    <3>2. QED
      BY <1>v, <1>m, <2>1, <3>1 DEF IInv, CountsExact
  <2>4. StaleInv'
    <3>1. w \notin stale
      BY <1>2, <1>v DEF IInv, StaleInv, Marked, PhaseInv, Dependees
    <3>2. QED
      <4>1. SUFFICES ASSUME NEW x \in stale
                     PROVE  \/ x \in outdated
                            \/ \E y \in Sources : <<"edited", x, y>> \in visits'
                            \/ x \in potentially_outdated /\ \E y \in Units : <<"outdated", x, y>> \in visits'
        BY <1>f, <2>1 DEF StaleInv
      <4>2. x \in Units \ {w}
        BY <3>1, <1>t DEF TypeOK
      <4>3. QED
        BY <1>s, <4>2 DEF IInv, StaleInv, Dependees
  <2>5. QED
    BY <1>v, <2>2, <2>3, <2>4 DEF IInv
<1>3. QED
  BY <1>1, <1>2

LEMMA UpToDateStep ==
  ASSUME UnitsAssumption, IInv, NEW w \in Units, NEW d \in Dependees, VisitUpToDate(w, d), Frame
  PROVE  IInv'
<1>t. TypeOK /\ <<"up_to_date", w, d>> \in visits
  BY DEF IInv, VisitUpToDate
<1>f. UNCHANGED <<deps, stack, awaited, early, after, known, phase, fresh, stale>>
  BY DEF Frame, history
<1>d. d \in Units \ (Marked \cup awaited) /\ <<w, d>> \in deps
  BY <1>t DEF IInv, VisitInv
<1>p. phase = "analyze"
  BY <1>t DEF IInv, PhaseInv, TypeOK
<1>1. CASE w \in outdated \/ w \notin Marked \/ po_dep_count[w] > 1
  <2>1. visits' = visits \ {<<"up_to_date", w, d>>}
    BY <1>1, <1>t DEF VisitUpToDate, LastAwaited, Marked, IInv, Disjoint, TypeOK
  <2>2. outdated' = outdated /\ potentially_outdated' = potentially_outdated /\ Marked' = Marked
    BY <1>1, <1>t DEF VisitUpToDate, LastAwaited, Marked, IInv, Disjoint, TypeOK, maps
  <2>v. /\ StackInv' /\ PhaseInv' /\ KnownInv' /\ VisitInv' /\ Closed' /\ NotTwice'
        /\ \A x \in Units \ {w} : WaitsFor(x)' = WaitsFor(x)
        /\ Cardinality(WaitsFor(w)) \in Nat /\ Cardinality(WaitsFor(w)) >= 1
        /\ Cardinality(WaitsFor(w)') = Cardinality(WaitsFor(w)) - 1
    BY <1>t, <2>1, <2>2, VerdictTaken
  <2>3. StaleInv'
    BY <1>f, <1>t, <2>1, <2>2 DEF IInv, StaleInv
  <2>4. CASE w \in outdated
    <3>1. CountDown(w)
      BY <2>4 DEF VisitUpToDate, LastAwaited, IInv, Disjoint, Marked
    <3>2. outdated' = outdated \cup {w} /\ w \in Marked
      BY <2>2, <2>4 DEF Marked
    <3>3. /\ CountsExact' /\ po_dep_count' \in [Units -> Nat] /\ outdated_ready' \subseteq Units
          /\ \A u \in Units \ {w} : po_dep_count'[u] = po_dep_count[u]
      BY <2>2, <2>v, <3>1, <3>2, CountedDown
    <3>4. TypeOK' /\ Disjoint'
      BY <1>t, <1>f, <2>1, <2>2, <3>2, <3>3 DEF TypeOK, IInv, Disjoint
    <3>5. QED
      BY <2>v, <2>3, <3>3, <3>4 DEF IInv
  <2>5. CASE w \in potentially_outdated
    <3>1. w \notin outdated /\ w \in Marked
      BY <2>5 DEF IInv, Disjoint, Marked
    <3>2. po_dep_count' = [po_dep_count EXCEPT ![w] = @ - 1] /\ outdated_ready' = outdated_ready
      BY <1>1, <1>t, <2>5, <3>1 DEF VisitUpToDate, LastAwaited, Marked, TypeOK, maps
    <3>3. po_dep_count[w] = Cardinality(WaitsFor(w)) /\ po_dep_count[w] - 1 \in Nat
      BY <2>v, <3>1 DEF IInv, CountsExact
    <3>4. /\ po_dep_count' \in [Units -> Nat] /\ po_dep_count'[w] = po_dep_count[w] - 1
          /\ \A u \in Units \ {w} : po_dep_count'[u] = po_dep_count[u]
      BY <3>2, <3>3, <1>t DEF TypeOK
    <3>5. TypeOK' /\ Disjoint'
      BY <1>t, <1>f, <2>1, <2>2, <3>1, <3>2, <3>4 DEF TypeOK, IInv, Disjoint
    <3>6. CountsExact'
      <4>1. \A x \in Marked' : po_dep_count'[x] = Cardinality(WaitsFor(x)')
        <5>1. SUFFICES ASSUME NEW x \in Marked
                       PROVE  po_dep_count'[x] = Cardinality(WaitsFor(x)')
          BY <2>2
        <5>2. CASE x = w
          BY <5>2, <2>v, <3>3, <3>4
        <5>3. CASE x # w
          <6>1. x \in Units \ {w}
            BY <5>3, <1>t DEF TypeOK, Marked
          <6>2. QED
            BY <6>1, <2>v, <3>4 DEF IInv, CountsExact
        <5>4. QED
          BY <5>2, <5>3
      <4>2. outdated_ready' = {x \in outdated' : po_dep_count'[x] = 0}
        BY <1>t, <2>2, <3>1, <3>2, <3>4 DEF IInv, CountsExact, TypeOK
      <4>3. QED
        BY <4>1, <4>2 DEF CountsExact
    <3>7. QED
      BY <2>v, <2>3, <3>5, <3>6 DEF IInv
  <2>6. CASE w \notin Marked
    <3>1. UNCHANGED <<outdated_ready, po_dep_count>>
      BY <2>6 DEF VisitUpToDate, LastAwaited, maps, Marked
    <3>2. TypeOK' /\ Disjoint'
      BY <1>t, <1>f, <2>1, <2>2, <3>1 DEF TypeOK, IInv, Disjoint
    <3>3. \A x \in Marked' : x \in Units \ {w}
      BY <2>6, <2>2, <1>t DEF TypeOK, Marked
    <3>4. CountsExact'
      BY <2>v, <2>2, <3>1, <3>3 DEF IInv, CountsExact
    <3>5. QED
      BY <2>v, <2>3, <3>2, <3>4 DEF IInv
  <2>7. QED
    BY <2>4, <2>5, <2>6 DEF Marked
<1>2. CASE w \in potentially_outdated /\ w \notin outdated /\ po_dep_count[w] <= 1
  <2>1. /\ outdated' = outdated /\ outdated_ready' = outdated_ready
        /\ potentially_outdated' = potentially_outdated \ {w}
        /\ Marked' = Marked \ {w} /\ w \in Marked
        /\ po_dep_count' = [po_dep_count EXCEPT ![w] = 0]
        /\ visits' = (visits \ {<<"up_to_date", w, d>>}) \cup Visit("up_to_date", w, deps)
    BY <1>2, <1>t DEF VisitUpToDate, LastAwaited, Marked, TypeOK
  <2>a. w \notin awaited /\ w \notin fresh
    <3>1. w \notin fresh
      BY <2>1 DEF IInv, NotTwice
    <3>2. QED
      BY <3>1 DEF IInv, StackInv
  <2>2. \A x \in Units, y \in Dependees :
           <<"po", x, y>> \notin visits /\ <<"edited", x, y>> \notin visits
    BY <1>p DEF IInv, PhaseInv
  <2>3. WaitsFor(w) = {d}
    <3>1. d \in WaitsFor(w)
      BY <1>t, <1>d DEF WaitsFor
    <3>2. po_dep_count[w] = Cardinality(WaitsFor(w))
      BY <2>1 DEF IInv, CountsExact
    <3>3. ASSUME NEW y \in WaitsFor(w), y # d PROVE FALSE
      <4>1. Cardinality(WaitsFor(w)) \in Nat /\ Cardinality(WaitsFor(w)) >= 2
        BY <3>1, <3>3, WaitsForFinite, TwoApart
      <4>2. QED
        BY <4>1, <3>2, <1>2
    <3>4. QED
      BY <3>1, <3>3
  <2>4. \A y \in Units : <<w, y>> \in deps => y \notin Marked \cup awaited
    BY <2>2, <2>3, <1>d DEF WaitsFor, Dependees
  <2>5. \A x \in Units : <<"outdated", x, w>> \notin visits /\ <<"up_to_date", x, w>> \notin visits
    BY <2>1 DEF IInv, VisitInv, Dependees
  <2>6. \A x \in Units, y \in Dependees :
           /\ <<"po", x, y>> \notin visits' /\ <<"edited", x, y>> \notin visits'
           /\ <<"outdated", x, y>> \in visits' <=> <<"outdated", x, y>> \in visits
           /\ <<"up_to_date", x, y>> \in visits' <=>
                 \/ <<"up_to_date", x, y>> \in visits /\ ~ (x = w /\ y = d)
                 \/ y = w /\ <<x, w>> \in deps
    BY <2>1, <2>2 DEF Visit, Dependers
  <2>7. TypeOK'
    <3>1. Visit("up_to_date", w, deps) \subseteq
             {"edited", "po", "outdated", "up_to_date"} \X Units \X (Units \cup Sources)
      BY VisitType DEF Dependees
    <3>2. QED
      BY <1>t, <1>f, <2>1, <3>1 DEF TypeOK
  <2>8. StackInv' /\ KnownInv' /\ NotTwice'
    BY <1>f, <2>1 DEF IInv, StackInv, KnownInv, NotTwice
  <2>9. PhaseInv'
    BY <1>f, <1>p, <2>6 DEF IInv, PhaseInv
  <2>10. VisitInv'
    <3>1. SUFFICES ASSUME NEW x \in Units, NEW y \in Dependees
                   PROVE  /\ <<"outdated", x, y>> \in visits' \/ <<"up_to_date", x, y>> \in visits' =>
                                 y \in Units \ (Marked' \cup awaited') /\ <<x, y>> \in deps'
                          /\ <<"outdated", x, y>> \notin visits' \/ <<"up_to_date", x, y>> \notin visits'
      BY <2>6 DEF VisitInv
    <3>2. CASE y = w
      BY <3>2, <2>1, <2>5, <2>6, <2>a, <1>f
    <3>3. CASE y # w
      <4>1. /\ <<"outdated", x, y>> \in visits' => <<"outdated", x, y>> \in visits
            /\ <<"up_to_date", x, y>> \in visits' => <<"up_to_date", x, y>> \in visits
        BY <3>3, <2>6
      <4>2. QED
        BY <4>1, <2>1, <1>f DEF IInv, VisitInv
    <3>4. QED
      BY <3>2, <3>3
  <2>11. Closed'
    BY <1>f, <2>1, <2>2, <2>4, <2>a DEF IInv, Closed, Dependees
  <2>12. Disjoint'
    BY <1>t, <2>1 DEF IInv, Disjoint, TypeOK
  <2>13. ASSUME NEW x \in Units, x # w PROVE WaitsFor(x)' = WaitsFor(x)
    <3>1. ASSUME NEW y \in Units PROVE y \in WaitsFor(x)' <=> y \in WaitsFor(x)
      <4>1. CASE y = w
        BY <4>1, <2>1, <2>2, <2>6, <1>f DEF WaitsFor, Dependees
      <4>2. CASE y # w
        BY <4>2, <2>1, <2>2, <2>6, <2>13, <1>f DEF WaitsFor, Dependees
      <4>3. QED
        BY <4>1, <4>2
    <3>2. QED
      BY <3>1 DEF WaitsFor
  <2>14. CountsExact'
    <3>1. \A x \in Marked' : po_dep_count'[x] = Cardinality(WaitsFor(x)')
      BY <1>t, <2>1, <2>13 DEF IInv, CountsExact, TypeOK, Marked
    <3>2. outdated_ready' = {x \in outdated' : po_dep_count'[x] = 0}
      BY <1>t, <1>2, <2>1 DEF IInv, CountsExact, TypeOK
    <3>3. QED
      BY <3>1, <3>2 DEF CountsExact
  <2>15. StaleInv'
    <3>1. ASSUME w \in stale PROVE FALSE
      <4>1. PICK y \in Units : <<"outdated", w, y>> \in visits
        BY <3>1, <1>2, <2>2 DEF IInv, StaleInv, Dependees
      <4>2. y \in WaitsFor(w)
        BY <4>1 DEF WaitsFor, IInv, VisitInv, Dependees
      <4>3. QED
        BY <4>1, <4>2, <2>3, <1>t DEF IInv, VisitInv
    <3>2. QED
      <4>1. SUFFICES ASSUME NEW x \in stale
                     PROVE  \/ x \in outdated
                            \/ \E y \in Sources : <<"edited", x, y>> \in visits'
                            \/ /\ x \in potentially_outdated'
                               /\ \E y \in Units : <<"outdated", x, y>> \in visits'
        BY <1>f, <2>1 DEF StaleInv
      <4>2. x \in Units \ {w}
        BY <3>1, <1>t DEF TypeOK
      <4>3. QED
        BY <2>1, <2>2, <2>6, <4>2 DEF IInv, StaleInv, Dependees
  <2>16. QED
    BY <2>7, <2>8, <2>9, <2>10, <2>11, <2>12, <2>14, <2>15 DEF IInv
<1>3. po_dep_count[w] \in Nat
  BY <1>t DEF TypeOK
<1>4. QED
  BY <1>1, <1>2, <1>3 DEF Marked

----------------------------------------------------------------------------
(* Semantic analysis: what happens to the unit an analysis comes across. *)

\* dependencies that differ from deps for units analysed in this update only
Renewed(edges, recent) ==
    /\ edges \subseteq Units \X Dependees
    /\ fresh \subseteq recent /\ recent \cap Marked = {}
    /\ \A w \in Units, y \in Dependees :
          /\ w \notin recent => (<<w, y>> \in edges <=> <<w, y>> \in deps)
          /\ <<w, y>> \in edges /\ <<w, y>> \notin deps => (y \in Units => KindOf[y] # "comptime")

\* and those the caller declares
Grown(edges, recent) == deps \subseteq edges /\ Renewed(edges, recent)

LEMMA CalmFacts ==
  ASSUME UnitsAssumption, IInv, visits = {}
  PROVE  /\ \A x \in Units : WaitsFor(x) = {y \in Units : <<x, y>> \in deps /\ y \in Marked \cup awaited}
         /\ \A x, y \in Units : <<x, y>> \in deps /\ y \in Marked \cup awaited => x \in Marked \cup fresh
         /\ stale \subseteq outdated
         /\ awaited \subseteq fresh
         /\ Marked \subseteq Units
<1>1. \A x \in Units : WaitsFor(x) = {y \in Units : <<x, y>> \in deps /\ y \in Marked \cup awaited}
  BY DEF WaitsFor
<1>2. \A x, y \in Units : <<x, y>> \in deps /\ y \in Marked \cup awaited => x \in Marked \cup fresh
  BY DEF IInv, Closed
<1>3. stale \subseteq outdated
  BY DEF IInv, StaleInv
<1>4. awaited \subseteq fresh /\ Marked \subseteq Units
  BY DEF IInv, StackInv, TypeOK, Marked
<1>5. QED
  BY <1>1, <1>2, <1>3, <1>4

\* other dependencies of units that are analysed in this update change nothing else
LEMMA EdgesAdded ==
  ASSUME UnitsAssumption, IInv, phase = "analyze", visits = {}, Renewed(deps', fresh'),
         UNCHANGED <<outdated, potentially_outdated, outdated_ready, po_dep_count, visits,
                     stack, awaited, phase, stale>>,
         early' \subseteq DOMAIN OwnerOf, after' \in Units \cup {NoUnit}, known \subseteq known', known' \subseteq Units,
         \A w \in Units, y \in Dependees : <<w, y>> \in deps' => w \in known' ,
         fresh' \subseteq known'
  PROVE  IInv'
<1>c. /\ \A x \in Units : WaitsFor(x) = {y \in Units : <<x, y>> \in deps /\ y \in Marked \cup awaited}
      /\ \A x, y \in Units : <<x, y>> \in deps /\ y \in Marked \cup awaited => x \in Marked \cup fresh
      /\ stale \subseteq outdated /\ Marked \subseteq Units
  BY CalmFacts
<1>m. Marked' = Marked
  BY DEF Marked
<1>1. TypeOK'
  BY DEF IInv, TypeOK, Renewed, Dependees
<1>2. StackInv' /\ PhaseInv' /\ VisitInv' /\ Disjoint' /\ StaleInv'
  BY <1>c, <1>m DEF IInv, StackInv, PhaseInv, VisitInv, Disjoint, StaleInv, Renewed
<1>3. KnownInv'
  BY <1>m DEF IInv, KnownInv, Renewed
<1>4. Closed'
  BY <1>c, <1>m DEF Closed, Renewed, Dependees
<1>5. NotTwice'
  BY <1>m DEF NotTwice, Renewed
<1>6. ASSUME NEW x \in Marked PROVE WaitsFor(x)' = WaitsFor(x)
  <2>1. x \in Units /\ \A y \in Units : <<x, y>> \in deps' <=> <<x, y>> \in deps
    BY <1>c DEF Renewed, Dependees
  <2>2. WaitsFor(x)' = {y \in Units : <<x, y>> \in deps' /\ y \in Marked \cup awaited}
    BY <1>m DEF WaitsFor
  <2>3. QED
    BY <1>c, <2>1, <2>2
<1>7. CountsExact'
  BY <1>6, <1>m DEF IInv, CountsExact
<1>8. QED
  BY <1>1, <1>2, <1>3, <1>4, <1>5, <1>7 DEF IInv

\* an outdated type, or the type of a declaration, that is resolved anew: all its
\* dependers get a verdict
LEMMA Replaced ==
  ASSUME UnitsAssumption, IInv, phase = "analyze", visits = {},
         NEW edges, NEW recent, Grown(edges, recent), recent \subseteq known,
         NEW t \in Marked, NEW src \in Dependees, src \in Units => KindOf[src] # "comptime",
         Unmark(t), UNCHANGED <<stack, awaited, early, phase>>, after' \in Units \cup {NoUnit},
         deps' = WithoutDeps(t, edges) \cup {<<t, src>>},
         visits' = Visit("outdated", t, WithoutDeps(t, deps)),
         known' = known, fresh' = recent \cup {t},
         stale' = (stale \cup (Dependers(t, deps) \ recent)) \ {t}
  PROVE  IInv'
<1>c. /\ \A x \in Units : WaitsFor(x) = {y \in Units : <<x, y>> \in deps /\ y \in Marked \cup awaited}
      /\ \A x, y \in Units : <<x, y>> \in deps /\ y \in Marked \cup awaited => x \in Marked \cup fresh
      /\ stale \subseteq outdated /\ awaited \subseteq fresh /\ Marked \subseteq Units
  BY CalmFacts
<1>t. t \in Units /\ t \in known /\ t \notin fresh /\ t \notin awaited /\ t \notin recent
  BY <1>c DEF IInv, KnownInv, NotTwice, Grown, Renewed
<1>m. /\ Marked' = Marked \ {t} /\ outdated' = outdated \ {t}
      /\ potentially_outdated' = potentially_outdated \ {t}
      /\ outdated_ready' = outdated_ready \ {t}
      /\ po_dep_count' = [po_dep_count EXCEPT ![t] = 0]
  BY DEF Unmark, Marked
<1>e. \A x \in Units, y \in Dependees :
         <<x, y>> \in deps' <=> (x # t /\ <<x, y>> \in edges) \/ (x = t /\ y = src)
  BY DEF WithoutDeps
<1>v. \A x \in Units, y \in Dependees :
         /\ <<"po", x, y>> \notin visits' /\ <<"edited", x, y>> \notin visits'
         /\ <<"up_to_date", x, y>> \notin visits'
         /\ <<"outdated", x, y>> \in visits' <=> y = t /\ x # t /\ <<x, t>> \in deps
  BY DEF Visit, Dependers, WithoutDeps
<1>1. TypeOK'
  <2>1. Visit("outdated", t, WithoutDeps(t, deps)) \subseteq
           {"edited", "po", "outdated", "up_to_date"} \X Units \X (Units \cup Sources)
    BY <1>t, VisitType DEF Dependees
  <2>2. deps' \subseteq Units \X (Units \cup Sources)
    BY <1>t DEF WithoutDeps, Grown, Renewed, Dependees
  <2>3. fresh' \subseteq Units /\ stale' \subseteq Units
    BY <1>t DEF IInv, TypeOK, Grown, Renewed, Dependers
  <2>4. QED
    BY <1>m, <2>1, <2>2, <2>3 DEF IInv, TypeOK
<1>2. StackInv' /\ NotTwice'
  BY <1>m, <1>t DEF IInv, StackInv, NotTwice, Grown, Renewed
<1>3. PhaseInv'
  BY <1>v DEF PhaseInv
<1>4. KnownInv'
  BY <1>m, <1>t, <1>e DEF IInv, KnownInv, Grown, Renewed
<1>5. VisitInv'
  BY <1>m, <1>t, <1>e, <1>v DEF VisitInv, Grown
<1>6. ASSUME NEW x \in Units, NEW y \in Units, <<x, y>> \in edges, y \in Marked \cup awaited
      PROVE  x \in Marked \cup recent
  BY <1>6, <1>c DEF Grown, Renewed, Dependees
<1>7. Closed'
  BY <1>m, <1>t, <1>e, <1>6 DEF Closed, Dependees
<1>8. Disjoint'
  BY <1>m, <1>t DEF IInv, Disjoint, TypeOK
<1>9. ASSUME NEW x \in Marked, x # t PROVE WaitsFor(x)' = WaitsFor(x)
  <2>1. x \in Units /\ \A y \in Units : <<x, y>> \in deps' <=> <<x, y>> \in deps
    BY <1>c, <1>e, <1>9 DEF Grown, Renewed, Dependees
  <2>2. \A y \in Units : <<x, y>> \in edges <=> <<x, y>> \in deps
    BY <1>c DEF Grown, Renewed, Dependees
  <2>3. ASSUME NEW y \in Units PROVE y \in WaitsFor(x)' <=> y \in WaitsFor(x)
    <3>1. CASE y = t
      BY <3>1, <1>c, <1>m, <1>v, <1>9, <2>1, <2>2 DEF WaitsFor, Dependees
    <3>2. CASE y # t
      BY <3>2, <1>c, <1>m, <1>v, <1>9, <2>1 DEF WaitsFor, Dependees
    <3>3. QED
      BY <3>1, <3>2
  <2>4. QED
    BY <2>3 DEF WaitsFor
<1>10. CountsExact'
  <2>1. \A x \in Marked' : po_dep_count'[x] = Cardinality(WaitsFor(x)')
    BY <1>c, <1>m, <1>9 DEF IInv, CountsExact, TypeOK
  <2>2. outdated_ready' = {x \in outdated' : po_dep_count'[x] = 0}
    BY <1>m DEF IInv, CountsExact, TypeOK
  <2>3. QED
    BY <2>1, <2>2 DEF CountsExact
<1>11. StaleInv'
  <2>1. SUFFICES ASSUME NEW x \in stale'
                 PROVE  \/ x \in outdated'
                        \/ /\ x \in potentially_outdated'
                           /\ \E y \in Units : <<"outdated", x, y>> \in visits'
    BY DEF StaleInv
  <2>2. CASE x \in stale
    BY <2>2, <1>c, <1>m
  <2>3. CASE x \in Dependers(t, deps) \ recent
    <3>1. x \in Units /\ <<x, t>> \in deps
      BY <2>3 DEF Dependers
    <3>2. x \in Marked
      BY <1>6, <1>c, <1>t, <2>3, <3>1 DEF Grown
    <3>3. <<"outdated", x, t>> \in visits'
      BY <1>v, <1>t, <3>1 DEF Dependees
    <3>4. QED
      BY <1>m, <1>t, <3>1, <3>2, <3>3 DEF Marked
  <2>4. QED
    BY <2>2, <2>3
<1>12. QED
  BY <1>1, <1>2, <1>3, <1>4, <1>5, <1>7, <1>8, <1>10, <1>11, <1>2 DEF IInv

\* a unit whose analysis begins is awaited instead of outdated or PO
LEMMA Begun ==
  ASSUME UnitsAssumption, IInv, phase = "analyze", visits = {},
         NEW edges, NEW recent, Grown(edges, recent), recent \subseteq known,
         NEW u \in Units, u \notin InProgress, u \in Marked \/ u \notin known,
         KindOf[u] # "type", u \notin DOMAIN ValueOf,
         Begin(u, edges, recent), UNCHANGED <<after, phase>>
  PROVE  IInv'
<1>c. /\ \A x \in Units : WaitsFor(x) = {y \in Units : <<x, y>> \in deps /\ y \in Marked \cup awaited}
      /\ \A x, y \in Units : <<x, y>> \in deps /\ y \in Marked \cup awaited => x \in Marked \cup fresh
      /\ stale \subseteq outdated /\ awaited \subseteq fresh /\ Marked \subseteq Units
  BY CalmFacts
<1>t. stack \in Seq(Units) /\ u \notin recent /\ u \notin awaited
  BY <1>c DEF IInv, TypeOK, KnownInv, Grown, Renewed, NotTwice, Marked
<1>s. /\ stack' = Append(stack, u) /\ Len(stack') = Len(stack) + 1 /\ Len(stack) \in Nat
      /\ \A i \in 1 .. Len(stack) : stack'[i] = stack[i] /\ stack[i] # u
      /\ stack'[Len(stack) + 1] = u
  <2>1. \A i \in 1 .. Len(stack) : stack[i] # u
    BY <1>t DEF InProgress, Range
  <2>2. QED
    BY <1>t, <2>1 DEF Begin
<1>m. /\ Marked' = Marked \ {u} /\ outdated' = outdated \ {u}
      /\ potentially_outdated' = potentially_outdated \ {u}
      /\ outdated_ready' = outdated_ready \ {u}
      /\ po_dep_count' = [po_dep_count EXCEPT ![u] = 0]
      /\ awaited' = IF u \in Marked THEN awaited \cup {u} ELSE awaited
      /\ (Marked \cup awaited)' = Marked \cup awaited
      /\ known' = known \cup {u} /\ fresh' = recent \cup {u} /\ stale' = stale \ {u}
      /\ visits' = {}
  BY DEF Begin, Unmark, Marked
<1>e. \A x \in Units, y \in Dependees :
         /\ x # u => (<<x, y>> \in deps' <=> <<x, y>> \in edges)
         /\ <<u, y>> \in deps' => <<u, y>> \in edges \/ y = SourceOf[u]
  BY DEF Begin, WithoutDeps
<1>y. early' \subseteq DOMAIN OwnerOf
  BY DEF Begin, IInv, TypeOK, UnitsAssumption
<1>z. SourceOf[u] \in Sources /\ SourceOf[u] \in Dependees /\ SourceOf[u] \notin Units
  BY DEF UnitsAssumption, Dependees
<1>1. TypeOK'
  <2>1. deps' \subseteq Units \X (Units \cup Sources)
    BY <1>z DEF Begin, WithoutDeps, Grown, Renewed, Dependees
  <2>2. stack' \in Seq(Units) /\ fresh' \subseteq Units /\ stale' \subseteq Units
    BY <1>t, <1>s, <1>m DEF IInv, TypeOK, Grown, Renewed
  <2>3. QED
    BY <1>m, <1>y, <2>1, <2>2 DEF IInv, TypeOK
<1>2. StackInv'
  <2>1. \A i, j \in 1 .. Len(stack') : stack'[i] = stack'[j] => i = j
    <3>1. \A i \in 1 .. Len(stack') : i \in 1 .. Len(stack) \/ i = Len(stack) + 1
      BY <1>s
    <3>2. QED
      BY <1>s, <3>1 DEF IInv, StackInv
  <2>2. \A i \in 1 .. Len(stack') :
           /\ stack'[i] \in fresh' /\ KindOf[stack'[i]] # "type" /\ stack'[i] \notin DOMAIN ValueOf
    <3>1. \A i \in 1 .. Len(stack') : i \in 1 .. Len(stack) \/ i = Len(stack) + 1
      BY <1>s
    <3>2. QED
      BY <1>s, <1>m, <3>1 DEF IInv, StackInv, Grown, Renewed
  <2>3. \A x \in awaited' : \E i \in 1 .. Len(stack') : stack'[i] = x
    <3>1. 1 .. Len(stack) \subseteq 1 .. Len(stack') /\ Len(stack) + 1 \in 1 .. Len(stack')
      BY <1>s
    <3>2. QED
      BY <1>s, <1>m, <3>1 DEF IInv, StackInv
  <2>4. QED
    BY <2>1, <2>2, <2>3 DEF StackInv
<1>3. PhaseInv' /\ VisitInv' /\ NotTwice'
  BY <1>m DEF PhaseInv, VisitInv, NotTwice, Grown, Renewed
<1>4. KnownInv'
  BY <1>m, <1>e, <1>z DEF IInv, KnownInv, Grown, Renewed
<1>5. Closed'
  <2>1. SUFFICES ASSUME NEW x \in Units, NEW y \in Units, <<x, y>> \in deps', y \in Marked \cup awaited
                 PROVE  x \in Marked' \cup fresh'
    BY <1>m DEF Closed
  <2>2. CASE x = u
    BY <2>2, <1>m
  <2>3. CASE x # u
    BY <2>1, <2>3, <1>c, <1>e, <1>m DEF Grown, Renewed, Dependees
  <2>4. QED
    BY <2>2, <2>3
<1>6. Disjoint'
  <2>1. outdated' \cap potentially_outdated' = {}
    BY <1>m DEF IInv, Disjoint
  <2>2. \A x \in Units \ Marked' : po_dep_count'[x] = 0
    BY <1>m DEF IInv, Disjoint, TypeOK
  <2>3. QED
    BY <2>1, <2>2 DEF Disjoint
<1>7. ASSUME NEW x \in Marked, x # u PROVE WaitsFor(x)' = WaitsFor(x)
  <2>1. x \in Units /\ \A y \in Units : <<x, y>> \in deps' <=> <<x, y>> \in deps
    BY <1>c, <1>e, <1>7 DEF Grown, Renewed, Dependees
  <2>2. WaitsFor(x)' = {y \in Units : <<x, y>> \in deps' /\ y \in Marked \cup awaited}
    BY <1>m DEF WaitsFor
  <2>3. QED
    BY <1>c, <2>1, <2>2
<1>8. CountsExact'
  <2>1. \A x \in Marked' : po_dep_count'[x] = Cardinality(WaitsFor(x)')
    BY <1>c, <1>m, <1>7 DEF IInv, CountsExact, TypeOK
  <2>2. outdated_ready' = {x \in outdated' : po_dep_count'[x] = 0}
    BY <1>m DEF IInv, CountsExact, TypeOK
  <2>3. QED
    BY <2>1, <2>2 DEF CountsExact
<1>9. StaleInv'
  BY <1>c, <1>m DEF StaleInv
<1>10. QED
  BY <1>1, <1>2, <1>3, <1>4, <1>5, <1>6, <1>8, <1>9 DEF IInv

LEMMA EnsureStep ==
  ASSUME UnitsAssumption, IInv, phase = "analyze", Calm,
         NEW edges, NEW recent, Grown(edges, recent), recent \subseteq known,
         NEW d \in Units, KindOf[d] # "comptime" \/ d \in known, Ensure(d, edges, recent)
  PROVE  IInv'
<1> DEFINE u == Resolver(d)
<1>u. u \in Units /\ u \notin DOMAIN ValueOf /\ (u \in known \/ KindOf[u] # "comptime")
  BY DEF Resolver, UnitsAssumption
<1>v. visits = {} /\ after = NoUnit
  BY DEF Calm
<1>s. SourceOf[u] \in Sources /\ SourceOf[u] \in Dependees /\ SourceOf[u] \notin Units
  BY <1>u DEF UnitsAssumption, Dependees
<1>a. after' \in Units \cup {NoUnit} /\ phase' = phase
  BY <1>v DEF Ensure
<1>k. /\ recent \subseteq known /\ known \subseteq Units
      /\ \A w \in Units, y \in Dependees : <<w, y>> \in edges => w \in known
  BY DEF Grown, Renewed, IInv, TypeOK, KnownInv
<1> HIDE DEF u
<1>1. CASE KindOf[u] # "type" /\ u \notin InProgress /\ (u \in Marked \/ u \notin known)
           /\ Begin(u, edges, recent)
  BY <1>1, <1>u, <1>v, <1>a, Begun DEF Ensure
<1>2. CASE KindOf[u] = "type" /\ u \in Marked /\ Recreate(u, edges, recent)
  BY <1>2, <1>s, <1>v, <1>a, Replaced DEF Recreate
<1>3. CASE KindOf[u] = "type" /\ u \notin known /\ Create(u, edges, recent)
  <2>1. /\ deps' = edges \cup {<<u, SourceOf[u]>>} /\ fresh' = recent \cup {u}
        /\ known' = known \cup {u}
        /\ UNCHANGED <<outdated, potentially_outdated, outdated_ready, po_dep_count, visits,
                       stack, awaited, early, stale>>
    BY <1>3 DEF Create, maps
  <2>2. u \notin Marked
    BY <1>3 DEF IInv, KnownInv
  <2>3. \A w \in Units, y \in Dependees : <<w, y>> \in deps' => w \in known'
    BY <2>1, <1>k
  <2>4. /\ deps' \subseteq Units \X Dependees /\ deps \subseteq deps' /\ fresh \subseteq fresh'
        /\ \A w \in Units, y \in Dependees :
              <<w, y>> \in deps' /\ <<w, y>> \notin deps =>
                  w \in fresh' /\ (y \in Units => KindOf[y] # "comptime")
    BY <2>1, <1>s, <1>u DEF Grown, Renewed
  <2>5. QED
    <3>1. Renewed(deps', fresh')
      BY <2>1, <2>2, <2>4 DEF Grown, Renewed
    <3>2. /\ fresh' \subseteq known' /\ known \subseteq known' /\ known' \subseteq Units
          /\ early' \subseteq DOMAIN OwnerOf
      BY <2>1, <1>k, <1>u DEF IInv, TypeOK
    <3>3. QED
      BY <2>1, <2>3, <3>1, <3>2, <1>v, <1>a, EdgesAdded
<1>4. CASE deps' = edges /\ fresh' = recent /\ UNCHANGED <<maps, stale, visits, stack, awaited, early, known>>
  <2>1. UNCHANGED <<outdated, potentially_outdated, outdated_ready, po_dep_count, visits,
                    stack, awaited, early, stale, known>>
    BY <1>4 DEF maps
  <2>2. Renewed(deps', fresh') /\ early' \subseteq DOMAIN OwnerOf
    BY <1>4, <2>1 DEF Grown, IInv, TypeOK
  <2>3. QED
    BY <1>4, <2>1, <2>2, <1>k, <1>v, <1>a, EdgesAdded
<1>5. QED
  BY <1>1, <1>2, <1>3, <1>4 DEF Ensure, u

----------------------------------------------------------------------------
(* The actions. *)

LEMMA TopFacts ==
  ASSUME IInv, stack # <<>>
  PROVE  /\ stack \in Seq(Units) /\ Len(stack) \in Nat /\ Len(stack) >= 1
         /\ Top = stack[Len(stack)] /\ Top \in fresh /\ Top \in known \ Marked
         /\ Top \in Units /\ Top \notin DOMAIN ValueOf
<1>1. stack \in Seq(Units) /\ Len(stack) \in Nat /\ Len(stack) >= 1 /\ fresh \subseteq Units
  BY DEF IInv, TypeOK
<1>2. Top = stack[Len(stack)] /\ Len(stack) \in 1 .. Len(stack)
  BY <1>1 DEF Top, Last
<1>3. Top \in fresh /\ Top \notin DOMAIN ValueOf
  BY <1>2 DEF IInv, StackInv
<1>4. QED
  BY <1>1, <1>2, <1>3 DEF IInv, KnownInv, NotTwice

LEMMA OwnerFacts ==
  ASSUME UnitsAssumption, IInv, NEW u \in early
  PROVE  u \in Units /\ OwnerOf[u] \in Units /\ KindOf[OwnerOf[u]] = "nav"
<1>1. u \in DOMAIN OwnerOf
  BY DEF IInv, TypeOK
<1>2. QED
  BY <1>1 DEF UnitsAssumption

LEMMA OwnerStep ==
  ASSUME UnitsAssumption, IInv, OwnerFirst
  PROVE  IInv'
<1>1. /\ Calm /\ phase = "analyze" /\ Top \in early
      /\ Ensure(OwnerOf[Top], deps, fresh)
  BY DEF OwnerFirst, Analysing
<1>2. Grown(deps, fresh) /\ fresh \subseteq known
  BY DEF Grown, Renewed, IInv, TypeOK, NotTwice, KnownInv, Dependees
<1>3. OwnerOf[Top] \in Units /\ KindOf[OwnerOf[Top]] # "comptime"
  BY <1>1, OwnerFacts
<1>4. QED
  BY <1>1, <1>2, <1>3, EnsureStep

\* the function whose body begins gives up its dependencies for those of the new body
LEMMA BodyStep ==
  ASSUME UnitsAssumption, IInv, BeginBody
  PROVE  IInv'
<1> DEFINE u == Top
<1>1. /\ visits = {} /\ phase = "analyze" /\ stack # <<>> /\ u \in early
      /\ early' = early \ {u}
      /\ deps' = WithoutDeps(u, deps) \cup {<<u, SourceOf[u]>>}
                 \cup (IF u \in Instances THEN {} ELSE {<<u, OwnerOf[u]>>})
      /\ UNCHANGED <<outdated, potentially_outdated, outdated_ready, po_dep_count, visits, stack,
                     awaited, after, known, phase, fresh, stale>>
  BY DEF BeginBody, Analysing, Calm, maps, history
<1>2. u \in fresh /\ u \in known
  BY <1>1, TopFacts
<1>o. u \in Units /\ OwnerOf[u] \in Units /\ KindOf[OwnerOf[u]] = "nav"
  BY <1>1, OwnerFacts
<1>s. SourceOf[u] \in Sources /\ SourceOf[u] \notin Units
  BY <1>o DEF UnitsAssumption
<1> HIDE DEF u
<1>r. \A w \in Units, y \in Dependees :
         /\ w # u => (<<w, y>> \in deps' <=> <<w, y>> \in deps)
         /\ <<w, y>> \in deps' /\ <<w, y>> \notin deps => w = u /\ y \in {SourceOf[u], OwnerOf[u]}
  BY <1>1 DEF WithoutDeps
<1>3. Renewed(deps', fresh')
  <2>1. deps' \subseteq Units \X Dependees
    BY <1>1, <1>o, <1>s DEF WithoutDeps, IInv, TypeOK, Dependees
  <2>2. fresh \subseteq fresh' /\ fresh' \cap Marked = {}
    BY <1>1 DEF IInv, NotTwice
  <2>3. QED
    BY <1>1, <1>2, <1>o, <1>s, <1>r, <2>1, <2>2 DEF Renewed
<1>4. \A w \in Units, y \in Dependees : <<w, y>> \in deps' => w \in known'
  BY <1>1, <1>2, <1>r DEF IInv, KnownInv
<1>5. /\ after' \in Units \cup {NoUnit} /\ early' \subseteq DOMAIN OwnerOf
      /\ known \subseteq known' /\ known' \subseteq Units /\ fresh' \subseteq known'
  BY <1>1 DEF IInv, TypeOK, KnownInv
<1>6. QED
  BY <1>1, <1>3, <1>4, <1>5, EdgesAdded

LEMMA UsesStep ==
  ASSUME UnitsAssumption, IInv, phase = "analyze", Calm,
         NEW u \in known \ Marked, NEW d \in Units, Uses(u, d)
  PROVE  IInv'
<1>1. u \in Units /\ KindOf[d] # "comptime"
  BY DEF IInv, TypeOK, Uses, UnitsAssumption
<1>2. Grown(deps \cup {<<u, d>>}, fresh \cup {u})
  BY <1>1 DEF Grown, Renewed, Dependees, IInv, TypeOK, NotTwice
<1>3. fresh \cup {u} \subseteq known
  BY DEF IInv, KnownInv
<1>4. QED
  BY <1>1, <1>2, <1>3, EnsureStep DEF Uses

LEMMA WorkStep ==
  ASSUME UnitsAssumption, IInv, Idle, NEW u \in Units, KindOf[u] # "comptime" \/ u \in known,
         Ensure(u, deps, fresh)
  PROVE  IInv'
<1>1. Grown(deps, fresh) /\ fresh \subseteq known
  BY DEF Grown, Renewed, IInv, TypeOK, NotTwice, KnownInv, Dependees
<1>2. QED
  BY <1>1, EnsureStep DEF Idle

LEMMA UnresolveStep ==
  ASSUME UnitsAssumption, IInv, NEW f \in Units, UnresolveIes(f)
  PROVE  IInv'
<1>t. TypeOK /\ f \in potentially_outdated /\ f \notin outdated
  BY DEF UnresolveIes, IInv, Disjoint
<1>1. /\ Marked' = Marked /\ outdated' = outdated \cup {f}
      /\ potentially_outdated' = potentially_outdated \ {f} /\ po_dep_count' = po_dep_count
      /\ outdated_ready' = IF po_dep_count[f] = 0 THEN outdated_ready \cup {f} ELSE outdated_ready
      /\ UNCHANGED <<deps, visits, stack, awaited, early, after, known, phase, fresh, stale>>
  BY <1>t DEF UnresolveIes, Marked, history
<1>2. TypeOK' /\ Disjoint'
  BY <1>1, <1>t DEF TypeOK, IInv, Disjoint
<1>3. StackInv' /\ PhaseInv' /\ KnownInv' /\ VisitInv' /\ Closed' /\ NotTwice' /\ StaleInv'
  BY <1>1 DEF IInv, StackInv, PhaseInv, KnownInv, VisitInv, Closed, NotTwice, StaleInv
<1>4. \A x \in Units : WaitsFor(x)' = WaitsFor(x)
  BY <1>1 DEF WaitsFor
<1>5. CountsExact'
  <2>1. \A x \in Marked' : po_dep_count'[x] = Cardinality(WaitsFor(x)')
    BY <1>1, <1>4, <1>t DEF IInv, CountsExact, TypeOK, Marked
  <2>2. outdated_ready' = {x \in outdated' : po_dep_count'[x] = 0}
    BY <1>1, <1>t DEF IInv, CountsExact
  <2>3. QED
    BY <2>1, <2>2 DEF CountsExact
<1>6. QED
  BY <1>2, <1>3, <1>5 DEF IInv

LEMMA Shorter ==
  ASSUME NEW n \in Nat, n >= 1
  PROVE  /\ (IF 1 <= n - 1 THEN n - 1 - 1 + 1 ELSE 0) = n - 1
         /\ n - 1 \in Int /\ 1 \in Int /\ n - 1 - 1 + 1 = n - 1
         /\ \A i \in 1 .. n - 1 : i \in 1 .. n /\ i # n /\ 1 + i - 1 = i
  OBVIOUS

LEMMA FrontFacts ==
  ASSUME NEW S, NEW s \in Seq(S), s # <<>>
  PROVE  /\ Front(s) \in Seq(S) /\ Len(Front(s)) = Len(s) - 1
         /\ \A i \in 1 .. Len(Front(s)) : Front(s)[i] = s[i] /\ i \in 1 .. Len(s) /\ i # Len(s)
<1> DEFINE n == Len(s)
<1>1. n \in Nat /\ n >= 1 /\ \A i \in 1 .. n : s[i] \in S
  OBVIOUS
<1> HIDE DEF n
<1>2. /\ (IF 1 <= n - 1 THEN n - 1 - 1 + 1 ELSE 0) = n - 1
      /\ n - 1 \in Int /\ 1 \in Int /\ n - 1 - 1 + 1 = n - 1
      /\ \A i \in 1 .. n - 1 : i \in 1 .. n /\ i # n /\ 1 + i - 1 = i
  BY <1>1, Shorter
<1>3. \A i \in 1 .. n - 1 : s[i] \in S
  BY <1>1, <1>2
<1>4. /\ SubSeq(s, 1, n - 1) \in Seq(S)
      /\ Len(SubSeq(s, 1, n - 1)) = IF 1 <= n - 1 THEN n - 1 - 1 + 1 ELSE 0
      /\ \A i \in 1 .. n - 1 - 1 + 1 : SubSeq(s, 1, n - 1)[i] = s[1 + i - 1]
  BY <1>2, <1>3, SubSeqProperties
<1>5. Front(s) = SubSeq(s, 1, n - 1)
  BY DEF Front, n
<1>6. Len(Front(s)) = n - 1 /\ Front(s) \in Seq(S)
  BY <1>2, <1>4, <1>5
<1>7. \A i \in 1 .. n - 1 : Front(s)[i] = s[i]
  BY <1>2, <1>4, <1>5
<1>8. QED
  BY <1>2, <1>6, <1>7 DEF n

\* the verdict about the unit whose analysis ends is on its way to all its dependers
LEMMA FinishStep ==
  ASSUME UnitsAssumption, IInv, NEW changed \in BOOLEAN, Finish(changed)
  PROVE  IInv'
<1> DEFINE u == Top
           k == IF changed THEN "outdated" ELSE "up_to_date"
<1>v. visits = {} /\ phase = "analyze" /\ stack # <<>> /\ after = NoUnit
  BY DEF Finish, Analysing, Calm
<1>c. /\ \A x \in Units : WaitsFor(x) = {y \in Units : <<x, y>> \in deps /\ y \in Marked \cup awaited}
      /\ \A x, y \in Units : <<x, y>> \in deps /\ y \in Marked \cup awaited => x \in Marked \cup fresh
      /\ stale \subseteq outdated /\ Marked \subseteq Units
  BY <1>v, CalmFacts
<1>t. /\ stack \in Seq(Units) /\ Len(stack) \in Nat /\ Len(stack) >= 1
      /\ u = stack[Len(stack)] /\ u \in known \ Marked /\ u \in Units
  BY <1>v, TopFacts
<1>m. /\ UNCHANGED <<outdated, potentially_outdated, outdated_ready, po_dep_count, deps, known, phase, fresh>>
      /\ Marked' = Marked /\ awaited' = awaited \ {u}
      /\ visits' = IF u \in awaited THEN Visit(k, u, deps) ELSE {}
      /\ stale' = IF u \in awaited /\ changed THEN stale \cup (Dependers(u, deps) \ fresh) ELSE stale
      /\ after' \in {u, NoUnit}
      /\ stack' = Front(stack) /\ early' \subseteq early
  BY DEF Finish, maps, Marked
<1> HIDE DEF u
<1>s. /\ stack' \in Seq(Units) /\ Len(stack') = Len(stack) - 1
      /\ \A i \in 1 .. Len(stack') : stack'[i] = stack[i] /\ i \in 1 .. Len(stack) /\ i # Len(stack)
  BY <1>t, <1>m, <1>v, FrontFacts
<1>w. \A x \in Units, y \in Dependees :
         /\ <<"po", x, y>> \notin visits' /\ <<"edited", x, y>> \notin visits'
         /\ <<"outdated", x, y>> \in visits' <=> u \in awaited /\ changed /\ y = u /\ <<x, u>> \in deps
         /\ <<"up_to_date", x, y>> \in visits' <=> u \in awaited /\ ~changed /\ y = u /\ <<x, u>> \in deps
  BY <1>m DEF Visit, Dependers
<1>1. TypeOK'
  <2>1. Visit(k, u, deps) \subseteq {"edited", "po", "outdated", "up_to_date"} \X Units \X (Units \cup Sources)
    BY <1>t, VisitType DEF Dependees
  <2>2. stale' \subseteq Units
    BY <1>m DEF IInv, TypeOK, Dependers
  <2>3. QED
    BY <1>t, <1>m, <1>s, <2>1, <2>2 DEF IInv, TypeOK
<1>2. StackInv'
  <2>1. \A i, j \in 1 .. Len(stack') : stack'[i] = stack'[j] => i = j
    BY <1>s DEF IInv, StackInv
  <2>2. \A i \in 1 .. Len(stack') :
           /\ stack'[i] \in fresh' /\ KindOf[stack'[i]] # "type" /\ stack'[i] \notin DOMAIN ValueOf
    BY <1>s, <1>m DEF IInv, StackInv
  <2>3. ASSUME NEW x \in awaited' PROVE \E i \in 1 .. Len(stack') : stack'[i] = x
    <3>1. PICK i \in 1 .. Len(stack) : stack[i] = x
      BY <1>m DEF IInv, StackInv
    <3>2. i # Len(stack) /\ i \in 1 .. Len(stack')
      BY <3>1, <1>t, <1>m, <1>s
    <3>3. QED
      BY <3>1, <3>2, <1>s
  <2>4. QED
    BY <2>1, <2>2, <2>3 DEF StackInv
<1>3. PhaseInv'
  BY <1>v, <1>m, <1>w DEF PhaseInv
<1>4. KnownInv' /\ Disjoint' /\ NotTwice'
  BY <1>m DEF IInv, KnownInv, Disjoint, NotTwice
<1>5. VisitInv'
  BY <1>t, <1>m, <1>w DEF VisitInv
<1>6. Closed'
  BY <1>c, <1>m DEF Closed
<1>7. ASSUME NEW x \in Units PROVE WaitsFor(x)' = WaitsFor(x)
  <2>1. ASSUME NEW y \in Units PROVE y \in WaitsFor(x)' <=> y \in WaitsFor(x)
    <3>1. y \in WaitsFor(x) <=> <<x, y>> \in deps /\ y \in Marked \cup awaited
      BY <1>c
    <3>2. y \in WaitsFor(x)' <=>
             /\ <<x, y>> \in deps
             /\ y \in Marked \cup (awaited \ {u}) \/ (u \in awaited /\ y = u)
      BY <1>m, <1>w DEF WaitsFor, Dependees
    <3>3. QED
      BY <3>1, <3>2, <1>t
  <2>2. QED
    BY <2>1 DEF WaitsFor
<1>8. CountsExact'
  BY <1>c, <1>m, <1>7 DEF IInv, CountsExact
<1>9. StaleInv'
  <2>1. SUFFICES ASSUME NEW x \in stale'
                 PROVE  \/ x \in outdated
                        \/ /\ x \in potentially_outdated
                           /\ \E y \in Units : <<"outdated", x, y>> \in visits'
    BY <1>m DEF StaleInv
  <2>2. CASE x \in stale
    BY <2>2, <1>c
  <2>3. CASE x \notin stale
    <3>1. x \in Units /\ <<x, u>> \in deps /\ x \notin fresh /\ u \in awaited /\ changed
      BY <2>1, <2>3, <1>m DEF Dependers
    <3>2. x \in Marked /\ <<"outdated", x, u>> \in visits'
      BY <3>1, <1>c, <1>t, <1>w DEF Dependees
    <3>3. QED
      BY <3>2, <1>t DEF Marked
  <2>4. QED
    BY <2>2, <2>3
<1>10. QED
  BY <1>1, <1>2, <1>3, <1>4, <1>5, <1>6, <1>8, <1>9 DEF IInv

LEMMA TypeOfStep ==
  ASSUME UnitsAssumption, IInv, NEW t \in DOMAIN ValueOf, ResolveTypeOf(t)
  PROVE  IInv'
<1>1. t \in Units /\ after \in Units \ {NoUnit} /\ KindOf[after] = "nav" /\ after \in Dependees
  BY DEF ResolveTypeOf, UnitsAssumption, Dependees
<1>2. visits = {} /\ phase = "analyze" /\ phase' = phase /\ stack' = stack /\ awaited' = awaited /\ early' = early
  BY <1>1 DEF ResolveTypeOf, IInv, PhaseInv, TypeOK
<1>3. Grown(deps, fresh) /\ fresh \subseteq known /\ known \subseteq Units
  BY DEF Grown, Renewed, IInv, TypeOK, NotTwice, KnownInv, Dependees
<1>4. CASE t \in Marked
  <2>1. known' = known
    BY <1>4 DEF ResolveTypeOf, IInv, KnownInv
  <2>2. QED
    BY <1>1, <1>2, <1>3, <1>4, <2>1, Replaced DEF ResolveTypeOf
<1>5. CASE t \notin Marked
  <2>1. /\ deps' = deps \cup {<<t, after>>} /\ fresh' = fresh \cup {t} /\ known' = known \cup {t}
        /\ UNCHANGED <<visits, stale, stack, awaited, phase>> /\ after' = NoUnit
    BY <1>5 DEF ResolveTypeOf
  <2>2. UNCHANGED <<outdated, potentially_outdated, outdated_ready, po_dep_count>>
    <3>1. outdated_ready \subseteq outdated /\ po_dep_count[t] = 0 /\ po_dep_count \in [Units -> Nat]
      BY <1>1, <1>5 DEF IInv, CountsExact, Disjoint, TypeOK
    <3>2. QED
      BY <1>5, <3>1 DEF ResolveTypeOf, Unmark, Marked
  <2>3. Renewed(deps', fresh') /\ early' \subseteq DOMAIN OwnerOf
    BY <1>1, <1>2, <1>3, <1>5, <2>1 DEF Grown, Renewed, IInv, TypeOK
  <2>4. \A w \in Units, y \in Dependees : <<w, y>> \in deps' => w \in known'
    BY <2>1 DEF IInv, KnownInv
  <2>5. QED
    BY <1>1, <1>2, <1>3, <2>1, <2>2, <2>3, <2>4, EdgesAdded
<1>6. QED
  BY <1>4, <1>5

\* when nothing is outdated the PO units are forgotten: nothing stale is among them
LEMMA NothingStep ==
  ASSUME UnitsAssumption, IInv, FindNothing
  PROVE  IInv'
<1>1. /\ visits = {} /\ after = NoUnit /\ stack = <<>> /\ outdated = {}
      /\ Marked' = {} /\ potentially_outdated' = {} /\ phase' = "edit" /\ fresh' = {}
      /\ po_dep_count' = [u \in Units |-> 0]
      /\ UNCHANGED <<outdated, outdated_ready, stale, deps, visits, stack, awaited, early, after, known>>
  BY DEF FindNothing, Idle, Calm, Marked
<1>2. awaited = {} /\ stale = {} /\ outdated_ready = {}
  BY <1>1 DEF IInv, StackInv, StaleInv, CountsExact
<1>3. TypeOK' /\ StackInv' /\ PhaseInv'
  BY <1>1, <1>2 DEF IInv, TypeOK, StackInv, PhaseInv
<1>4. KnownInv' /\ VisitInv' /\ Closed' /\ Disjoint' /\ NotTwice' /\ StaleInv'
  BY <1>1, <1>2 DEF IInv, KnownInv, VisitInv, Closed, Disjoint, NotTwice, StaleInv
<1>5. CountsExact'
  BY <1>1, <1>2 DEF CountsExact
<1>6. QED
  BY <1>3, <1>4, <1>5 DEF IInv

LEMMA EditStep ==
  ASSUME UnitsAssumption, IInv, NEW s \in Sources, Edit(s)
  PROVE  IInv'
<1>1. /\ phase = "edit" /\ visits = {} /\ visits' = Visit("edited", s, deps)
      /\ stale' = stale \cup Dependers(s, deps) /\ Marked' = Marked
      /\ UNCHANGED <<outdated, potentially_outdated, outdated_ready, po_dep_count, deps, stack,
                     awaited, early, after, known, phase, fresh>>
  BY DEF Edit, maps, Marked
<1>2. \A x \in Units, y \in Dependees :
         /\ <<"po", x, y>> \notin visits' /\ <<"outdated", x, y>> \notin visits'
         /\ <<"up_to_date", x, y>> \notin visits'
         /\ <<"edited", x, y>> \in visits' <=> y = s /\ <<x, s>> \in deps
  BY <1>1 DEF Visit, Dependers
<1>3. TypeOK'
  <2>1. Visit("edited", s, deps) \subseteq {"edited", "po", "outdated", "up_to_date"} \X Units \X (Units \cup Sources)
    BY VisitType DEF Dependees
  <2>2. stale' \subseteq Units
    BY <1>1 DEF IInv, TypeOK, Dependers
  <2>3. QED
    BY <1>1, <2>1, <2>2 DEF IInv, TypeOK
<1>4. StackInv' /\ KnownInv' /\ Disjoint' /\ NotTwice'
  BY <1>1 DEF IInv, StackInv, KnownInv, Disjoint, NotTwice
<1>5. PhaseInv'
  BY <1>1, <1>2 DEF IInv, PhaseInv
<1>6. VisitInv'
  BY <1>1, <1>2 DEF IInv, VisitInv, KnownInv
<1>7. Closed'
  BY <1>1 DEF IInv, Closed
<1>8. \A x \in Units : WaitsFor(x)' = WaitsFor(x)
  BY <1>1, <1>2 DEF WaitsFor, Dependees
<1>9. CountsExact'
  BY <1>1, <1>8 DEF IInv, CountsExact, TypeOK, Marked
<1>10. StaleInv'
  <2>1. SUFFICES ASSUME NEW x \in stale'
                 PROVE  x \in outdated \/ \E y \in Sources : <<"edited", x, y>> \in visits'
    BY <1>1 DEF StaleInv
  <2>2. CASE x \in stale
    BY <2>2, <1>1 DEF IInv, StaleInv
  <2>3. CASE x \in Dependers(s, deps)
    BY <2>3, <1>2 DEF Dependers, Dependees
  <2>4. QED
    BY <2>2, <2>3, <1>1
<1>11. QED
  BY <1>3, <1>4, <1>5, <1>6, <1>7, <1>9, <1>10 DEF IInv

LEMMA ComptimeStep ==
  ASSUME UnitsAssumption, IInv, NEW c \in Units, NewComptime(c)
  PROVE  IInv'
<1>1. /\ visits = {} /\ KindOf[c] = "comptime" /\ c \notin known
      /\ known' = known \cup {c} /\ outdated' = outdated \cup {c} /\ Marked' = Marked \cup {c}
      /\ outdated_ready' = outdated_ready \cup {c}
      /\ UNCHANGED <<potentially_outdated, po_dep_count, deps, visits, stack, awaited, early, after,
                     phase, fresh, stale>>
  BY DEF NewComptime, Calm, InBody, Analysing, Marked, history
<1>2. /\ c \notin Marked /\ c \notin fresh /\ po_dep_count[c] = 0
      /\ \A y \in Dependees : <<c, y>> \notin deps
      /\ \A x \in Units : <<x, c>> \notin deps
  BY <1>1 DEF IInv, KnownInv, Disjoint, Dependees
<1>3. TypeOK' /\ StackInv' /\ PhaseInv' /\ VisitInv'
  BY <1>1 DEF IInv, TypeOK, StackInv, PhaseInv, VisitInv
<1>4. KnownInv' /\ Disjoint' /\ NotTwice'
  BY <1>1, <1>2 DEF IInv, KnownInv, Disjoint, NotTwice, Marked
<1>5. Closed'
  BY <1>1, <1>2 DEF IInv, Closed
<1>6. \A x \in Units : WaitsFor(x)' = WaitsFor(x)
  BY <1>1, <1>2 DEF WaitsFor
<1>7. WaitsFor(c) = {}
  BY <1>2 DEF WaitsFor, Dependees
<1>8. CountsExact'
  <2>1. \A x \in Marked' : po_dep_count'[x] = Cardinality(WaitsFor(x)')
    BY <1>1, <1>2, <1>6, <1>7, EmptyCount DEF IInv, CountsExact, TypeOK, Marked
  <2>2. outdated_ready' = {x \in outdated' : po_dep_count'[x] = 0}
    BY <1>1, <1>2 DEF IInv, CountsExact
  <2>3. QED
    BY <2>1, <2>2 DEF CountsExact
<1>9. StaleInv'
  BY <1>1 DEF IInv, StaleInv
<1>10. QED
  BY <1>3, <1>4, <1>5, <1>8, <1>9 DEF IInv

LEMMA StartStep ==
  ASSUME IInv, StartAnalysis
  PROVE  IInv'
<1>1. /\ visits = {} /\ phase' = "analyze" /\ Marked' = Marked
      /\ UNCHANGED <<outdated, potentially_outdated, outdated_ready, po_dep_count, deps, visits,
                     stack, awaited, early, after, known, fresh, stale>>
  BY DEF StartAnalysis, maps, history, Marked
<1>2. CountsExact'
  BY <1>1 DEF IInv, CountsExact, WaitsFor
<1>3. QED
  BY <1>1, <1>2 DEF IInv, TypeOK, StackInv, PhaseInv, KnownInv, VisitInv, Closed, Disjoint,
                    NotTwice, StaleInv

LEMMA InitInv ==
  ASSUME UnitsAssumption, Init
  PROVE  IInv
<1>1. TypeOK /\ Marked = {}
  BY DEF Init, TypeOK, Marked
<1>2. StackInv /\ PhaseInv /\ KnownInv /\ VisitInv /\ Closed /\ Disjoint
  BY <1>1 DEF Init, StackInv, PhaseInv, KnownInv, VisitInv, Closed, Disjoint
<1>3. CountsExact /\ NotTwice /\ StaleInv
  BY <1>1 DEF Init, CountsExact, NotTwice, StaleInv
<1>4. QED
  BY <1>1, <1>2, <1>3 DEF IInv

LEMMA StutterInv ==
  ASSUME IInv, UNCHANGED vars
  PROVE  IInv'
<1>1. /\ UNCHANGED <<outdated, potentially_outdated, outdated_ready, po_dep_count, deps, visits,
                     stack, awaited, early, after, known, phase, fresh, stale>>
      /\ Marked' = Marked
  BY DEF vars, maps, history, Marked
<1>2. CountsExact'
  BY <1>1 DEF IInv, CountsExact, WaitsFor
<1>3. QED
  BY <1>1, <1>2 DEF IInv, TypeOK, StackInv, PhaseInv, KnownInv, VisitInv, Closed, Disjoint,
                    NotTwice, StaleInv

LEMMA NextInv ==
  ASSUME UnitsAssumption, IInv, Next
  PROVE  IInv'
<1>1. CASE VisitNext
  <2>1. PICK w \in Units, d \in Dependees :
           VisitEdited(w, d) \/ VisitPo(w, d) \/ VisitOutdated(w, d) \/ VisitUpToDate(w, d)
    BY <1>1 DEF VisitNext, Dependees
  <2>2. Frame
    BY <1>1 DEF VisitNext, Frame
  <2>3. CASE VisitEdited(w, d)
    BY <2>2, <2>3, EditedStep
  <2>4. CASE VisitPo(w, d)
    BY <2>2, <2>4, PoStep
  <2>5. CASE VisitOutdated(w, d)
    BY <2>2, <2>5, OutdatedStep
  <2>6. CASE VisitUpToDate(w, d)
    BY <2>2, <2>6, UpToDateStep
  <2>7. QED
    BY <2>1, <2>3, <2>4, <2>5, <2>6
<1>2. ASSUME NEW d \in Units, Declare(d) PROVE IInv'
  <2>1. Top \in known \ Marked
    BY <1>2, TopFacts DEF Declare, InBody, Analysing
  <2>2. QED
    BY <1>2, <2>1, UsesStep DEF Declare, InBody, Analysing
<1>3. ASSUME NEW t \in Units, NEW d \in Units, ResolveField(t, d) PROVE IInv'
  BY <1>3, UsesStep DEF ResolveField, Idle, InBody, Analysing
<1>4. ASSUME NEW f \in Units, UnresolveIes(f) PROVE IInv'
  BY <1>4, UnresolveStep
<1>5. ASSUME NEW changed \in BOOLEAN, Finish(changed) PROVE IInv'
  BY <1>5, FinishStep
<1>6. ASSUME NEW t \in DOMAIN ValueOf, ResolveTypeOf(t) PROVE IInv'
  BY <1>6, TypeOfStep
<1>7. ASSUME NEW u \in Units, Job(u) PROVE IInv'
  BY <1>7, WorkStep DEF Job
<1>8. CASE FindReady
  <2>1. PICK u \in outdated_ready : Ensure(u, deps, fresh)
    BY <1>8 DEF FindReady
  <2>2. u \in Units /\ u \in known
    BY <2>1 DEF IInv, TypeOK, CountsExact, KnownInv, Marked
  <2>3. QED
    BY <1>8, <2>1, <2>2, WorkStep DEF FindReady
<1>9. CASE FindInLoop
  <2>1. PICK u \in Candidates : Ensure(u, deps, fresh)
    BY <1>9 DEF FindInLoop
  <2>2. u \in Units /\ u \in known
    BY <2>1 DEF IInv, TypeOK, KnownInv, Marked, Candidates
  <2>3. QED
    BY <1>9, <2>1, <2>2, WorkStep DEF FindInLoop
<1>10. CASE FindNothing
  BY <1>10, NothingStep
<1>11. ASSUME NEW s \in Sources, Edit(s) PROVE IInv'
  BY <1>11, EditStep
<1>12. ASSUME NEW u \in Units, NewComptime(u) PROVE IInv'
  BY <1>12, ComptimeStep
<1>13. CASE StartAnalysis
  BY <1>13, StartStep
<1>16. OwnerFirst \/ BeginBody => IInv'
  BY OwnerStep, BodyStep
<1>14. CASE Progress
  BY <1>14, <1>16, <1>1, <1>5, <1>6, <1>8, <1>9, <1>10 DEF Progress
<1>15. QED
  BY <1>2, <1>3, <1>4, <1>7, <1>11, <1>12, <1>13, <1>14 DEF Next

\* The inductive invariant holds of every update, however units depend on each other.
THEOREM Invariance == ASSUME UnitsAssumption PROVE Spec => []IInv
<1>1. Init => IInv
  BY InitInv
<1>2. IInv /\ [Next]_vars => IInv'
  BY NextInv, StutterInv
<1>3. QED
  BY <1>1, <1>2, PTL DEF Spec

\* In the middle of every marking the count of a unit is the number of the dependees it
\* waits for, and outdated_ready is what waits for none: "the PO dependency count" of
\* Zcu.zig:249 neither drifts nor underflows, whatever the dependency graph.
THEOREM Counted == Spec => []CountsExact
<1>1. IInv => CountsExact
  BY DEF IInv
<1>2. QED
  BY <1>1, Invariance, UnitsAssumption, PTL

\* No unit that was analysed in an update is outdated or PO in the same update again.
THEOREM AnalysedOnce == Spec => []NotTwice
<1>1. IInv => NotTwice
  BY DEF IInv
<1>2. QED
  BY <1>1, Invariance, UnitsAssumption, PTL

\* A unit that read something which changed since is outdated once the marking is done, so
\* findOutdatedToAnalyze may forget the PO units when nothing is outdated (Zcu.zig:3170).
THEOREM NoneMissed == Spec => []NothingStale
<1>1. IInv => NothingStale
  BY DEF IInv, StaleInv, NothingStale
<1>2. QED
  BY <1>1, Invariance, UnitsAssumption, PTL
=============================================================================
