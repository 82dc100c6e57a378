------------------------------ MODULE GraphProofs -----------------------------
(***************************************************************************)
(* Theorems about module Graph, for every finite set of names and every    *)
(* set of unit files: Kahn's loop emits no unit ahead of one that precedes *)
(* it, a plan holds every wanted unit, an order is refused only if some    *)
(* units really precede one another, and the walk that reports them ends.  *)
(*                                                                         *)
(* What makes the loop right is that remaining counts, for each unit, the  *)
(* units before it that are still to be emitted (Waiting), and that a unit *)
(* that waits for nothing is ready or out.                                 *)
(***************************************************************************)
EXTENDS Graph, Foundations

Waiting(n) == Before(n) \ Range(order)

Closed(S) ==
    /\ Root \in S
    /\ \A n \in S : in.requires[n] \cup (in.wants[n] \cap in.units) \subseteq S

Shape ==
    /\ in \in UnitSet
    /\ seen \subseteq in.units
    /\ todo \subseteq in.units
    /\ ready \subseteq seen
    /\ order \in Seq(seen)
    /\ phase \in {"reach", "check"} => order = <<>> /\ ready = {}
    /\ phase # "end" => result = "none" /\ Root \in in.units

(* What reachable keeps: nothing pulled in is forgotten, nothing else is in. *)
Reaching ==
    /\ Root \in in.units => Root \in seen \cup todo
    /\ \A n \in seen : in.requires[n] \cup (in.wants[n] \cap in.units) \subseteq seen \cup todo
    /\ \A S \in SUBSET in.units : Closed(S) => seen \cup todo \subseteq S
    /\ phase \in {"check", "sort", "trace"} => todo = {}

(* What Kahn's loop keeps: remaining counts what a unit waits for, and a     *)
(* ready unit waits for nothing and was not emitted.                         *)
Sorting ==
    phase = "sort" =>
        /\ remaining \in [seen -> Nat]
        /\ \A n \in seen : remaining[n] = Cardinality(Waiting(n))
        /\ \A n \in ready : Waiting(n) = {} /\ n \notin Range(order)

Ordered ==
    \A i \in DOMAIN order : \A p \in seen :
        <<p, order[i]>> \in Edges => \E j \in 1..(i - 1) : order[j] = p

Distinct ==
    /\ Len(order) = Cardinality(Range(order))
    /\ \A i, j \in DOMAIN order : order[i] = order[j] => i = j

Complete ==
    result = "Plan" => Range(order) = seen /\ todo = {} /\ Root \in in.units

IInv == Shape /\ Reaching /\ Sorting /\ Ordered /\ Distinct /\ Complete

-------------------------------------------------------------------------------
(* Facts about finite sets and sequences                                     *)

(* Appending e adds e to what the sequence holds, after all of it.           *)
LEMMA AppendFacts ==
    ASSUME NEW S, NEW s \in Seq(S), NEW e \in S
    PROVE  /\ Append(s, e) \in Seq(S)
           /\ DOMAIN Append(s, e) = 1..(Len(s) + 1)
           /\ \A i \in 1..Len(s) : Append(s, e)[i] = s[i]
           /\ Append(s, e)[Len(s) + 1] = e
           /\ Range(Append(s, e)) = Range(s) \cup {e}
<1>1. /\ Append(s, e) \in Seq(S)
      /\ Len(Append(s, e)) = Len(s) + 1
      /\ Len(s) \in Nat
      /\ \A i \in 1..Len(s) : Append(s, e)[i] = s[i]
      /\ Append(s, e)[Len(s) + 1] = e
  OBVIOUS
<1>2. DOMAIN Append(s, e) = 1..(Len(s) + 1) /\ DOMAIN s = 1..Len(s)
  BY <1>1
<1>3. Range(Append(s, e)) \subseteq Range(s) \cup {e}
  BY <1>1, <1>2 DEF Range
<1>4. Range(s) \subseteq Range(Append(s, e))
  BY <1>1, <1>2 DEF Range
<1>5. e \in Range(Append(s, e))
  BY <1>1, <1>2 DEF Range
<1>6. QED
  BY <1>1, <1>2, <1>3, <1>4, <1>5

(* Everything counted here is finite.                                        *)
LEMMA Finite ==
    ASSUME Shape
    PROVE  IsFiniteSet(seen) /\ \A S \in SUBSET seen : IsFiniteSet(S)
<1>1. seen \in SUBSET Names
  BY DEF Shape, UnitSet
<1>2. IsFiniteSet(seen)
  BY <1>1, GraphAssumption, FS_Subset
<1>3. QED
  BY <1>2, FS_Subset

-------------------------------------------------------------------------------
(* The initial states and each step                                          *)

LEMMA InitIInv == Init => IInv
<1>. SUFFICES ASSUME Init PROVE IInv
  OBVIOUS
<1>1. in \in UnitSet
  BY GraphAssumption DEF Init
<1>2. Range(order) = {} /\ Cardinality({}) = 0 /\ Len(order) = 0
  BY FS_EmptySet DEF Init, Range
<1>3. Shape
  BY <1>1 DEF Init, Shape
<1>4. Reaching
  BY <1>1 DEF Init, Reaching, Closed
<1>5. Sorting /\ Ordered /\ Complete
  BY DEF Init, Sorting, Ordered, Complete
<1>6. Distinct
  <2>1. DOMAIN order = {}
    BY DEF Init
  <2>2. QED
    BY <1>2, <2>1 DEF Distinct
<1>7. QED
  BY <1>3, <1>4, <1>5, <1>6 DEF IInv

(* A refusal leaves all but the result alone.                                *)
LEMMA FailsKeepsIInv ==
    ASSUME IInv, NEW error \in Error, Fails(error), phase # "end"
    PROVE  IInv'
<1>1. Shape'
  BY DEF IInv, Shape, Fails
<1>2. Reaching'
  BY DEF IInv, Reaching, Fails, Closed
<1>3. Sorting' /\ Complete'
  BY DEF Fails, Sorting, Complete, Error
<1>4. Ordered' /\ Distinct'
  BY DEF IInv, Ordered, Distinct, Fails, Before, Edges, Range
<1>5. QED
  BY <1>1, <1>2, <1>3, <1>4 DEF IInv

LEMMA VisitKeepsIInv ==
    ASSUME IInv, Visit
    PROVE  IInv'
<1>1. PICK n \in todo :
        IF in.requires[n] \subseteq in.units
        THEN /\ seen' = seen \cup {n}
             /\ todo' = (todo \cup Pulled(n)) \ seen'
             /\ UNCHANGED <<in, phase, ready, remaining, order, path, result>>
        ELSE Fails("MissingRequires")
  BY DEF Visit
<1>2. CASE ~(in.requires[n] \subseteq in.units)
  BY <1>1, <1>2, FailsKeepsIInv DEF Visit, Error
<1>3. CASE in.requires[n] \subseteq in.units
  <2>1. /\ seen' = seen \cup {n}
        /\ todo' = (todo \cup Pulled(n)) \ seen'
        /\ UNCHANGED <<in, phase, ready, remaining, order, path, result>>
    BY <1>1, <1>3
  <2>2. phase = "reach" /\ order = <<>> /\ ready = {}
    BY DEF Visit, IInv, Shape
  <2>3. Shape'
    BY <1>3, <2>1, <2>2 DEF IInv, Shape, Pulled
  <2>4. Reaching'
    <3>1. \A S \in SUBSET in.units : Closed(S) => seen' \cup todo' \subseteq S
      BY <1>3, <2>1 DEF IInv, Reaching, Closed, Pulled
    <3>2. \A m \in seen' : in.requires[m] \cup (in.wants[m] \cap in.units) \subseteq seen' \cup todo'
      BY <1>3, <2>1 DEF IInv, Reaching, Pulled
    <3>3. QED
      BY <2>1, <2>2, <3>1, <3>2 DEF IInv, Reaching, Closed
  <2>5. Sorting' /\ Ordered' /\ Distinct' /\ Complete'
    BY <2>1, <2>2 DEF IInv, Shape, Sorting, Ordered, Distinct, Complete, Range
  <2>6. QED
    BY <2>3, <2>4, <2>5 DEF IInv
<1>4. QED
  BY <1>2, <1>3

LEMMA ReachedKeepsIInv ==
    ASSUME IInv, Reached
    PROVE  IInv'
<1>1. Shape' /\ Reaching' /\ Sorting' /\ Complete'
  BY DEF Reached, IInv, Shape, Reaching, Sorting, Complete, Closed, Range
<1>2. Ordered' /\ Distinct'
  BY DEF Reached, IInv, Ordered, Distinct, Before, Edges, Range
<1>3. QED
  BY <1>1, <1>2 DEF IInv

LEMMA CheckKeepsIInv ==
    ASSUME IInv, Check
    PROVE  IInv'
<1>1. CASE \E error \in Error : Fails(error)
  BY <1>1, FailsKeepsIInv DEF Check
<1>2. CASE /\ phase' = "sort"
           /\ remaining' = [n \in seen |-> InDegree(n)]
           /\ ready' = {n \in seen : InDegree(n) = 0}
           /\ UNCHANGED <<in, seen, todo, order, path, result>>
  <2>1. Shape' /\ Reaching' /\ Complete'
    BY <1>2 DEF Check, IInv, Shape, Reaching, Complete, Closed, Range
  <2>2. Ordered' /\ Distinct'
    BY <1>2 DEF IInv, Ordered, Distinct, Before, Edges, Range
  <2>3. order = <<>> /\ Range(order) = {} /\ Range(order') = {}
    BY <1>2 DEF Check, IInv, Shape, Range
  <2>4. \A n \in seen : Waiting(n)' = Before(n) /\ IsFiniteSet(Before(n))
    BY <1>2, <2>3, Finite DEF IInv, Waiting, Before, Edges
  <2>5. \A n \in seen : InDegree(n) \in Nat /\ (InDegree(n) = 0 <=> Before(n) = {})
    BY <2>4, FS_CardinalityType, FS_EmptySet DEF InDegree
  <2>6. Sorting'
    BY <1>2, <2>3, <2>4, <2>5 DEF Sorting, InDegree
  <2>7. QED
    BY <2>1, <2>2, <2>6 DEF IInv
<1>3. QED
  BY <1>1, <1>2 DEF Check, Error

(* Emitting n: what waited for n waits for one unit less, and what is freed  *)
(* waits for none.                                                           *)
LEMMA EmitKeepsIInv ==
    ASSUME IInv, Emit
    PROVE  IInv'
<1>1. PICK n \in ready :
        /\ order' = Append(order, n)
        /\ remaining' = Decremented(n)
        /\ ready' = (ready \ {n}) \cup Freed(n)
  BY DEF Emit
<1>2. /\ phase = "sort" /\ phase' = "sort"
      /\ UNCHANGED <<in, seen, todo, path, result>>
  BY DEF Emit
<1>3. n \in seen /\ Waiting(n) = {} /\ n \notin Range(order)
  BY <1>2 DEF IInv, Shape, Sorting
<1>4. order \in Seq(seen)
  BY DEF IInv, Shape
<1>5. /\ order' \in Seq(seen)
      /\ DOMAIN order' = 1..(Len(order) + 1) /\ DOMAIN order = 1..Len(order)
      /\ Len(order) \in Nat /\ Len(order') = Len(order) + 1
      /\ \A i \in 1..Len(order) : order'[i] = order[i]
      /\ order'[Len(order) + 1] = n
      /\ Range(order') = Range(order) \cup {n}
  BY <1>1, <1>3, <1>4, AppendFacts
<1>6. \A m \in seen : Before(m)' = Before(m) /\ Before(m) \in SUBSET seen
  BY <1>2 DEF Before, Edges
<1>7. \A m \in seen : Waiting(m)' = Waiting(m) \ {n}
  BY <1>5, <1>6 DEF Waiting
<1>8. \A m \in seen : m \in Successors(n) <=> n \in Waiting(m)
  BY <1>3 DEF Successors, Waiting, Before
<1>9. remaining \in [seen -> Nat] /\ \A m \in seen : remaining[m] = Cardinality(Waiting(m))
  BY <1>2 DEF IInv, Sorting
<1>10. \A m \in seen : IsFiniteSet(Waiting(m)) /\ IsFiniteSet(Waiting(m) \ {n})
  BY <1>6, Finite, FS_RemoveElement DEF IInv, Waiting
<1>11. remaining' \in [seen -> Nat] /\ \A m \in seen : remaining'[m] = Cardinality(Waiting(m)')
  <2>1. ASSUME NEW m \in seen
        PROVE  Decremented(n)[m] \in Nat /\ Decremented(n)[m] = Cardinality(Waiting(m) \ {n})
    <3>1. Cardinality(Waiting(m) \ {n}) =
            IF n \in Waiting(m) THEN Cardinality(Waiting(m)) - 1 ELSE Cardinality(Waiting(m))
      BY <1>10, FS_RemoveElement
    <3>2. Cardinality(Waiting(m) \ {n}) \in Nat
      BY <1>10, FS_CardinalityType
    <3>3. Decremented(n)[m] =
            IF m \in Successors(n) /\ remaining[m] > 0 THEN remaining[m] - 1 ELSE remaining[m]
      BY DEF Decremented
    <3>4. n \in Waiting(m) => remaining[m] > 0
      <4>1. remaining[m] \in Nat /\ remaining[m] = Cardinality(Waiting(m))
        BY <1>9
      <4>2. Cardinality(Waiting(m)) = 0 <=> Waiting(m) = {}
        BY <1>10, FS_EmptySet
      <4>3. QED
        BY <4>1, <4>2
    <3>5. QED
      BY <1>8, <1>9, <3>1, <3>2, <3>3, <3>4
  <2>2. QED
    BY <1>1, <1>7, <2>1 DEF Decremented
<1>12. \A m \in ready' : m \in seen /\ Waiting(m)' = {} /\ m \notin Range(order')
  <2>1. ASSUME NEW m \in ready \ {n}
        PROVE  m \in seen /\ Waiting(m)' = {} /\ m \notin Range(order')
    BY <1>2, <1>5, <1>7 DEF IInv, Shape, Sorting
  <2>2. ASSUME NEW m \in Freed(n)
        PROVE  m \in seen /\ Waiting(m)' = {} /\ m \notin Range(order')
    <3>1. m \in seen /\ n \in Waiting(m) /\ remaining'[m] = 0
      BY <1>1, <1>8 DEF Freed, Successors
    <3>2. Waiting(m)' = {}
      BY <1>7, <1>10, <1>11, <3>1, FS_EmptySet
    <3>3. m \notin Range(order)
      <4>1. SUFFICES ASSUME NEW i \in DOMAIN order, order[i] = m PROVE FALSE
        BY DEF Range
      <4>2. n \in Before(order[i])
        BY <3>1, <4>1 DEF Waiting
      <4>3. n \in Range(order)
        BY <1>3, <1>5, <4>2 DEF IInv, Ordered, Range, Before
      <4>4. QED
        BY <1>3, <4>3
    <3>4. m # n
      BY <1>3, <3>1
    <3>5. QED
      BY <1>5, <3>1, <3>2, <3>3, <3>4
  <2>3. QED
    BY <1>1, <2>1, <2>2
<1>13. Sorting'
  BY <1>2, <1>11, <1>12 DEF Sorting
<1>14. Shape' /\ Reaching' /\ Complete'
  <2>1. Shape'
    BY <1>2, <1>5, <1>12 DEF IInv, Shape
  <2>2. Reaching'
    BY <1>2 DEF IInv, Reaching, Closed
  <2>3. Complete'
    BY <1>2 DEF IInv, Shape, Complete
  <2>4. QED
    BY <2>1, <2>2, <2>3
<1>15. Ordered'
  <2>1. Edges' = Edges
    BY <1>2 DEF Edges
  <2>2. SUFFICES ASSUME NEW i \in DOMAIN order', NEW p \in seen, <<p, order'[i]>> \in Edges
                 PROVE  \E j \in 1..(i - 1) : order'[j] = p
    BY <1>2, <2>1 DEF Ordered
  <2>3. CASE i \in 1..Len(order)
    <3>1. \E j \in 1..(i - 1) : order[j] = p
      BY <1>5, <2>2, <2>3 DEF IInv, Ordered
    <3>2. QED
      BY <1>5, <2>3, <3>1
  <2>4. CASE i = Len(order) + 1
    <3>1. p \in Range(order)
      BY <1>3, <1>5, <2>2, <2>4 DEF Waiting, Before
    <3>2. PICK j \in 1..Len(order) : order[j] = p
      BY <1>5, <3>1 DEF Range
    <3>3. QED
      BY <1>5, <2>4, <3>2
  <2>5. QED
    BY <1>5, <2>2, <2>3, <2>4
<1>16. Distinct'
  <2>1. Shape /\ IsFiniteSet(Range(order))
    <3>1. Range(order) \in SUBSET seen
      BY <1>4, <1>5 DEF Range
    <3>2. QED
      BY <3>1, Finite DEF IInv
  <2>2. Cardinality(Range(order) \cup {n}) = Cardinality(Range(order)) + 1
    BY <1>3, <2>1, FS_AddElement
  <2>3. Len(order') = Cardinality(Range(order'))
    BY <1>5, <2>2 DEF IInv, Distinct
  <2>4. ASSUME NEW i \in DOMAIN order', NEW j \in DOMAIN order', order'[i] = order'[j]
        PROVE  i = j
    <3>1. \A k \in 1..Len(order) : order'[k] # n
      BY <1>3, <1>5 DEF Range
    <3>2. CASE i = Len(order) + 1 \/ j = Len(order) + 1
      BY <1>5, <2>4, <3>1, <3>2
    <3>3. CASE i \in 1..Len(order) /\ j \in 1..Len(order)
      BY <1>5, <2>4, <3>3 DEF IInv, Distinct
    <3>4. QED
      BY <1>5, <3>2, <3>3
  <2>5. QED
    BY <2>3, <2>4 DEF Distinct
<1>17. QED
  BY <1>13, <1>14, <1>15, <1>16 DEF IInv

(* A loop that ends with as many units as are wanted has emitted them all.   *)
LEMMA SortedKeepsIInv ==
    ASSUME IInv, Sorted
    PROVE  IInv'
<1>1. /\ phase = "sort" /\ result = "none" /\ phase' \in {"end", "trace"}
      /\ UNCHANGED <<in, seen, todo, ready, remaining, order>>
  BY DEF Sorted, IInv, Shape
<1>2. Shape'
  BY <1>1 DEF Sorted, IInv, Shape
<1>3. Reaching'
  BY <1>1 DEF IInv, Reaching, Closed
<1>4. Sorting'
  BY <1>1 DEF Sorting
<1>5. Ordered' /\ Distinct'
  BY <1>1 DEF IInv, Ordered, Distinct, Edges, Range
<1>6. Complete'
  <2>1. SUFFICES ASSUME result' = "Plan" PROVE Range(order) = seen /\ todo = {} /\ Root \in in.units
    BY <1>1 DEF Complete, Range
  <2>2. Len(order) = Cardinality(seen)
    BY <1>1, <2>1 DEF Sorted
  <2>3. Range(order) \subseteq seen
    <3>1. order \in Seq(seen)
      BY DEF IInv, Shape
    <3>2. QED
      BY <3>1 DEF Range
  <2>4. Cardinality(Range(order)) = Cardinality(seen)
    BY <2>2 DEF IInv, Distinct
  <2>5. Range(order) = seen
    <3>1. IsFiniteSet(seen)
      BY Finite DEF IInv
    <3>2. QED
      BY <2>3, <2>4, <3>1, FS_Subset
  <2>6. QED
    BY <1>1, <2>5 DEF IInv, Shape, Reaching
<1>7. QED
  BY <1>2, <1>3, <1>4, <1>5, <1>6 DEF IInv

(* The walk along a cycle reads the graph and changes nothing of it.         *)
LEMMA WalkKeepsIInv ==
    ASSUME IInv, Walk
    PROVE  IInv'
<1>1. /\ phase = "trace" /\ result = "none"
      /\ phase' \in {"trace", "end"} /\ result' \in {"none", "Cycle"}
      /\ phase' = "trace" => result' = "none"
      /\ UNCHANGED <<in, seen, todo, ready, remaining, order>>
  BY DEF Walk, Fails, IInv, Shape
<1>2. Shape' /\ Reaching'
  BY <1>1 DEF IInv, Shape, Reaching, Closed
<1>3. Sorting' /\ Complete'
  BY <1>1 DEF Sorting, Complete
<1>4. Ordered' /\ Distinct'
  BY <1>1 DEF IInv, Ordered, Distinct, Edges, Range
<1>5. QED
  BY <1>2, <1>3, <1>4 DEF IInv

LEMMA NextKeepsIInv == IInv /\ [Next]_vars => IInv'
<1>. SUFFICES ASSUME IInv, [Next]_vars PROVE IInv'
  OBVIOUS
<1>1. CASE UNCHANGED vars
  <2>1. Shape' /\ Reaching' /\ Complete'
    BY <1>1 DEF vars, IInv, Shape, Reaching, Complete, Closed, Range
  <2>2. Sorting' /\ Ordered' /\ Distinct'
    BY <1>1 DEF vars, IInv, Sorting, Ordered, Distinct, Waiting, Before, Edges, Range
  <2>3. QED
    BY <2>1, <2>2 DEF IInv
<1>2. QED
  BY <1>1, VisitKeepsIInv, ReachedKeepsIInv, CheckKeepsIInv, EmitKeepsIInv,
     SortedKeepsIInv, WalkKeepsIInv DEF Next

LEMMA InvariantHolds == Spec => []IInv
  BY InitIInv, NextKeepsIInv, PTL DEF Spec

-------------------------------------------------------------------------------
(* Whatever the unit files declare, Kahn's loop never emits a unit ahead of  *)
(* a wanted one that after, before or a socket's activation puts in front of *)
(* it, in its partial orders as in the plan.                                 *)
THEOREM PlanRespectsOrder == Spec => []OrderSound
<1>1. IInv => OrderSound
  <2>. SUFFICES ASSUME IInv, NEW i \in DOMAIN order, NEW p \in seen,
                       \/ p \in in.after[order[i]]
                       \/ order[i] \in in.before[p]
                       \/ order[i] \in in.activates[p]
                PROVE  \E j \in 1..(i - 1) : order[j] = p
    BY DEF OrderSound
  <2>1. order[i] \in seen
    BY DEF IInv, Shape
  <2>2. <<p, order[i]>> \in Edges
    BY <2>1 DEF Edges
  <2>3. QED
    BY <2>2 DEF IInv, Ordered
<1>2. QED
  BY InvariantHolds, <1>1, PTL

(* A plan holds what requires and wants pull in from the root, all of it and *)
(* nothing else, and no unit twice: reachable and Kahn's loop lose nothing.  *)
THEOREM PlanComplete == Spec => []PlanIsWhatIsWanted
<1>1. IInv => PlanIsWhatIsWanted
  <2>. SUFFICES ASSUME IInv, result = "Plan" PROVE PlanIsWhatIsWanted
    BY DEF PlanIsWhatIsWanted
  <2>1. Range(order) = seen /\ todo = {} /\ Root \in in.units
    BY DEF IInv, Complete
  <2>2. Closed(seen)
    BY <2>1 DEF IInv, Reaching, Closed
  <2>3. \A S \in SUBSET in.units : Closed(S) => seen \subseteq S
    BY DEF IInv, Reaching
  <2>4. \A i, j \in DOMAIN order : order[i] = order[j] => i = j
    BY DEF IInv, Distinct
  <2>5. QED
    BY <2>1, <2>2, <2>3, <2>4 DEF PlanIsWhatIsWanted, Closed
<1>2. QED
  BY InvariantHolds, <1>1, PTL

-------------------------------------------------------------------------------
(* A refused order, and the walk that reports it                             *)

(* Units every one of which another of them precedes.                        *)
Cyclic == \E S \in SUBSET seen : S # {} /\ \A n \in S : Before(n) \cap S # {}

(* What is left when Kahn's loop stops early is blocked by what is left: a   *)
(* unit that waits for nothing is ready or out.  The walk holds no unit      *)
(* twice, which is what ends it.                                             *)
Tracing ==
    /\ phase \in {"reach", "check", "sort", "trace", "end"}
    /\ result \in Error \cup {"none", "Plan"}
    /\ path \in Seq(seen)
    /\ phase \in {"reach", "check"} => path = <<>>
    /\ phase \in {"reach", "check"} \/ result \in Error \/ remaining \in [seen -> Nat]
    /\ phase = "sort" =>
          \A n \in seen : n \notin Range(order) /\ Waiting(n) = {} => n \in ready
    /\ phase = "trace" =>
          Cyclic /\ path # <<>> /\ Len(path) = Cardinality(Range(path))
    /\ result = "Cycle" => Cyclic

(* What Least picks is there and is the least.                               *)
LEMMA LeastFacts ==
    \A S : S \subseteq Nat /\ IsFiniteSet(S) /\ S # {}
             => Least(S) \in S /\ \A m \in S : Least(S) <= m
  BY FirstAndLast DEF Least

(* What the walk steps to is a wanted unit.                                  *)
LEMMA LeastWanted ==
    ASSUME Shape, NEW S \in SUBSET seen, S # {}
    PROVE  Least(S) \in S
<1>1. S \subseteq Nat
  BY GraphAssumption DEF Shape, UnitSet
<1>2. IsFiniteSet(S)
  BY Finite
<1>3. QED
  BY <1>1, <1>2, LeastFacts

(* Cycles are of the graph, which nothing after Check changes.               *)
LEMMA CyclicKept ==
    ASSUME Cyclic, UNCHANGED <<in, seen>>
    PROVE  Cyclic'
<1>1. Edges' = Edges
  BY DEF Edges
<1>2. \A n : Before(n)' = Before(n)
  BY <1>1 DEF Before
<1>3. QED
  BY <1>2 DEF Cyclic

LEMMA InitTracing == Init => Tracing
  BY DEF Init, Tracing, Error

(* A refusal for another reason than a cycle says nothing of one.            *)
LEMMA FailsKeepsTracing ==
    ASSUME IInv, Tracing, NEW error \in Error, Fails(error), error = "Cycle" => Cyclic
    PROVE  Tracing'
<1>1. /\ phase' = "end" /\ result' = error
      /\ UNCHANGED <<in, seen, todo, ready, remaining, order, path>>
  BY DEF Fails
<1>2. error = "Cycle" => Cyclic'
  BY <1>1, CyclicKept
<1>3. QED
  BY <1>1, <1>2 DEF Tracing

LEMMA VisitKeepsTracing ==
    ASSUME IInv, Tracing, Visit
    PROVE  Tracing'
<1>1. PICK n \in todo :
        IF in.requires[n] \subseteq in.units
        THEN /\ seen' = seen \cup {n}
             /\ todo' = (todo \cup Pulled(n)) \ seen'
             /\ UNCHANGED <<in, phase, ready, remaining, order, path, result>>
        ELSE Fails("MissingRequires")
  BY DEF Visit
<1>2. CASE ~(in.requires[n] \subseteq in.units)
  BY <1>1, <1>2, FailsKeepsTracing DEF Error
<1>3. CASE in.requires[n] \subseteq in.units
  <2>1. phase = "reach" /\ path = <<>> /\ result = "none"
    BY DEF Visit, IInv, Shape, Tracing
  <2>2. QED
    BY <1>1, <1>3, <2>1 DEF Tracing
<1>4. QED
  BY <1>2, <1>3

LEMMA ReachedKeepsTracing ==
    ASSUME IInv, Tracing, Reached
    PROVE  Tracing'
<1>1. phase = "reach" /\ path = <<>> /\ result = "none"
  BY DEF Reached, IInv, Shape, Tracing
<1>2. QED
  BY <1>1 DEF Reached, Tracing

LEMMA CheckKeepsTracing ==
    ASSUME IInv, Tracing, Check
    PROVE  Tracing'
<1>1. CASE \E error \in Error \ {"Cycle"} : Fails(error)
  BY <1>1, FailsKeepsTracing
<1>2. CASE /\ phase' = "sort"
           /\ remaining' = [n \in seen |-> InDegree(n)]
           /\ ready' = {n \in seen : InDegree(n) = 0}
           /\ UNCHANGED <<in, seen, todo, order, path, result>>
  <2>1. order = <<>> /\ Range(order') = {} /\ result' = "none" /\ path' = <<>>
    BY <1>2 DEF Check, IInv, Shape, Tracing, Range
  <2>2. \A n \in seen : Waiting(n)' = Before(n) /\ IsFiniteSet(Before(n))
    BY <1>2, <2>1, Finite DEF IInv, Waiting, Before, Edges
  <2>3. \A n \in seen : InDegree(n) \in Nat /\ (Before(n) = {} => InDegree(n) = 0)
    BY <2>2, FS_CardinalityType, FS_EmptySet DEF InDegree
  <2>4. phase' = "sort" /\ remaining' \in [seen' -> Nat]
    BY <1>2, <2>3
  <2>5. \A n \in seen' : Waiting(n)' = {} => n \in ready'
    BY <1>2, <2>2, <2>3
  <2>6. path' \in Seq(seen')
    BY <1>2 DEF Tracing
  <2>7. result' = "none"
    BY <2>1
  <2>8. QED
    BY <2>4, <2>5, <2>6, <2>7 DEF Tracing
<1>3. QED
  BY <1>1, <1>2 DEF Check, Error

(* Whom the unit just emitted was the last to block is ready from now on.    *)
LEMMA EmitKeepsTracing ==
    ASSUME IInv, Tracing, Emit
    PROVE  Tracing'
<1>1. PICK n \in ready :
        /\ order' = Append(order, n)
        /\ remaining' = Decremented(n)
        /\ ready' = (ready \ {n}) \cup Freed(n)
  BY DEF Emit
<1>2. /\ phase = "sort" /\ phase' = "sort" /\ result = "none"
      /\ UNCHANGED <<in, seen, todo, path, result>>
  BY DEF Emit, IInv, Shape
<1>3. IInv'
  BY EmitKeepsIInv
<1>4. n \in seen /\ Waiting(n) = {}
  BY <1>2 DEF IInv, Shape, Sorting
<1>5. Range(order') = Range(order) \cup {n}
  BY <1>1, <1>4, AppendFacts DEF IInv, Shape
<1>6. \A m \in seen : Waiting(m)' = Waiting(m) \ {n}
  BY <1>2, <1>5 DEF Waiting, Before, Edges
<1>7. ASSUME NEW m \in seen, m \notin Range(order'), Waiting(m)' = {}
      PROVE  m \in ready'
  <2>1. CASE n \in Waiting(m)
    <3>1. m \in Successors(n)
      BY <1>4, <2>1 DEF Successors, Waiting, Before
    <3>2. remaining'[m] = 0
      BY <1>2, <1>3, <1>7, FS_EmptySet DEF IInv, Sorting
    <3>3. QED
      BY <1>1, <3>1, <3>2 DEF Freed
  <2>2. CASE n \notin Waiting(m)
    BY <1>1, <1>2, <1>5, <1>6, <1>7, <2>2 DEF Tracing
  <2>3. QED
    BY <2>1, <2>2
<1>8. remaining' \in [seen -> Nat]
  BY <1>2, <1>3 DEF IInv, Sorting
<1>9. QED
  BY <1>2, <1>7, <1>8 DEF Tracing

(* The loop stops early: what is left blocks itself, and some of it counts   *)
(* as blocked, so the walk has where to begin.                               *)
LEMMA SortedKeepsTracing ==
    ASSUME IInv, Tracing, Sorted
    PROVE  Tracing'
<1>1. /\ phase = "sort" /\ ready = {} /\ result = "none"
      /\ UNCHANGED <<in, seen, todo, ready, remaining, order>>
  BY DEF Sorted, IInv, Shape
<1>2. remaining \in [seen -> Nat]
  BY <1>1 DEF IInv, Sorting
<1>3. CASE Len(order) = Cardinality(seen)
  BY <1>1, <1>2, <1>3 DEF Sorted, Tracing, Error
<1>4. CASE Len(order) # Cardinality(seen)
  <2>. DEFINE left == seen \ Range(order)
  <2>1. phase' = "trace" /\ path' = <<Least(Blocked(seen))>> /\ result' = "none"
    BY <1>1, <1>4 DEF Sorted
  <2>2. left # {}
    <3>1. Range(order) \subseteq seen
      BY DEF IInv, Shape, Range
    <3>2. Len(order) = Cardinality(Range(order))
      BY DEF IInv, Distinct
    <3>3. SUFFICES ASSUME left = {} PROVE FALSE
      OBVIOUS
    <3>4. Range(order) = seen
      BY <3>1, <3>3
    <3>5. QED
      BY <1>4, <3>2, <3>4
  <2>3. \A n \in left : Waiting(n) # {} /\ Waiting(n) \subseteq left
    BY <1>1 DEF Tracing, Waiting, Before
  <2>4. Cyclic'
    <3>1. left \in SUBSET seen /\ \A n \in left : Before(n) \cap left # {}
      BY <2>3 DEF Waiting
    <3>2. Cyclic
      BY <2>2, <3>1 DEF Cyclic
    <3>3. QED
      BY <1>1, <3>2, CyclicKept
  <2>5. Blocked(seen) # {} /\ Blocked(seen) \in SUBSET seen
    <3>1. PICK n \in left : Waiting(n) # {}
      BY <2>2, <2>3
    <3>2. IsFiniteSet(Waiting(n))
      BY Finite DEF IInv, Waiting, Before
    <3>3. remaining[n] = Cardinality(Waiting(n)) /\ remaining[n] \in Nat
      BY <1>1, <1>2 DEF IInv, Sorting
    <3>4. remaining[n] > 0
      BY <3>1, <3>2, <3>3, FS_EmptySet
    <3>5. QED
      BY <3>4 DEF Blocked
  <2>6. Least(Blocked(seen)) \in seen
    BY <2>5, LeastWanted DEF IInv
  <2>7. /\ path' \in Seq(seen) /\ path' # <<>>
        /\ Len(path') = 1 /\ Range(path') = {Least(Blocked(seen))}
    BY <2>1, <2>6 DEF Range
  <2>8. Len(path') = Cardinality(Range(path'))
    BY <2>7, FS_Singleton
  <2>9. QED
    BY <1>1, <1>2, <2>1, <2>4, <2>7, <2>8 DEF Tracing
<1>5. QED
  BY <1>3, <1>4

(* The walk steps to a unit it does not hold, or ends.                       *)
LEMMA WalkKeepsTracing ==
    ASSUME IInv, Tracing, Walk
    PROVE  Tracing'
<1>. DEFINE next == Blocked(Successors(path[Len(path)]))
            n == Least(next)
<1>1. phase = "trace" /\ Cyclic /\ path \in Seq(seen) /\ path # <<>>
  BY DEF Walk, Tracing
<1>2. CASE next = {}
  BY <1>1, <1>2, FailsKeepsTracing DEF Walk, Error
<1>3. CASE next # {}
  <2>1. next \in SUBSET seen
    BY DEF Blocked, Successors
  <2>2. n \in seen
    BY <1>3, <2>1, LeastWanted DEF IInv
  <2>3. /\ IF Closes(n) = {}
           THEN /\ path' = Append(path, n)
                /\ UNCHANGED <<phase, result>>
           ELSE /\ path' = Append(SubSeq(path, Least(Closes(n)), Len(path)), n)
                /\ phase' = "end" /\ result' = "Cycle"
        /\ UNCHANGED <<in, seen, todo, ready, remaining, order>>
    BY <1>3 DEF Walk
  <2>. HIDE DEF next, n
  <2>4. Cyclic'
    BY <1>1, <2>3, CyclicKept
  <2>5. result = "none" /\ remaining \in [seen -> Nat]
    BY <1>1 DEF IInv, Shape, Tracing, Error
  <2>6. CASE Closes(n) = {}
    <3>1. n \notin Range(path)
      BY <2>6 DEF Closes, Range
    <3>2. path' = Append(path, n) /\ path' \in Seq(seen) /\ Range(path') = Range(path) \cup {n}
      <4>1. path' = Append(path, n)
        BY <2>3, <2>6
      <4>2. Append(path, n) \in Seq(seen) /\ Range(Append(path, n)) = Range(path) \cup {n}
        BY <1>1, <2>2, AppendFacts
      <4>3. QED
        BY <4>1, <4>2
    <3>3. Len(path') = Len(path) + 1 /\ path' # <<>>
      BY <1>1, <2>2, <3>2
    <3>4. IsFiniteSet(Range(path))
      <4>1. Range(path) \in SUBSET seen
        BY <1>1 DEF Range
      <4>2. QED
        BY <4>1, Finite DEF IInv
    <3>5. Len(path') = Cardinality(Range(path'))
      BY <1>1, <3>1, <3>2, <3>3, <3>4, FS_AddElement DEF Tracing
    <3>6. QED
      BY <1>1, <2>3, <2>4, <2>5, <2>6, <3>2, <3>5 DEF Tracing
  <2>7. CASE Closes(n) # {}
    <3>1. /\ Closes(n) \subseteq 1..Len(path) /\ Len(path) \in Nat
          /\ Closes(n) \subseteq Nat
      BY <1>1 DEF Closes
    <3>2. IsFiniteSet(Closes(n))
      <4>1. IsFiniteSet(1..Len(path))
        BY <3>1, FS_Interval
      <4>2. QED
        BY <3>1, <4>1, FS_Subset
    <3>3. Least(Closes(n)) \in 1..Len(path)
      BY <2>7, <3>1, <3>2, LeastFacts
    <3>4. SubSeq(path, Least(Closes(n)), Len(path)) \in Seq(seen)
      BY <1>1, <3>3
    <3>5. path' \in Seq(seen)
      <4>1. path' = Append(SubSeq(path, Least(Closes(n)), Len(path)), n)
        BY <2>3, <2>7
      <4>2. QED
        BY <2>2, <3>4, <4>1, AppendFacts
    <3>6. QED
      BY <2>3, <2>4, <2>7, <3>5 DEF Tracing, Error
  <2>8. QED
    BY <2>6, <2>7
<1>4. QED
  BY <1>2, <1>3

LEMMA NextKeepsTracing == IInv /\ Tracing /\ [Next]_vars => Tracing'
<1>. SUFFICES ASSUME IInv, Tracing, [Next]_vars PROVE Tracing'
  OBVIOUS
<1>1. CASE UNCHANGED vars
  <2>1. Cyclic => Cyclic'
    BY <1>1, CyclicKept DEF vars
  <2>2. \A n : Waiting(n)' = Waiting(n)
    BY <1>1 DEF vars, Waiting, Before, Edges, Range
  <2>3. Range(order') = Range(order) /\ Range(path') = Range(path)
    BY <1>1 DEF vars
  <2>4. QED
    BY <1>1, <2>1, <2>2, <2>3 DEF vars, Tracing
<1>2. QED
  BY <1>1, VisitKeepsTracing, ReachedKeepsTracing, CheckKeepsTracing, EmitKeepsTracing,
     SortedKeepsTracing, WalkKeepsTracing DEF Next

LEMMA TracingHolds == Spec => []Tracing
  BY InitTracing, NextKeepsTracing, InvariantHolds, PTL DEF Spec

(* Units are refused as a cycle only when some wanted units really precede   *)
(* one another: Kahn's loop never stops short of a unit it could have freed, *)
(* however often and from however many sides an edge is declared.            *)
THEOREM RefusalsAreCycles == Spec => []RefusedOnlyIfCyclic
<1>1. Tracing => RefusedOnlyIfCyclic
  BY DEF Tracing, Cyclic, RefusedOnlyIfCyclic
<1>2. QED
  BY TracingHolds, <1>1, PTL

(* find_cycle's walk never outgrows the wanted units, so it ends.            *)
THEOREM WalkIsBounded == Spec => []WalkEnds
<1>1. IInv /\ Tracing => WalkEnds
  <2>. SUFFICES ASSUME IInv, Tracing, phase = "trace"
                PROVE  Len(path) <= Cardinality(seen)
    BY DEF WalkEnds
  <2>1. Range(path) \in SUBSET seen
    BY DEF Tracing, Range
  <2>2. IsFiniteSet(seen)
    BY Finite DEF IInv
  <2>3. Cardinality(Range(path)) <= Cardinality(seen)
    BY <2>1, <2>2, FS_Subset
  <2>4. QED
    BY <2>3 DEF Tracing
<1>2. QED
  BY InvariantHolds, TracingHolds, <1>1, PTL

(* The plan, the walk and the counters only ever hold wanted units.          *)
THEOREM GraphTypes == Spec => []TypeOK
<1>1. IInv /\ Tracing => TypeOK
  BY DEF IInv, Shape, Tracing, TypeOK
<1>2. QED
  BY InvariantHolds, TracingHolds, <1>1, PTL
===============================================================================
