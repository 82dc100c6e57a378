-------------------------------- MODULE Graph ---------------------------------
(***************************************************************************)
(* The start plan of crates/oxinit-graph/src/lib.rs: resolve_from, run     *)
(* once, at load, on the units that parsed.                                *)
(*                                                                         *)
(* A unit's name is its rank in the order of names, so the smallest is the *)
(* first a BTreeMap iterates.  Queues are sets: which of the free units is *)
(* taken first decides the order of units nothing orders, and which of     *)
(* several errors is reported; the walk that recovers a cycle follows the  *)
(* names' order, as the code does.  Warnings are left out.                 *)
(***************************************************************************)
EXTENDS Integers, FiniteSets, Sequences, Functions

CONSTANTS
    Names,       \* every name a unit file mentions
    Root,        \* the unit resolution starts from (DEFAULT_UNIT)
    UnitSets     \* the sets of unit files that may be loaded

Relations == [Names -> SUBSET Names]

\* What the parser accepts.  Activates[u] is the service of a socket unit,
\* empty for any other kind.
UnitSet ==
    [units : SUBSET Names, services : SUBSET Names, requires : Relations,
     wants : Relations, after : Relations, before : Relations,
     conflicts : Relations, activates : Relations]

ASSUME GraphAssumption ==
    /\ Names \subseteq Nat /\ IsFiniteSet(Names)
    /\ Root \in Names
    /\ UnitSets \subseteq UnitSet

VARIABLES
    in,          \* the unit set being resolved
    phase,       \* where resolve_from is
    seen,        \* reachable: the names visited, in the end the wanted ones
    todo,        \* reachable: its queue
    ready,       \* topological_order: units with nothing left before them
    remaining,   \* topological_order: in-degree left, per wanted unit
    order,       \* topological_order: the plan so far
    path,        \* find_cycle: the walk so far
    result       \* what resolve_from returned, "none" before it did

vars == <<in, phase, seen, todo, ready, remaining, order, path, result>>

Error == {"NoDefault", "MissingRequires", "Conflict", "SocketService", "Cycle"}

TypeOK ==
    /\ in \in UnitSet
    /\ phase \in {"reach", "check", "sort", "trace", "end"}
    /\ seen \subseteq in.units
    /\ todo \subseteq in.units
    /\ ready \subseteq seen
    /\ remaining \in [seen -> Nat] \/ phase \in {"reach", "check"} \/ result \in Error
    /\ order \in Seq(seen)
    /\ path \in Seq(seen)
    /\ result \in Error \cup {"none", "Plan"}

Least(S) == CHOOSE n \in S : \A m \in S : n <= m

-------------------------------------------------------------------------------
(* The edges of topological_order.  <<a, b>>: a starts before b.             *)

\* Faulty variant: one edge per declaration that states it.
InDegree_PerDeclaration(n) ==
    Cardinality(in.after[n] \cap seen)
      + Cardinality({p \in seen : n \in in.before[p]})
      + Cardinality({p \in seen : n \in in.activates[p]})

\* after, its inverse before, and a socket before the service it activates.
\* successors is a set: an edge declared twice is one edge.
Edges ==
    {e \in seen \X seen :
        e[1] \in in.after[e[2]] \/ e[2] \in in.before[e[1]] \cup in.activates[e[1]]}

Before(n) == {p \in seen : <<p, n>> \in Edges}

Successors(n) == {s \in seen : <<n, s>> \in Edges}

InDegree(n) == Cardinality(Before(n))

-------------------------------------------------------------------------------
(* resolve_from                                                              *)

Fails(error) ==
    /\ phase' = "end"
    /\ result' = error
    /\ UNCHANGED <<in, seen, todo, ready, remaining, order, path>>

\* Faulty variants: wants is not followed; every name it has is visited,
\* loaded or not.
Pulled_Required(n) == in.requires[n]
Pulled_Unchecked(n) == in.requires[n] \cup in.wants[n]

\* A wants that names no unit is a warning.
Pulled(n) == in.requires[n] \cup (in.wants[n] \cap in.units)

\* One turn of reachable's loop.
Visit ==
    /\ phase = "reach"
    /\ \E n \in todo :
          IF in.requires[n] \subseteq in.units
          THEN /\ seen' = seen \cup {n}
               /\ todo' = (todo \cup Pulled(n)) \ seen'
               /\ UNCHANGED <<in, phase, ready, remaining, order, path, result>>
          ELSE Fails("MissingRequires")

Reached ==
    /\ phase = "reach"
    /\ todo = {}
    /\ phase' = "check"
    /\ UNCHANGED <<in, seen, todo, ready, remaining, order, path, result>>

\* A socket's service is looked up among all units, wanted or not.
Check ==
    /\ phase = "check"
    /\ IF \E u \in seen : in.conflicts[u] \cap seen # {}
       THEN Fails("Conflict")
       ELSE IF \E u \in seen : ~(in.activates[u] \subseteq in.units \cap in.services)
       THEN Fails("SocketService")
       ELSE /\ phase' = "sort"
            /\ remaining' = [n \in seen |-> InDegree(n)]
            /\ ready' = {n \in seen : InDegree(n) = 0}
            /\ UNCHANGED <<in, seen, todo, order, path, result>>

Decremented(n) ==
    [m \in seen |-> IF m \in Successors(n) /\ remaining[m] > 0
                    THEN remaining[m] - 1 ELSE remaining[m]]

\* Faulty variant: a unit is free once one of those before it is out.
Freed_Any(n) == Successors(n)

Freed(n) == {m \in Successors(n) : Decremented(n)[m] = 0}

\* One turn of Kahn's loop.
Emit ==
    /\ phase = "sort"
    /\ \E n \in ready :
          /\ order' = Append(order, n)
          /\ remaining' = Decremented(n)
          /\ ready' = (ready \ {n}) \cup Freed(n)
    /\ UNCHANGED <<in, phase, seen, todo, path, result>>

Blocked(S) == {n \in S : remaining[n] > 0}

Sorted ==
    /\ phase = "sort"
    /\ ready = {}
    /\ IF Len(order) = Cardinality(seen)
       THEN phase' = "end" /\ result' = "Plan" /\ UNCHANGED path
       ELSE phase' = "trace" /\ path' = <<Least(Blocked(seen))>> /\ UNCHANGED result
    /\ UNCHANGED <<in, seen, todo, ready, remaining, order>>

\* Faulty variant: only a return to where the walk began closes it.
Closes_AtStart(n) == {i \in DOMAIN path : i = 1 /\ path[i] = n}

Closes(n) == {i \in DOMAIN path : path[i] = n}

\* One turn of find_cycle's loop: on to the first successor still blocked.
Walk ==
    /\ phase = "trace"
    /\ LET next == Blocked(Successors(path[Len(path)]))
       IN  IF next = {}
           THEN Fails("Cycle")
           ELSE LET n == Least(next)
                IN  IF Closes(n) = {}
                    THEN /\ path' = Append(path, n)
                         /\ UNCHANGED <<phase, result>>
                    ELSE /\ path' = Append(SubSeq(path, Least(Closes(n)), Len(path)), n)
                         /\ phase' = "end" /\ result' = "Cycle"
    /\ UNCHANGED <<in, seen, todo, ready, remaining, order>>

Init ==
    /\ in \in UnitSets
    /\ phase = IF Root \in in.units THEN "reach" ELSE "end"
    /\ result = IF Root \in in.units THEN "none" ELSE "NoDefault"
    /\ seen = {}
    /\ todo = {Root} \cap in.units
    /\ ready = {}
    /\ remaining = [n \in {} |-> 0]
    /\ order = <<>>
    /\ path = <<>>

Next == Visit \/ Reached \/ Check \/ Emit \/ Sorted \/ Walk

Spec == Init /\ [][Next]_vars

-------------------------------------------------------------------------------
(* A unit is never planned ahead of one that its after, the other's before   *)
(* or a socket puts in front of it, as far as that one is wanted at all.     *)
OrderSound ==
    \A i \in DOMAIN order : \A p \in seen :
        \/ p \in in.after[order[i]]
        \/ order[i] \in in.before[p]
        \/ order[i] \in in.activates[p]
        => \E j \in 1..(i - 1) : order[j] = p

(* A plan starts exactly what requires and wants pull in from the root, each *)
(* once: the least set that holds the root and is closed under both.         *)
PlanIsWhatIsWanted ==
    result = "Plan" =>
        LET Closed(S) ==
                /\ Root \in S
                /\ \A n \in S : in.requires[n] \cup (in.wants[n] \cap in.units) \subseteq S
        IN  /\ Closed(Range(order))
            /\ \A S \in SUBSET in.units : Closed(S) => Range(order) \subseteq S
            /\ \A i, j \in DOMAIN order : order[i] = order[j] => i = j

(* Units are refused as a cycle only if some of them really are ordered      *)
(* after one another; an ordering stated from both sides is no cycle.        *)
RefusedOnlyIfCyclic ==
    result = "Cycle" =>
        \E S \in SUBSET seen : S # {} /\ \A n \in S : Before(n) \cap S # {}

(* find_cycle ends, on any graph: no unit is on its walk twice, except the   *)
(* one that closes it.  It runs in PID 1, before anything has started.       *)
WalkEnds == phase = "trace" => Len(path) <= Cardinality(seen)

(* "It reports the cycle path - a, b, c, a" (ARCHITECTURE.md): a reported    *)
(* path leads from a unit back to it.                                        *)
ReportsTheCycle ==
    result = "Cycle" =>
        Len(path) > 1 /\ path[1] = path[Len(path)]
===============================================================================
