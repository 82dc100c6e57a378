---------------------------- MODULE ControlProofs -----------------------------
(***************************************************************************)
(* Theorems about module ControlPlane, for every set of peers, requests,   *)
(* unit files and changes to them.                                         *)
(*                                                                         *)
(* The invariant has a part for each thing that could come apart: the two  *)
(* ends of a connection (Clients), what a batch announced and what is      *)
(* there when it is handled (Events), the units and what refers to them    *)
(* (Units), the queue and the order it was made from (Queued), the cgroups *)
(* and what epoll knows of them (Watched).                                 *)
(***************************************************************************)
EXTENDS ControlPlane, Foundations

-------------------------------------------------------------------------------
(* Facts about finite sets                                                   *)

(* SetToSeq lists elements of the set, none of them twice.                   *)
LEMMA Listed ==
    ASSUME NEW S, IsFiniteSet(S)
    PROVE  /\ SetToSeq(S) \in Seq(S) /\ Range(SetToSeq(S)) \subseteq S
           /\ IsInjective(SetToSeq(S))
<1>1. PICK k \in Nat : ExistsBijection(1..k, S)
  BY FS_NatBijection
<1>2. Cardinality(S) = k
  BY <1>1, FS_CountingElements
<1>3. PICK f \in [1..k -> S] : IsInjective(f)
  BY <1>1 DEF ExistsBijection, Bijection, Injection, Surjection, IsInjective
<1>4. SetToSeq(S) \in [1..k -> S] /\ IsInjective(SetToSeq(S))
  BY <1>2, <1>3 DEF SetToSeq
<1>5. QED
  BY <1>4 DEF Range

-------------------------------------------------------------------------------
(* What the unit files say                                                   *)

(* What the parser yields for the files there may be.                        *)
Definitions == {UnitOf(file) : file \in {f \in Files : Failing(f) = {}}}

LEMMA KindOf == \A unit \in Definitions : unit.kind \in Kinds
<1>. SUFFICES ASSUME NEW file \in Files, Failing(file) = {}
              PROVE  UnitOf(file).kind \in Kinds
  BY DEF Definitions
<1>1. 4 \in DOMAIN Checks(file) /\ Checks(file)[4].when = (file.sections = {})
  BY DEF Checks
<1>2. file.sections # {} /\ file.sections \subseteq Kinds
  BY <1>1, UnitFilesAssumption DEF Failing
<1>3. \E kind \in Kinds : Is(file, kind)
  BY <1>2 DEF Is
<1>4. QED
  BY <1>3 DEF UnitOf

LEMMA DirsFacts ==
    /\ Len(Dirs) \in Nat /\ DOMAIN Dirs = 1..Len(Dirs)
    /\ \A i \in DOMAIN Dirs : Dirs[i] \in Range(Dirs)
    /\ \A dir \in Range(Dirs) : \E i \in DOMAIN Dirs : Dirs[i] = dir
  BY UnitFilesAssumption DEF Range

(* A unit is loaded from the last directory with a unit file of its name.    *)
LEMMA PlaceOf ==
    ASSUME NEW d, NEW n, Places(d, n) # {}
    PROVE  /\ Max(Places(d, n)) \in Places(d, n)
           /\ \A i \in Places(d, n) : i <= Max(Places(d, n))
<1>1. Places(d, n) \subseteq 1..Len(Dirs) /\ Len(Dirs) \in Nat
  BY DirsFacts DEF Places
<1>2. Places(d, n) \subseteq Nat /\ IsFiniteSet(Places(d, n))
  <2>1. IsFiniteSet(1..Len(Dirs))
    BY <1>1, FS_Interval
  <2>2. QED
    BY <1>1, <2>1, FS_Subset
<1>3. PICK i \in Places(d, n) : \A j \in Places(d, n) : j <= i
  BY <1>2, FirstAndLast
<1>4. \A j \in Places(d, n) : i >= j
  BY <1>2, <1>3
<1>5. /\ Max(Places(d, n)) \in Places(d, n)
      /\ \A j \in Places(d, n) : Max(Places(d, n)) >= j
  BY <1>4 DEF Max
<1>6. QED
  BY <1>2, <1>5

LEMMA ReadFrom ==
    ASSUME NEW d \in Disks, NEW n, NEW i \in Places(d, n)
    PROVE  /\ i \in DOMAIN Dirs /\ n \in DOMAIN d[Dirs[i]]
           /\ n \in Names /\ d[Dirs[i]][n] \in Files
           /\ Failing(d[Dirs[i]][n]) = {}
           /\ Parsed[d[Dirs[i]][n]].unit = UnitOf(d[Dirs[i]][n])
<1>1. i \in DOMAIN Dirs /\ IsUnit(d, Dirs[i], n)
  BY DEF Places
<1>2. Dirs[i] \in Range(Dirs)
  BY <1>1, DirsFacts
<1>3. PICK names \in SUBSET Names : d[Dirs[i]] \in [names -> Files]
  <2>1. d[Dirs[i]] \in UNION {[names -> Files] : names \in SUBSET Names}
    BY <1>2 DEF Disks
  <2>2. QED
    BY <2>1
<1>4. n \in DOMAIN d[Dirs[i]]
  <2>1. DOMAIN <<>> = {}
    OBVIOUS
  <2>2. QED
    BY <1>1, <2>1 DEF IsUnit, FilesIn
<1>5. n \in Names /\ d[Dirs[i]][n] \in Files
  BY <1>3, <1>4
<1>6. Parsed[d[Dirs[i]][n]].ok
  BY <1>1 DEF IsUnit
<1>7. Failing(d[Dirs[i]][n]) = {}
  BY <1>5, <1>6 DEF Parsed
<1>8. QED
  BY <1>1, <1>4, <1>5, <1>7 DEF Parsed

LEMMA LoadedNames ==
    ASSUME NEW d
    PROVE  /\ \A n \in DOMAIN LoadedUnits(d) : Places(d, n) # {}
           /\ \A n \in DOMAIN LoadedUnits(d) :
                LoadedUnits(d)[n] = Parsed[d[Dirs[Max(Places(d, n))]][n]].unit
  BY DEF LoadedUnits

(* Loading yields definitions the parser accepts, of known names.            *)
LEMMA Loaded ==
    ASSUME NEW d \in Disks
    PROVE  /\ DOMAIN LoadedUnits(d) \subseteq Names
           /\ \A n \in DOMAIN LoadedUnits(d) : LoadedUnits(d)[n] \in Definitions
           /\ IsFiniteSet(DOMAIN LoadedUnits(d))
           /\ IsFiniteSet(ServicesOf(LoadedUnits(d)))
<1>1. ASSUME NEW n \in DOMAIN LoadedUnits(d)
      PROVE  n \in Names /\ LoadedUnits(d)[n] \in Definitions
  <2>1. Max(Places(d, n)) \in Places(d, n)
    BY LoadedNames, PlaceOf
  <2>2. QED
    BY <2>1, LoadedNames, ReadFrom DEF Definitions
<1>2. IsFiniteSet(Names)
  BY ControlPlaneAssumption
<1>3. ServicesOf(LoadedUnits(d)) \subseteq DOMAIN LoadedUnits(d)
  BY DEF ServicesOf
<1>4. IsFiniteSet(DOMAIN LoadedUnits(d)) /\ IsFiniteSet(ServicesOf(LoadedUnits(d)))
  BY <1>1, <1>2, <1>3, FS_Subset
<1>5. QED
  BY <1>1, <1>4

(* With no error, every file is a unit, and the last directory that has one  *)
(* of a name decides.                                                        *)
LEMMA LoadedWhole ==
    ASSUME NEW d \in Disks, LoadErrors(d) = {}
    PROVE  /\ \A dir \in Range(Dirs) : DOMAIN d[dir] \subseteq DOMAIN LoadedUnits(d)
           /\ \A n \in DOMAIN LoadedUnits(d) : \E i \in DOMAIN Dirs :
                /\ n \in DOMAIN d[Dirs[i]]
                /\ \A j \in (i + 1)..Len(Dirs) : n \notin DOMAIN d[Dirs[j]]
                /\ LoadedUnits(d)[n] = UnitOf(d[Dirs[i]][n])
<1>1. ASSUME NEW dir \in Range(Dirs) PROVE FilesIn(d, dir) = d[dir]
  <2>1. d[dir] # Unreadable
    BY DEF LoadErrors
  <2>2. QED
    BY <2>1 DEF FilesIn
<1>2. ASSUME NEW dir \in Range(Dirs), NEW n \in DOMAIN d[dir] PROVE IsUnit(d, dir, n)
  <2>1. SUFFICES ASSUME ~IsUnit(d, dir, n) PROVE FALSE
    OBVIOUS
  <2>. DEFINE unread == {[dir |-> e, name |-> "", error |-> "Directory"] :
                           e \in {f \in Range(Dirs) : d[f] = Unreadable}}
              errors(e) == {[dir |-> e, name |-> name, error |-> Parsed[d[e][name]].error] :
                              name \in {m \in DOMAIN FilesIn(d, e) : ~IsUnit(d, e, m)}}
  <2>2. errors(dir) # {}
    BY <1>1, <2>1
  <2>3. LoadErrors(d) = unread \cup UNION {errors(e) : e \in Range(Dirs)}
    BY DEF LoadErrors
  <2>. HIDE DEF unread, errors
  <2>4. errors(dir) \subseteq LoadErrors(d)
    BY <2>3
  <2>5. QED
    BY <2>2, <2>4
<1>3. ASSUME NEW i \in DOMAIN Dirs, NEW n \in DOMAIN d[Dirs[i]]
      PROVE  i \in Places(d, n)
  BY <1>2, DirsFacts DEF Places
<1>4. ASSUME NEW dir \in Range(Dirs), NEW n \in DOMAIN d[dir]
      PROVE  n \in DOMAIN LoadedUnits(d)
  <2>1. PICK i \in DOMAIN Dirs : Dirs[i] = dir
    BY DirsFacts
  <2>2. Places(d, n) # {}
    BY <1>3, <2>1
  <2>3. n \in UNION {DOMAIN FilesIn(d, e) : e \in Range(Dirs)}
    BY <1>1, <1>4
  <2>4. QED
    BY <2>2, <2>3 DEF LoadedUnits
<1>5. ASSUME NEW n \in DOMAIN LoadedUnits(d)
      PROVE  LET i == Max(Places(d, n))
             IN  /\ i \in DOMAIN Dirs /\ n \in DOMAIN d[Dirs[i]]
                 /\ \A j \in (i + 1)..Len(Dirs) : n \notin DOMAIN d[Dirs[j]]
                 /\ LoadedUnits(d)[n] = UnitOf(d[Dirs[i]][n])
  <2>. DEFINE i == Max(Places(d, n))
  <2>1. i \in Places(d, n) /\ \A j \in Places(d, n) : j <= i
    BY LoadedNames, PlaceOf
  <2>2. /\ i \in DOMAIN Dirs /\ n \in DOMAIN d[Dirs[i]]
        /\ LoadedUnits(d)[n] = UnitOf(d[Dirs[i]][n])
    BY <2>1, LoadedNames, ReadFrom
  <2>. HIDE DEF i
  <2>3. ASSUME NEW j \in (i + 1)..Len(Dirs) PROVE n \notin DOMAIN d[Dirs[j]]
    BY <1>3, <2>1, <2>2, DirsFacts
  <2>4. QED
    BY <2>2, <2>3 DEF i
<1>6. QED
  BY <1>4, <1>5

-------------------------------------------------------------------------------
(* The invariant                                                             *)

Messages == {Nothing} \cup UNION {Requests[p] : p \in Peers}

Connections ==
    [at : {"away", "waiting", "accepted", "refused", "closed"}, sent : Messages, up : BOOLEAN]

(* A peer waits in the backlog at most once, and has a client exactly while  *)
(* it is accepted; a client's number was not given before.                   *)
Clients ==
    /\ peers \in [Peers -> Connections]
    /\ backlog \in Seq(Peers) /\ IsInjective(backlog)
    /\ \A p \in Range(backlog) : peers[p].at = "waiting"
    /\ nextId \in Nat
    /\ clients \subseteq [id : Nat, peer : Peers]
    /\ IsFiniteSet(clients) /\ Cardinality(clients) <= MaxClients
    /\ \A c \in clients : c.id < nextId /\ peers[c.peer].at = "accepted"
    /\ \A c, d \in clients : c.id = d.id \/ c.peer = d.peer => c = d
    /\ \A p \in Peers : peers[p].at = "accepted" => \E c \in clients : c.peer = p

(* What an event still to be handled announced is there, and one about a     *)
(* client is not about one that came after it.                               *)
There(event) ==
    \/ event = [source |-> "control", id |-> 0] /\ backlog # <<>>
    \/ /\ event.source = "client"
       /\ event.id < nextId
       /\ \A c \in clients : c.id = event.id => Readable(c)

Announcements == [source : {"control", "client"}, id : Nat]

Events ==
    /\ batch \in Seq(Announcements) /\ IsInjective(batch)
    /\ \A i \in DOMAIN batch : There(batch[i])
    /\ batch # <<>> => pc = "dispatch"

(* Every unit known has a definition the parser accepted, and every name     *)
(* anything refers to is one of them or was.                                 *)
Units ==
    /\ disk \in Disks
    /\ units = [n \in Known |-> units[n]] /\ Known \subseteq Names
    /\ \A n \in Known : units[n] \in [unit : Definitions, state : States]
    /\ pendingRestart \subseteq Names
    /\ pending \subseteq Range(order) /\ Range(order) \subseteq Names
    /\ Len(order) \in Nat /\ DOMAIN order = 1..Len(order) /\ IsInjective(order)

(* A queued unit that no reload replaced or dropped has what it is after     *)
(* either out of the queue or in front of it.                                *)
Queued ==
    /\ \A n \in pending \ touched :
        /\ n \in Known
        /\ \A i, j \in DOMAIN order :
            order[i] = n /\ order[j] \in pending \cap units[n].unit.after => j < i
    /\ pc = "wait" => Startable = {}

(* What epoll watches are the first cgroups, one per service of the boot.    *)
Watched ==
    /\ handles \in Seq(Names)
    /\ Len(watched) \in Nat /\ DOMAIN watched = 1..Len(watched) /\ IsInjective(watched)
    /\ \A id \in DOMAIN watched : id \in DOMAIN handles /\ handles[id] = watched[id]

CInv == Clients /\ Events /\ Units /\ Queued /\ Watched

-------------------------------------------------------------------------------
(* The initial states                                                        *)

LEMMA InitClients == Init => Clients /\ Events
<1>. SUFFICES ASSUME Init PROVE Clients /\ Events
  OBVIOUS
<1>1. IsFiniteSet(Early) /\ Early \subseteq Peers
  BY ControlPlaneAssumption, FS_Subset
<1>2. backlog \in Seq(Peers) /\ Range(backlog) \subseteq Early /\ IsInjective(backlog)
  <2>1. backlog = SetToSeq(Early)
    BY DEF Init
  <2>2. SetToSeq(Early) \in Seq(Early) /\ Range(SetToSeq(Early)) \subseteq Early
        /\ IsInjective(SetToSeq(Early))
    BY <1>1, Listed
  <2>3. SetToSeq(Early) \in Seq(Peers)
    BY <1>1, <2>2
  <2>4. QED
    BY <2>1, <2>2, <2>3
<1>3. /\ peers \in [Peers -> Connections]
      /\ \A p \in Early : peers[p].at = "waiting"
      /\ \A p \in Peers : peers[p].at # "accepted"
  BY <1>1 DEF Init, End, Connections, Messages
<1>4. clients = {} /\ IsFiniteSet(clients) /\ Cardinality(clients) = 0
  BY FS_EmptySet DEF Init
<1>5. Clients
  BY <1>2, <1>3, <1>4, ControlPlaneAssumption DEF Init, Clients
<1>6. Events
  BY DEF Init, Events, IsInjective
<1>7. QED
  BY <1>5, <1>6

LEMMA InitUnits == Init => Units /\ Queued /\ Watched
<1>. SUFFICES ASSUME Init PROVE Units /\ Queued /\ Watched
  OBVIOUS
<1>. DEFINE defs == LoadedUnits(FirstDisk)
            plans == {plan \in SetToSeqs(DOMAIN defs) : Ordered(plan, defs)}
<1>1. FirstDisk \in Disks
  BY ControlPlaneAssumption
<1>2. /\ DOMAIN defs \subseteq Names /\ IsFiniteSet(DOMAIN defs)
      /\ \A n \in DOMAIN defs : defs[n] \in Definitions
      /\ IsFiniteSet(ServicesOf(defs))
  BY <1>1, Loaded
<1>3. units = [n \in DOMAIN defs |-> New(defs[n])] /\ Known = DOMAIN defs
  BY DEF Init, Known
<1>4. \/ order = <<>>
      \/ order \in SetToSeqs(DOMAIN defs) /\ Ordered(order, defs)
  BY DEF Init
<1>5. pending = Range(order) /\ pc = "pump" /\ pendingRestart = {} /\ touched = {} /\ disk = FirstDisk
  BY DEF Init
<1>6. ServicesOf(defs) \subseteq Names
  BY <1>2 DEF ServicesOf
<1>7. handles = SetToSeq(ServicesOf(defs)) /\ watched = handles
  <2>1. SetToSeq(ServicesOf(defs)) \in Seq(ServicesOf(defs))
    BY <1>2, Listed
  <2>2. handles = <<>> \o SetToSeq(ServicesOf(defs)) /\ watched = handles
    BY DEF Init, Added
  <2>. HIDE DEF defs
  <2>3. QED
    BY <2>1, <2>2
<1>. HIDE DEF defs, plans
<1>8. /\ Len(order) \in Nat /\ DOMAIN order = 1..Len(order) /\ IsInjective(order)
      /\ Range(order) \subseteq DOMAIN defs
      /\ Ordered(order, defs)
  <2>1. CASE order = <<>>
    BY <2>1 DEF IsInjective, Range, Ordered
  <2>2. CASE order \in SetToSeqs(DOMAIN defs) /\ Ordered(order, defs)
    <3>1. /\ order \in [1..Cardinality(DOMAIN defs) -> DOMAIN defs]
          /\ \A i, j \in 1..Cardinality(DOMAIN defs) : i # j => order[i] # order[j]
      BY <2>2 DEF SetToSeqs
    <3>2. Cardinality(DOMAIN defs) \in Nat
      BY <1>2, FS_CardinalityType
    <3>3. order \in Seq(DOMAIN defs) /\ Len(order) = Cardinality(DOMAIN defs)
      BY <3>1, <3>2
    <3>4. QED
      BY <2>2, <3>1, <3>2, <3>3 DEF IsInjective, Range
  <2>3. QED
    BY <1>4, <2>1, <2>2
<1>9. Units
  <2>1. \A n \in Known : units[n] \in [unit : Definitions, state : States]
    BY <1>2, <1>3 DEF New, States
  <2>2. units = [n \in Known |-> units[n]]
    BY <1>3
  <2>3. QED
    BY <1>1, <1>2, <1>3, <1>5, <1>8, <2>1, <2>2 DEF Units
<1>10. Queued
  <2>1. \A n \in Known : units[n].unit = defs[n]
    BY <1>3 DEF New
  <2>2. QED
    BY <1>3, <1>5, <1>8, <2>1 DEF Queued, Ordered, Range
<1>11. Watched
  <2>1. /\ handles \in Seq(ServicesOf(defs)) /\ IsInjective(handles) /\ watched = handles
    BY <1>2, <1>7, Listed
  <2>2. handles \in Seq(Names)
    BY <1>6, <2>1
  <2>3. QED
    BY <2>1, <2>2 DEF Watched
<1>12. QED
  BY <1>9, <1>10, <1>11

-------------------------------------------------------------------------------
(* The units                                                                 *)

(* What every step of a unit leaves: its definition, the cgroups, and a      *)
(* queue with nothing new in it.                                             *)
KeepsUnits ==
    /\ units' = [n \in Known |-> units'[n]]
    /\ \A n \in Known :
        units'[n] \in [unit : Definitions, state : States] /\ units'[n].unit = units[n].unit
    /\ pending' \subseteq pending
    /\ pendingRestart' \subseteq pendingRestart \cup Known
    /\ UNCHANGED <<handles, touched>>

LEMMA StopStates ==
    ASSUME NEW unit \in [unit : Definitions, state : States]
    PROVE  StopOutcome(unit) \in States
  BY DEF StopOutcome, States

LEMMA StartedKeeps ==
    ASSUME Units, NEW n \in Known, Started(n)
    PROVE  /\ units' = [m \in Known |-> units'[m]]
           /\ \A m \in Known :
                units'[m] \in [unit : Definitions, state : States] /\ units'[m].unit = units[m].unit
<1>1. PICK outcome \in StartOutcome(n) :
        units' = [m \in Known |->
            [units[m] EXCEPT !.state = IF m = n THEN outcome
                                       ELSE IF m \in Excluded(n) THEN StopOutcome(units[m])
                                       ELSE @]]
  BY DEF Started
<1>2. outcome \in States
  BY DEF StartOutcome, States
<1>3. ASSUME NEW m \in Known
      PROVE  units'[m] \in [unit : Definitions, state : States] /\ units'[m].unit = units[m].unit
  <2>1. units[m] \in [unit : Definitions, state : States]
    BY DEF Units
  <2>2. StopOutcome(units[m]) \in States
    BY <2>1, StopStates
  <2>3. QED
    BY <1>1, <1>2, <2>1, <2>2
<1>4. QED
  BY <1>1, <1>3

LEMMA MovedKeeps ==
    ASSUME Units, NEW n \in Known, NEW state \in States,
           units' = [units EXCEPT ![n].state = state]
    PROVE  /\ units' = [m \in Known |-> units'[m]]
           /\ \A m \in Known :
                units'[m] \in [unit : Definitions, state : States] /\ units'[m].unit = units[m].unit
<1>1. units = [m \in Known |-> units[m]]
      /\ \A m \in Known : units[m] \in [unit : Definitions, state : States]
  BY DEF Units
<1>2. units' = [m \in Known |-> IF m = n THEN [units[m] EXCEPT !.state = state] ELSE units[m]]
  BY <1>1
<1>3. QED
  BY <1>1, <1>2

(* Every request but reload keeps them.                                      *)
LEMMA HandledKeeps ==
    ASSUME Units, NEW request, Handled(request)
    PROVE  KeepsUnits \/ (request.op = "reload" /\ Reload)
<1>1. CASE UNCHANGED unitVars
  BY <1>1 DEF unitVars, KeepsUnits, Units, Known
<1>2. CASE request.unit \in Known /\ UNCHANGED <<handles, touched>>
           /\ Start(request.unit) /\ UNCHANGED pendingRestart
  BY <1>2, StartedKeeps DEF Start, KeepsUnits, Queue
<1>3. CASE request.unit \in Known /\ UNCHANGED <<handles, touched>>
           /\ Stop(request.unit)
           /\ pendingRestart' \subseteq pendingRestart \cup {request.unit}
  <2>1. StopOutcome(units[request.unit]) \in States
    BY <1>3, StopStates DEF Units
  <2>2. QED
    BY <1>3, <2>1, MovedKeeps DEF Stop, KeepsUnits, Queue
<1>4. CASE request.unit \in Known /\ UNCHANGED <<handles, touched>>
           /\ Started(request.unit)
           /\ pending' = Queue({request.unit} \cup Excluded(request.unit))
           /\ UNCHANGED pendingRestart
  BY <1>4, StartedKeeps DEF KeepsUnits, Queue
<1>5. CASE request.op = "reload" /\ Reload
  BY <1>5
<1>6. QED
  BY <1>1, <1>2, <1>3, <1>4, <1>5 DEF Handled

LEMMA TurnKeeps ==
    ASSUME Units, NEW n \in Known, Turn(n)
    PROVE  KeepsUnits
<1>1. UNCHANGED <<handles, touched>>
  BY DEF Turn
<1>2. CASE Start(n) /\ pendingRestart' \subseteq pendingRestart
  BY <1>1, <1>2, StartedKeeps DEF Start, KeepsUnits, Queue
<1>3. CASE /\ \E state \in Moves(units[n].state) :
                /\ units' = [units EXCEPT ![n].state = state]
                /\ pending' = IF state = "Deactivating" THEN Queue({n}) ELSE pending
           /\ UNCHANGED pendingRestart
  <2>1. PICK state \in Moves(units[n].state) :
                /\ units' = [units EXCEPT ![n].state = state]
                /\ pending' = IF state = "Deactivating" THEN Queue({n}) ELSE pending
    BY <1>3
  <2>2. state \in States
    BY DEF Moves, States
  <2>3. QED
    BY <1>1, <1>3, <2>1, <2>2, MovedKeeps DEF KeepsUnits, Queue
<1>4. QED
  BY <1>2, <1>3 DEF Turn

LEMMA PumpKeeps ==
    ASSUME Units, PumpOne
    PROVE  KeepsUnits
<1>1. PICK n \in Startable :
        IF FailedRequirement(n)
        THEN /\ units' = [units EXCEPT ![n].state = "Failed"]
             /\ pending' = Queue({n})
        ELSE /\ Started(n)
             /\ pending' = Queue({n} \cup Excluded(n))
  BY DEF PumpOne
<1>2. n \in Known /\ "Failed" \in States
  BY DEF Startable, OrderingSatisfied, States
<1>3. UNCHANGED <<pendingRestart, handles, touched>>
  BY DEF PumpOne
<1>4. CASE FailedRequirement(n)
  BY <1>1, <1>2, <1>3, <1>4, MovedKeeps DEF KeepsUnits, Queue
<1>5. CASE ~FailedRequirement(n)
  BY <1>1, <1>2, <1>3, <1>5, StartedKeeps DEF KeepsUnits, Queue
<1>6. QED
  BY <1>4, <1>5

(* A step of a unit takes nothing out of its place in the queue.             *)
LEMMA KeepsUnitsInv ==
    ASSUME Units, Queued, Watched, KeepsUnits, UNCHANGED <<disk, fixed>>, pc' # "wait"
    PROVE  Units' /\ Queued' /\ Watched'
<1>1. DOMAIN units' = Known /\ Known' = Known
  BY DEF KeepsUnits, Known
<1>2. UNCHANGED <<disk, order, watched, handles, touched>>
  BY DEF fixed, KeepsUnits
<1>3. Units'
  BY <1>1, <1>2 DEF Units, KeepsUnits, Range
<1>4. Queued'
  BY <1>1, <1>2 DEF Queued, KeepsUnits
<1>5. Watched'
  BY <1>2 DEF Watched, IsInjective
<1>6. QED
  BY <1>3, <1>4, <1>5

(* Nor does anything that leaves the units alone.                            *)
LEMMA UnitsAside ==
    ASSUME Units, Queued, Watched, UNCHANGED <<unitVars, fixed>>, disk' \in Disks,
           pc' = "wait" => pc = "wait" \/ Startable = {}
    PROVE  Units' /\ Queued' /\ Watched'
<1>1. UNCHANGED <<units, pending, pendingRestart, handles, touched, order, watched>>
  BY DEF unitVars, fixed
<1>2. Units'
  BY <1>1 DEF Units, Known, Range, IsInjective
<1>3. Startable' = Startable
  BY <1>1 DEF Startable, OrderingSatisfied, Known
<1>4. Queued'
  BY <1>1, <1>3 DEF Queued, Known
<1>5. Watched'
  BY <1>1 DEF Watched, IsInjective
<1>6. QED
  BY <1>2, <1>4, <1>5

(* What a reload that is not refused replaces, and what it leaves.           *)
Replaced ==
    {n \in DOMAIN LoadedUnits(disk) : n \in Known =>
        units[n].unit # LoadedUnits(disk)[n] /\ MayReplace(units[n])}

Left == {n \in Known \ Replaced : n \in DOMAIN LoadedUnits(disk) \/ ~Idle(units[n].state)}

LEMMA Reloaded ==
    ASSUME Reload, LoadErrors(disk) = {}
    PROVE  /\ units' = [n \in Replaced \cup Left |->
                            IF n \in Replaced THEN New(LoadedUnits(disk)[n]) ELSE units[n]]
           /\ handles' = Added(handles, SetToSeq(ServicesOf(LoadedUnits(disk)) \cap Replaced))
           /\ touched' = touched \cup (pending \cap (Replaced \cup (Known \ Left)))
           /\ UNCHANGED <<pending, pendingRestart>>
  BY DEF Reload, Replaced, Left

(* A reload remembers what it touched, and appends its cgroups.              *)
LEMMA ReloadInv ==
    ASSUME Units, Queued, Watched, Reload, UNCHANGED <<disk, fixed>>, pc' # "wait"
    PROVE  Units' /\ Queued' /\ Watched'
<1>1. CASE LoadErrors(disk) # {}
  <2>1. UNCHANGED unitVars /\ disk' \in Disks
    BY <1>1 DEF Reload, Units
  <2>2. QED
    BY <2>1, UnitsAside
<1>2. CASE LoadErrors(disk) = {}
  <2>. DEFINE defs == LoadedUnits(disk)
              services == ServicesOf(defs) \cap Replaced
  <2>1. /\ units' = [n \in Replaced \cup Left |->
                        IF n \in Replaced THEN New(defs[n]) ELSE units[n]]
        /\ handles' = Added(handles, SetToSeq(services))
        /\ touched' = touched \cup (pending \cap (Replaced \cup (Known \ Left)))
        /\ UNCHANGED <<pending, pendingRestart>>
    BY <1>2, Reloaded
  <2>2. /\ DOMAIN defs \subseteq Names /\ IsFiniteSet(ServicesOf(defs))
        /\ \A n \in DOMAIN defs : defs[n] \in Definitions
    BY Loaded DEF Units
  <2>3. Replaced \subseteq DOMAIN defs /\ Left \subseteq Known \ Replaced
    BY DEF Replaced, Left
  <2>4. services \subseteq Names /\ IsFiniteSet(services)
    <3>1. services \subseteq ServicesOf(defs)
      OBVIOUS
    <3>2. IsFiniteSet(services)
      BY <2>2, <3>1, FS_Subset
    <3>3. QED
      BY <2>2, <3>2 DEF ServicesOf
  <2>5. SetToSeq(services) \in Seq(Names)
    <3>1. SetToSeq(services) \in Seq(services)
      BY <2>4, Listed
    <3>. HIDE DEF services
    <3>2. QED
      BY <2>4, <3>1
  <2>6. UNCHANGED <<disk, order, watched>>
    BY DEF fixed
  <2>. HIDE DEF defs, services
  <2>7. Known' = Replaced \cup Left
    BY <2>1 DEF Known
  <2>8. \A n \in Known' : units'[n] \in [unit : Definitions, state : States]
    <3>1. \A n \in Replaced : New(defs[n]) \in [unit : Definitions, state : States]
      BY <2>2, <2>3 DEF New, States
    <3>2. \A n \in Left : units[n] \in [unit : Definitions, state : States]
      BY <2>3 DEF Units
    <3>3. QED
      BY <2>1, <2>7, <3>1, <3>2
  <2>9. Units'
    <3>1. units' = [n \in Known' |-> units'[n]] /\ Known' \subseteq Names
      BY <2>1, <2>2, <2>3, <2>7 DEF Units
    <3>2. QED
      BY ZenonT(40), <2>1, <2>6, <2>8, <3>1 DEF Units, Range, IsInjective
  <2>10. Queued'
    <3>1. \A n \in pending' \ touched' : n \in Left /\ n \in pending \ touched
      BY <2>1 DEF Queued
    <3>2. \A n \in pending' \ touched' : n \in Known' /\ units'[n] = units[n]
      BY <2>1, <2>3, <2>7, <3>1
    <3>3. QED
      BY <2>1, <2>6, <3>1, <3>2 DEF Queued
  <2>11. Watched'
    <3>1. handles' = handles \o SetToSeq(services) /\ handles \in Seq(Names)
      BY <2>1 DEF Added, Watched
    <3>2. /\ handles' \in Seq(Names)
          /\ \A id \in DOMAIN handles : id \in DOMAIN handles' /\ handles'[id] = handles[id]
      BY <2>5, <3>1
    <3>3. QED
      BY <2>6, <3>2 DEF Watched, IsInjective
  <2>12. QED
    BY <2>9, <2>10, <2>11
<1>3. QED
  BY <1>1, <1>2

-------------------------------------------------------------------------------
(* The connections                                                           *)

(* A step that leaves the connections alone announces nothing either.        *)
LEMMA ConnectionsAside ==
    ASSUME Clients, Events, UNCHANGED <<backlog, clients, nextId, peers, batch>>,
           batch = <<>> \/ pc' = pc
    PROVE  Clients' /\ Events'
<1>1. Clients'
  BY DEF Clients, Range, IsInjective
<1>2. \A event : There(event)' = There(event)
  BY DEF There, Readable, Hung
<1>3. Events'
  BY <1>2 DEF Events, IsInjective
<1>4. QED
  BY <1>1, <1>3

(* epoll_wait announces what is there.                                       *)
LEMMA WakeConnections ==
    ASSUME Clients, Events, Wake
    PROVE  Clients' /\ Events'
<1>1. /\ UNCHANGED <<backlog, clients, nextId, peers>>
      /\ batch' \in SetToSeqs(Ready) /\ pc' = "dispatch"
  BY DEF Wake
<1>2. Clients'
  BY <1>1 DEF Clients, Range, IsInjective
<1>3. Ready \subseteq Announcements
  BY DEF Ready, Clients, Announcements
<1>4. IsFiniteSet(Ready)
  <2>. DEFINE heard == {c \in clients : Readable(c)}
              told == {[source |-> "client", id |-> c.id] : c \in heard}
              others == IF backlog # <<>> THEN {[source |-> "control", id |-> 0]} ELSE {}
  <2>1. IsFiniteSet(heard)
    BY FS_Subset DEF Clients
  <2>2. IsFiniteSet(told)
    <3>. DEFINE f == [c \in heard |-> [source |-> "client", id |-> c.id]]
    <3>1. f \in Surjection(heard, told)
      BY DEF Surjection
    <3>. HIDE DEF f, heard, told
    <3>2. QED
      BY <2>1, <3>1, FS_Surjection
  <2>3. IsFiniteSet(others)
    BY FS_EmptySet, FS_Singleton
  <2>4. Ready = others \cup told
    BY DEF Ready
  <2>. HIDE DEF others, told
  <2>5. QED
    BY <2>2, <2>3, <2>4, FS_Union
<1>5. /\ batch' \in [1..Cardinality(Ready) -> Ready]
      /\ \A i, j \in 1..Cardinality(Ready) : i # j => batch'[i] # batch'[j]
  BY <1>1 DEF SetToSeqs
<1>6. Cardinality(Ready) \in Nat
  BY <1>4, FS_CardinalityType
<1>7. /\ batch' \in Seq(Announcements)
      /\ DOMAIN batch' = 1..Cardinality(Ready)
  <2>1. batch' \in [1..Cardinality(Ready) -> Announcements]
    BY <1>3, <1>5
  <2>2. QED
    BY <1>6, <2>1
<1>8. IsInjective(batch')
  BY <1>5, <1>7 DEF IsInjective
<1>9. \A event \in Ready : There(event)
  BY DEF Ready, There, Clients
<1>10. \A event : There(event)' = There(event)
  BY <1>1 DEF There, Readable, Hung
<1>11. Events'
  BY <1>1, <1>5, <1>7, <1>8, <1>9, <1>10 DEF Events
<1>12. QED
  BY <1>2, <1>11

(* Taking the first of a batch leaves the rest of it as it was, and no other *)
(* of it is the same.                                                        *)
LEMMA RestOfBatch ==
    ASSUME Events, batch # <<>>
    PROVE  /\ Tail(batch) \in Seq(Announcements)
           /\ IsInjective(Tail(batch))
           /\ There(Head(batch))
           /\ \A i \in DOMAIN Tail(batch) :
                /\ There(Tail(batch)[i]) /\ Tail(batch)[i] # Head(batch)
                /\ Tail(batch)[i].id \in Nat
<1>1. batch \in Seq(Announcements)
  BY DEF Events
<1>2. /\ Tail(batch) \in Seq(Announcements)
      /\ 1 \in DOMAIN batch /\ Head(batch) = batch[1]
      /\ \A i \in DOMAIN Tail(batch) :
            i + 1 \in DOMAIN batch /\ Tail(batch)[i] = batch[i + 1] /\ i + 1 # 1 /\ i \in Nat
  BY <1>1
<1>3. IsInjective(Tail(batch))
  BY <1>2 DEF Events, IsInjective
<1>4. \A i \in DOMAIN Tail(batch) : Tail(batch)[i].id \in Nat
  <2>1. \A i \in DOMAIN Tail(batch) : Tail(batch)[i] \in Announcements
    BY <1>2
  <2>2. QED
    BY <2>1 DEF Announcements
<1>5. QED
  BY <1>2, <1>3, <1>4 DEF Events, IsInjective

(* accept takes the peer that was announced; one connection per event.       *)
LEMMA ConnectConnections ==
    ASSUME Clients, Events, NEW registered \in BOOLEAN, OnConnect(registered)
    PROVE  Clients' /\ Events'
<1>. DEFINE p == Head(backlog)
<1>1. /\ batch # <<>> /\ Head(batch).source = "control" /\ batch' = Tail(batch)
      /\ pc = "dispatch" /\ pc' = pc /\ backlog' = Tail(backlog)
  BY DEF OnConnect, Handling
<1>2. Head(batch) = [source |-> "control", id |-> 0] /\ backlog # <<>>
  BY <1>1, RestOfBatch DEF There
<1>3. /\ p \in Peers /\ p \in Range(backlog) /\ peers[p].at = "waiting"
      /\ backlog' \in Seq(Peers) /\ IsInjective(backlog')
      /\ \A q \in Range(backlog') : q \in Range(backlog) /\ q # p
  <2>1. backlog \in Seq(Peers) /\ IsInjective(backlog)
    BY DEF Clients
  <2>2. /\ 1 \in DOMAIN backlog /\ p = backlog[1] /\ p \in Peers
        /\ Tail(backlog) \in Seq(Peers)
        /\ \A i \in DOMAIN Tail(backlog) :
            i + 1 \in DOMAIN backlog /\ Tail(backlog)[i] = backlog[i + 1] /\ i + 1 # 1 /\ i \in Nat
    BY <1>2, <2>1
  <2>. HIDE DEF p
  <2>3. IsInjective(Tail(backlog))
    BY <2>1, <2>2 DEF IsInjective
  <2>4. QED
    BY <1>1, <2>1, <2>2, <2>3 DEF Clients, Range, IsInjective
<1>4. \A c \in clients : c.peer # p
  BY <1>3 DEF Clients
<1>5. /\ \A i \in DOMAIN batch' :
            There(batch'[i]) /\ batch'[i].source = "client" /\ batch'[i].id \in Nat
      /\ batch' \in Seq(Announcements) /\ IsInjective(batch')
  BY <1>1, <1>2, RestOfBatch DEF There
<1>6. CASE /\ peers' = RefusedTo(p)
           /\ nextId' \in {nextId, nextId + 1} /\ UNCHANGED clients
  <2>1. /\ peers' \in [Peers -> Connections]
        /\ \A q \in Peers : q # p => peers'[q] = peers[q]
        /\ peers'[p].at = "refused"
    <3>1. peers \in [Peers -> Connections] /\ p \in Peers
      BY <1>3 DEF Clients
    <3>2. [End("refused") EXCEPT !.sent = peers[p].sent] \in Connections
      BY <3>1 DEF Connections, End
    <3>. HIDE DEF p
    <3>3. QED
      BY <1>6, <3>1, <3>2 DEF RefusedTo, End
  <2>. HIDE DEF p
  <2>2. Clients'
    <3>1. \A q \in Range(backlog') : q # p /\ q \in Range(backlog) /\ peers'[q] = peers[q]
      <4>1. \A q \in Range(backlog) : q \in Peers
        BY DEF Clients, Range
      <4>2. QED
        BY <1>3, <2>1, <4>1
    <3>2. \A q \in Range(backlog') : peers'[q].at = "waiting"
      BY <3>1 DEF Clients
    <3>3. \A c \in clients : c.peer # p /\ c.peer \in Peers /\ peers'[c.peer] = peers[c.peer]
      BY <1>4, <2>1 DEF Clients
    <3>4. \A c \in clients : c.id < nextId' /\ peers'[c.peer].at = "accepted"
      BY <1>6, <3>3 DEF Clients
    <3>5. \A q \in Peers : peers'[q].at = "accepted" => \E c \in clients : c.peer = q
      BY <2>1 DEF Clients
    <3>6. nextId' \in Nat
      BY <1>6 DEF Clients
    <3>7. QED
      BY <1>3, <1>6, <2>1, <3>2, <3>4, <3>5, <3>6 DEF Clients
  <2>3. ASSUME NEW i \in DOMAIN batch' PROVE There(batch[i])'
    <3>1. /\ batch'[i].source = "client" /\ batch'[i].id < nextId
          /\ \A c \in clients : c.id = batch'[i].id => Readable(c)
      BY <1>5 DEF There
    <3>2. batch'[i].id < nextId'
      BY <1>5, <1>6, <3>1 DEF Clients
    <3>3. \A c \in clients : c.id = batch'[i].id => Readable(c)'
      BY <1>4, <2>1, <3>1 DEF Readable, Hung, Clients
    <3>4. QED
      BY <1>6, <3>1, <3>2, <3>3 DEF There
  <2>4. QED
    BY <1>1, <1>5, <2>2, <2>3 DEF Events
<1>7. CASE /\ Cardinality(clients) < MaxClients
           /\ nextId' = nextId + 1
           /\ clients' = clients \cup {[id |-> nextId, peer |-> p]}
           /\ peers' = [peers EXCEPT ![p].at = "accepted"]
  <2>. DEFINE new == [id |-> nextId, peer |-> p]
  <2>1. /\ peers' \in [Peers -> Connections]
        /\ \A q \in Peers : q # p => peers'[q] = peers[q]
        /\ peers'[p].at = "accepted"
    BY <1>3, <1>7 DEF Clients, Connections
  <2>2. IsFiniteSet(clients') /\ Cardinality(clients') <= MaxClients
    <3>1. new \notin clients
      BY <1>4
    <3>2. IsFiniteSet(clients) /\ Cardinality(clients) \in Nat
      BY FS_CardinalityType DEF Clients
    <3>3. IsFiniteSet(clients') /\ Cardinality(clients') = Cardinality(clients) + 1
      BY <1>7, <3>1, <3>2, FS_AddElement
    <3>4. QED
      BY <1>7, <3>2, <3>3, ControlPlaneAssumption
  <2>3. clients' \subseteq [id : Nat, peer : Peers] /\ nextId' \in Nat /\ nextId \in Nat
    BY <1>3, <1>7 DEF Clients
  <2>4. \A c \in clients' : c = new \/ (c \in clients /\ c.peer # p /\ c.id < nextId /\ c.id \in Nat)
    BY <1>4, <1>7 DEF Clients
  <2>. HIDE DEF p
  <2>5. /\ \A c \in clients' : c.id < nextId' /\ peers'[c.peer].at = "accepted"
        /\ \A c, d \in clients' : c.id = d.id \/ c.peer = d.peer => c = d
    BY <1>7, <2>1, <2>3, <2>4 DEF Clients
  <2>6. \A q \in Peers : peers'[q].at = "accepted" => \E c \in clients' : c.peer = q
    <3>1. new \in clients' /\ new.peer = p /\ clients \subseteq clients'
      BY <1>7
    <3>. HIDE DEF new
    <3>2. QED
      BY <2>1, <3>1 DEF Clients
  <2>7. Clients'
    <3>1. \A q \in Range(backlog') : peers'[q].at = "waiting"
      <4>1. \A q \in Range(backlog) : q \in Peers /\ peers[q].at = "waiting"
        BY DEF Clients, Range
      <4>2. QED
        BY <1>3, <2>1, <4>1
    <3>2. QED
      BY <1>3, <2>1, <2>2, <2>3, <2>5, <2>6, <3>1 DEF Clients
  <2>8. ASSUME NEW i \in DOMAIN batch' PROVE There(batch[i])'
    <3>1. /\ batch'[i].source = "client" /\ batch'[i].id < nextId
          /\ \A c \in clients : c.id = batch'[i].id => Readable(c)
      BY <1>5 DEF There
    <3>2. batch'[i].id \in Nat
      BY <1>5
    <3>3. \A c \in clients' : c.id = batch'[i].id => c \in clients /\ c.peer # p
      BY <2>3, <2>4, <3>1, <3>2
    <3>4. \A c \in clients' : c.id = batch'[i].id => Readable(c)'
      BY <2>1, <3>1, <3>3 DEF Readable, Hung, Clients
    <3>5. batch'[i].id < nextId'
      BY <1>7, <2>3, <3>1, <3>2
    <3>6. QED
      BY <3>1, <3>4, <3>5 DEF There
  <2>9. QED
    BY <1>1, <1>5, <2>7, <2>8 DEF Events
<1>8. QED
  <2>1. Cardinality(clients) \in Nat
    BY FS_CardinalityType DEF Clients
  <2>2. ~(Cardinality(clients) >= MaxClients) => Cardinality(clients) < MaxClients
    BY <2>1, ControlPlaneAssumption
  <2>3. QED
    BY <1>6, <1>7, <2>2 DEF OnConnect, NewId

(* A handled client is gone with its connection; every other one is as it    *)
(* was, and so is what was announced of it.                                  *)
LEMMA RequestConnections ==
    ASSUME Clients, Events, OnRequest
    PROVE  Clients' /\ Events'
<1>. DEFINE id == Head(batch).id
            mine == {c \in clients : c.id = id}
<1>1. /\ batch # <<>> /\ batch' = Tail(batch) /\ pc' = pc
      /\ pc = "dispatch" /\ UNCHANGED <<backlog, nextId>>
  BY DEF OnRequest, Handling
<1>2. /\ batch' \in Seq(Announcements) /\ IsInjective(batch')
      /\ \A i \in DOMAIN batch' : There(batch'[i])
  BY <1>1, RestOfBatch
<1>3. CASE UNCHANGED <<clients, peers>>
  <2>1. Clients'
    BY <1>1, <1>3 DEF Clients, Range, IsInjective
  <2>2. \A i \in DOMAIN batch' : There(batch[i])'
    BY <1>1, <1>2, <1>3 DEF There, Readable, Hung
  <2>3. QED
    BY <1>1, <1>2, <2>1, <2>2 DEF Events
<1>4. ASSUME NEW client \in mine,
             clients' = Remaining(id, peers[client.peer].sent),
             peers' = [p \in Peers |->
                IF p \in {c.peer : c \in clients \ Remaining(id, peers[client.peer].sent)}
                THEN End("closed") ELSE peers[p]]
      PROVE  Clients' /\ Events'
  <2>1. /\ client \in clients /\ client.id = id
        /\ clients' = clients \ {client}
    BY <1>4 DEF Remaining, Clients
  <2>2. peers' = [p \in Peers |-> IF p = client.peer THEN End("closed") ELSE peers[p]]
    BY <1>4, <2>1
  <2>. HIDE DEF id, mine
  <2>3. \A c \in clients' : c \in clients /\ c.peer \in Peers /\ c.peer # client.peer
    BY <2>1 DEF Clients
  <2>4. peers' \in [Peers -> Connections]
    BY <2>2 DEF Clients, Connections, End, Messages
  <2>5. IsFiniteSet(clients') /\ Cardinality(clients') <= MaxClients
    <3>1. /\ IsFiniteSet(clients) /\ Cardinality(clients) \in Nat
          /\ Cardinality(clients) <= MaxClients
      BY FS_CardinalityType DEF Clients
    <3>2. IsFiniteSet(clients') /\ Cardinality(clients') = Cardinality(clients) - 1
      BY <2>1, <3>1, FS_RemoveElement
    <3>3. QED
      BY <3>1, <3>2, ControlPlaneAssumption
  <2>6. \A p \in Range(backlog) : p \in Peers /\ peers[p].at = "waiting" /\ p # client.peer
    BY <2>1 DEF Clients, Range
  <2>7. \A c \in clients' : peers'[c.peer] = peers[c.peer]
    BY <2>2, <2>3
  <2>8. \A p \in Peers : peers'[p].at = "accepted" => \E c \in clients' : c.peer = p
    <3>1. \A p \in Peers : peers'[p].at = "accepted" => p # client.peer /\ peers[p].at = "accepted"
      BY <2>2 DEF End
    <3>2. QED
      BY <2>1, <3>1 DEF Clients
  <2>9. Clients'
    <3>1. \A p \in Range(backlog) : peers'[p].at = "waiting"
      BY <2>2, <2>6
    <3>2. \A c \in clients' : c.id < nextId /\ peers'[c.peer].at = "accepted"
      BY <2>3, <2>7 DEF Clients
    <3>3. \A c, d \in clients' : c.id = d.id \/ c.peer = d.peer => c = d
      BY <2>1 DEF Clients
    <3>4. clients' \subseteq [id : Nat, peer : Peers]
      BY <2>1 DEF Clients
    <3>5. /\ backlog' \in Seq(Peers) /\ IsInjective(backlog') /\ nextId' \in Nat
          /\ Range(backlog') = Range(backlog) /\ nextId' = nextId
      BY <1>1 DEF Clients
    <3>6. QED
      BY <2>4, <2>5, <2>8, <3>1, <3>2, <3>3, <3>4, <3>5 DEF Clients
  <2>10. \A c \in clients' : Readable(c)' = Readable(c)
    BY <2>7 DEF Readable, Hung
  <2>11. \A i \in DOMAIN batch' : There(batch[i])'
    BY <1>1, <1>2, <2>3, <2>10 DEF There
  <2>12. QED
    BY <1>1, <1>2, <2>9, <2>11 DEF Events
<1>5. QED
  BY <1>3, <1>4 DEF OnRequest

LEMMA ConnectKeeps ==
    ASSUME Clients, Events, NEW p \in Peers, Connect(p)
    PROVE  Clients' /\ Events'
<1>1. /\ pc = "wait" /\ pc' = pc /\ peers[p].at = "away"
      /\ peers' = [peers EXCEPT ![p].at = "waiting"]
      /\ backlog' = Append(backlog, p)
      /\ UNCHANGED <<clients, nextId, batch>>
  BY DEF Connect
<1>2. batch = <<>>
  BY <1>1 DEF Events
<1>3. /\ peers' \in [Peers -> Connections]
      /\ \A q \in Peers : q # p => peers'[q] = peers[q]
      /\ peers'[p].at = "waiting"
  <2>1. peers \in [Peers -> Connections]
    BY DEF Clients
  <2>2. QED
    BY <1>1, <2>1 DEF Connections
<1>4. /\ backlog \in Seq(Peers) /\ IsInjective(backlog)
      /\ \A q \in Range(backlog) : q \in Peers /\ q # p /\ peers[q].at = "waiting"
  BY <1>1 DEF Clients, Range
<1>5. /\ backlog' \in Seq(Peers) /\ DOMAIN backlog' = 1..(Len(backlog) + 1)
      /\ DOMAIN backlog = 1..Len(backlog) /\ Len(backlog) \in Nat
      /\ \A i \in DOMAIN backlog : backlog'[i] = backlog[i] /\ backlog[i] # p
      /\ backlog'[Len(backlog) + 1] = p
  BY <1>1, <1>4 DEF Range
<1>6. IsInjective(backlog')
  BY <1>4, <1>5 DEF IsInjective
<1>7. \A q \in Range(backlog') : peers'[q].at = "waiting"
  <2>1. \A q \in Range(backlog') : q = p \/ q \in Range(backlog)
    BY <1>5 DEF Range
  <2>2. QED
    BY <1>3, <1>4, <2>1
<1>8. \A c \in clients : c.peer \in Peers /\ c.peer # p
  BY <1>1 DEF Clients
<1>9. Clients'
  BY <1>1, <1>3, <1>5, <1>6, <1>7, <1>8 DEF Clients
<1>10. Events'
  BY <1>1, <1>2 DEF Events, IsInjective
<1>11. QED
  BY <1>9, <1>10

LEMMA PeerKeeps ==
    ASSUME Clients, Events, NEW p \in Peers, Send(p) \/ HangUp(p)
    PROVE  Clients' /\ Events'
<1>1. /\ pc = "wait" /\ pc' = pc /\ UNCHANGED <<backlog, clients, nextId, batch>>
  BY DEF Send, HangUp
<1>2. batch = <<>>
  BY <1>1 DEF Events
<1>3. peers' \in [Peers -> Connections] /\ \A q \in Peers : peers'[q].at = peers[q].at
  <2>. peers \in [Peers -> Connections]
    BY DEF Clients
  <2>1. CASE Send(p)
    <3>1. PICK request \in Requests[p] : peers' = [peers EXCEPT ![p].sent = request]
      BY <2>1 DEF Send
    <3>2. request \in Messages
      BY DEF Messages
    <3>3. QED
      BY <3>1, <3>2 DEF Connections
  <2>2. CASE HangUp(p)
    BY <2>2 DEF HangUp, Connections
  <2>3. QED
    BY <2>1, <2>2
<1>4. \A q \in Range(backlog) : q \in Peers /\ peers[q].at = "waiting"
  BY DEF Clients, Range
<1>5. \A c \in clients : c.peer \in Peers
  BY DEF Clients
<1>6. Clients'
  BY <1>1, <1>3, <1>4, <1>5 DEF Clients, IsInjective
<1>7. Events'
  BY <1>1, <1>2 DEF Events, IsInjective
<1>8. QED
  BY <1>6, <1>7

-------------------------------------------------------------------------------
(* Every step                                                                *)

(* Editing leaves files of known names.                                      *)
LEMMA EditKeepsDisks ==
    ASSUME Units, NEW edit \in Edits, Edit(edit)
    PROVE  disk' \in Disks
<1>1. disk \in Disks /\ edit.dir \in Range(Dirs) /\ edit.name \in Names /\ edit.file \in Files
  BY ControlPlaneAssumption DEF Units
<1>. DEFINE Contents == UNION {[names -> Files] : names \in SUBSET Names}
            old == disk[edit.dir]
            less == [m \in DOMAIN old \ {edit.name} |-> old[m]]
            more == [m \in DOMAIN old \cup {edit.name} |->
                        IF m = edit.name THEN edit.file ELSE old[m]]
<1>2. disk \in [Range(Dirs) -> Contents]
  BY <1>1 DEF Disks
<1>3. disk' = [disk EXCEPT ![edit.dir] = less] \/ disk' = [disk EXCEPT ![edit.dir] = more]
  BY DEF Edit
<1>4. PICK names \in SUBSET Names : old \in [names -> Files]
  <2>1. old \in Contents
    BY <1>1, <1>2
  <2>2. QED
    BY <2>1
<1>5. less \in [names \ {edit.name} -> Files] /\ names \ {edit.name} \in SUBSET Names
  BY <1>4
<1>6. more \in [names \cup {edit.name} -> Files] /\ names \cup {edit.name} \in SUBSET Names
  BY <1>1, <1>4
<1>7. less \in Contents /\ more \in Contents
  BY <1>5, <1>6
<1>. HIDE DEF less, more, Contents
<1>8. disk' \in [Range(Dirs) -> Contents]
  BY <1>1, <1>2, <1>3, <1>7
<1>9. QED
  BY <1>8 DEF Disks, Contents

LEMMA InitCInv == Init => CInv
  BY InitClients, InitUnits DEF CInv

LEMMA NextKeepsCInv == CInv /\ [Next]_vars => CInv'
<1>. SUFFICES ASSUME CInv, [Next]_vars PROVE CInv'
  OBVIOUS
<1>. USE DEF CInv
<1>1. CASE UNCHANGED vars
  BY <1>1, ConnectionsAside, UnitsAside DEF vars, loopVars, Units
<1>2. CASE Wake
  <2>1. Units' /\ Queued' /\ Watched'
    BY <1>2, UnitsAside DEF Wake, Units
  <2>2. QED
    BY <1>2, <2>1, WakeConnections
<1>3. ASSUME NEW registered \in BOOLEAN, OnConnect(registered) PROVE CInv'
  <2>1. Units' /\ Queued' /\ Watched'
    BY <1>3, UnitsAside DEF OnConnect, Handling, Units
  <2>2. QED
    BY <1>3, <2>1, ConnectConnections
<1>4. CASE OnRequest
  <2>1. pc' = "dispatch" /\ UNCHANGED <<disk, fixed>>
    BY <1>4 DEF OnRequest, Handling, fixed
  <2>2. Units' /\ Queued' /\ Watched'
    <3>1. CASE UNCHANGED unitVars
      BY <2>1, <3>1, UnitsAside DEF Units
    <3>2. CASE \E request : Handled(request)
      BY <2>1, <3>2, HandledKeeps, KeepsUnitsInv, ReloadInv
    <3>3. QED
      BY <1>4, <3>1, <3>2 DEF OnRequest
  <2>3. QED
    BY <1>4, <2>2, RequestConnections
<1>5. CASE Dispatched
  <2>1. Units' /\ Queued' /\ Watched'
    BY <1>5, UnitsAside DEF Dispatched, Units
  <2>2. QED
    BY <1>5, <2>1, ConnectionsAside DEF Dispatched
<1>6. CASE PumpOne
  <2>1. KeepsUnits
    BY <1>6, PumpKeeps
  <2>2. pc = "pump" /\ UNCHANGED <<disk, fixed, backlog, clients, nextId, peers, batch, pc>>
    BY <1>6 DEF PumpOne, loopVars
  <2>3. QED
    BY <2>1, <2>2, KeepsUnitsInv, ConnectionsAside
<1>7. CASE Pumped
  <2>1. batch = <<>>
    BY <1>7 DEF Pumped, Events
  <2>2. Units' /\ Queued' /\ Watched'
    BY <1>7, UnitsAside DEF Pumped, Units
  <2>3. QED
    BY <1>7, <2>1, <2>2, ConnectionsAside DEF Pumped
<1>8. ASSUME NEW n \in Known, Turn(n) PROVE CInv'
  <2>1. KeepsUnits
    BY <1>8, TurnKeeps
  <2>2. /\ pc = "wait" /\ pc' = "pump"
        /\ UNCHANGED <<disk, fixed, backlog, clients, nextId, peers, batch>>
    BY <1>8 DEF Turn, fixed
  <2>3. batch = <<>>
    BY <2>2 DEF Events
  <2>4. QED
    BY <2>1, <2>2, <2>3, KeepsUnitsInv, ConnectionsAside
<1>9. ASSUME NEW p \in Peers, Connect(p) \/ Send(p) \/ HangUp(p) PROVE CInv'
  <2>1. pc = "wait" /\ UNCHANGED <<unitVars, fixed, disk>>
    BY <1>9 DEF Connect, Send, HangUp, fixed
  <2>2. Units' /\ Queued' /\ Watched'
    BY <2>1, UnitsAside DEF Units
  <2>3. QED
    BY <1>9, <2>2, ConnectKeeps, PeerKeeps
<1>10. ASSUME NEW edit \in Edits, Edit(edit) PROVE CInv'
  <2>1. disk' \in Disks
    BY <1>10, EditKeepsDisks
  <2>2. UNCHANGED <<unitVars, fixed, backlog, clients, nextId, peers, batch, pc>>
    BY <1>10 DEF Edit, loopVars, fixed
  <2>3. QED
    BY <2>1, <2>2, UnitsAside, ConnectionsAside
<1>11. QED
  BY <1>1, <1>2, <1>3, <1>4, <1>5, <1>6, <1>7, <1>8, <1>9, <1>10 DEF Next

LEMMA ControlInvariant == Spec => []CInv
  BY InitCInv, NextKeepsCInv, PTL DEF Spec

-------------------------------------------------------------------------------
(* The theorems                                                              *)

(* Every connection is accounted for, whatever peers connect, send and hang  *)
(* up, and whatever order a batch is handled in: PID 1 never waits in accept *)
(* or recv for somebody who is not there, and never takes an event for one   *)
(* about another client.                                                     *)
THEOREM ConnectionsAccounted == Spec => []Accounted
<1>1. CInv => Accounted
  <2>. SUFFICES ASSUME CInv PROVE Accounted
    OBVIOUS
  <2>. USE DEF CInv
  <2>1. Types
    <3>1. \A n \in Known : units[n].state \in States /\ units[n].unit.kind \in Kinds
      BY KindOf DEF Units
    <3>2. pending \cup Range(handles) \cup pendingRestart \subseteq Names
      BY DEF Units, Watched, Range
    <3>3. QED
      BY <3>1, <3>2 DEF Types, Clients, Connections
  <2>2. ASSUME NEW p \in Peers
        PROVE  Cardinality({c \in clients : c.peer = p})
                   = IF peers[p].at = "accepted" THEN 1 ELSE 0
    <3>1. CASE peers[p].at = "accepted"
      <4>1. PICK c \in clients : c.peer = p
        BY <3>1 DEF Clients
      <4>2. {d \in clients : d.peer = p} = {c}
        BY <4>1 DEF Clients
      <4>3. QED
        BY <3>1, <4>2, FS_Singleton
    <3>2. CASE peers[p].at # "accepted"
      <4>1. {d \in clients : d.peer = p} = {}
        BY <3>2 DEF Clients
      <4>2. QED
        BY <3>2, <4>1, FS_EmptySet
    <3>3. QED
      BY <3>1, <3>2
  <2>3. \A c, d \in clients : c.id = d.id => c = d
    BY DEF Clients
  <2>4. \A event \in Range(batch) :
            IF event.source = "control" THEN backlog # <<>>
            ELSE \A c \in clients : c.id = event.id => Readable(c)
    BY DEF Events, There, Range
  <2>5. QED
    BY <2>1, <2>2, <2>3, <2>4 DEF Accounted
<1>2. QED
  BY ControlInvariant, <1>1, PTL

(* A boot stops with units queued and nothing on its way up only if a reload *)
(* took a queued unit out from under the queue: the first of the queue waits *)
(* for nothing that is queued, and a turn does not end with a unit that      *)
(* could be started.                                                         *)
THEOREM OnlyReloadsStrand == Spec => []StrandedOnlyByReload
<1>1. CInv => StrandedOnlyByReload
  <2>. SUFFICES ASSUME CInv, pc = "wait", pending # {},
                       \A n \in Known : units[n].state # "Activating",
                       pending \cap touched = {}
                PROVE  FALSE
    BY DEF StrandedOnlyByReload
  <2>. USE DEF CInv
  <2>. DEFINE places == {i \in DOMAIN order : order[i] \in pending}
  <2>1. Len(order) \in Nat /\ DOMAIN order = 1..Len(order) /\ pending \subseteq Range(order)
    BY DEF Units
  <2>2. places # {} /\ places \subseteq 1..Len(order)
    BY <2>1 DEF Range
  <2>3. places \subseteq Nat /\ IsFiniteSet(places)
    <3>1. IsFiniteSet(1..Len(order))
      BY <2>1, FS_Interval
    <3>. HIDE DEF places
    <3>2. IsFiniteSet(places)
      BY <2>2, <3>1, FS_Subset
    <3>3. QED
      BY <2>1, <2>2, <3>2
  <2>4. PICK i \in places : \A j \in places : i <= j
    <3>. HIDE DEF places
    <3>1. QED
      BY <2>2, <2>3, FirstAndLast
  <2>. DEFINE n == order[i]
  <2>5. n \in pending /\ n \in pending \ touched /\ n \in Known
    BY DEF Queued
  <2>6. ASSUME NEW dep \in units[n].unit.after, dep \in pending PROVE FALSE
    <3>1. PICK j \in DOMAIN order : order[j] = dep
      BY <2>1, <2>6 DEF Range
    <3>2. j < i
      BY <2>5, <2>6, <3>1 DEF Queued
    <3>3. i <= j
      BY <2>4, <2>6, <3>1
    <3>4. QED
      BY <2>1, <2>3, <3>1, <3>2, <3>3
  <2>7. OrderingSatisfied(n)
    BY <2>5, <2>6 DEF OrderingSatisfied, FinishedActivating
  <2>8. n \in Startable
    BY <2>5, <2>7 DEF Startable
  <2>9. QED
    BY <2>8 DEF Queued
<1>2. QED
  BY ControlInvariant, <1>1, PTL

(* While the loop handles a reload request, the handler is reload.           *)
LEMMA ReloadingIsReload ==
    ASSUME CInv, [Next]_vars, Reloading
    PROVE  Reload /\ UNCHANGED <<disk, fixed>>
<1>1. /\ batch' # batch /\ batch # <<>> /\ Head(batch).source = "client"
      /\ \E c \in clients : c.id = Head(batch).id /\ peers[c.peer].sent.op = "reload"
  BY DEF Reloading
<1>2. PICK c \in clients : c.id = Head(batch).id /\ peers[c.peer].sent.op = "reload"
  BY <1>1
<1>3. pc = "dispatch"
  BY <1>1 DEF CInv, Events
<1>4. OnRequest
  <2>1. ~UNCHANGED vars
    BY <1>1 DEF vars, loopVars
  <2>2. /\ ~Wake /\ ~Dispatched /\ ~PumpOne /\ ~Pumped
        /\ \A registered \in BOOLEAN : ~OnConnect(registered)
    BY <1>1, <1>3 DEF Wake, Dispatched, PumpOne, Pumped, OnConnect, Handling
  <2>3. /\ \A n \in Known : ~Turn(n)
        /\ \A p \in Peers : ~Connect(p) /\ ~Send(p) /\ ~HangUp(p)
    BY <1>3 DEF Turn, Connect, Send, HangUp
  <2>4. \A edit \in Edits : ~Edit(edit)
    BY <1>1 DEF Edit, loopVars
  <2>5. QED
    BY <2>1, <2>2, <2>3, <2>4 DEF Next
<1>5. UNCHANGED <<disk, fixed>>
  BY <1>4 DEF OnRequest, Handling, fixed
<1>6. {d \in clients : d.id = Head(batch).id} = {c}
  BY <1>2 DEF CInv, Clients
<1>7. Handled(peers[c.peer].sent)
  BY <1>2, <1>4, <1>6 DEF OnRequest, Usable
<1>8. Reload
  BY <1>2, <1>7 DEF Handled
<1>9. QED
  BY <1>5, <1>8

(* What a reload that is not refused leaves is what the files say.           *)
LEMMA ReloadFollowsFiles ==
    ASSUME CInv, Reload, UNCHANGED <<disk, fixed>>, LoadErrors(disk) = {}
    PROVE  /\ \A n \in DOMAIN units' : Idle(units'[n].state) => AsOnDisk(n, units'[n].unit)
           /\ \A dir \in Range(Dirs) : DOMAIN disk[dir] \subseteq DOMAIN units'
<1>. DEFINE defs == LoadedUnits(disk)
<1>1. units' = [n \in Replaced \cup Left |-> IF n \in Replaced THEN New(defs[n]) ELSE units[n]]
  BY Reloaded
<1>2. /\ \A dir \in Range(Dirs) : DOMAIN disk[dir] \subseteq DOMAIN defs
      /\ \A n \in DOMAIN defs : \E i \in DOMAIN Dirs :
            /\ n \in DOMAIN disk[Dirs[i]]
            /\ \A j \in (i + 1)..Len(Dirs) : n \notin DOMAIN disk[Dirs[j]]
            /\ defs[n] = UnitOf(disk[Dirs[i]][n])
  BY LoadedWhole DEF CInv, Units
<1>3. \A n \in DOMAIN defs : AsOnDisk(n, defs[n])
  BY <1>2 DEF AsOnDisk
<1>4. /\ Replaced \subseteq DOMAIN defs
      /\ Left \cap Replaced = {}
      /\ \A n \in Left : n \in DOMAIN defs \/ ~Idle(units[n].state)
      /\ \A n \in DOMAIN defs : n \in Replaced \cup Left
      /\ \A n \in Left \cap DOMAIN defs : Idle(units[n].state) => units[n].unit = defs[n]
  BY DEF Replaced, Left, MayReplace
<1>. HIDE DEF defs
<1>5. ASSUME NEW n \in DOMAIN units', Idle(units'[n].state)
      PROVE  AsOnDisk(n, units'[n].unit)
  <2>1. CASE n \in Replaced
    <3>1. units'[n] = New(defs[n])
      BY <1>1, <2>1
    <3>2. units'[n].unit = defs[n]
      BY <3>1 DEF New
    <3>3. QED
      BY <1>3, <1>4, <2>1, <3>2
  <2>2. CASE n \in Left
    BY <1>1, <1>3, <1>4, <1>5, <2>2
  <2>3. QED
    BY <1>1, <2>1, <2>2
<1>6. QED
  BY <1>1, <1>2, <1>4, <1>5

(* Reload does what it says, for every set of files, every change made to    *)
(* them and every point of a boot: a unit that is up keeps its definition    *)
(* and state, an idle one gets what the last directory says, a refused       *)
(* reload changes nothing, and the cgroups epoll watches keep their numbers. *)
THEOREM ReloadsApply == Spec => ReloadApplied
<1>. DEFINE Applied ==
        /\ \A id \in DOMAIN watched : handles'[id] = watched[id] /\ RunsIn(watched[id])' = id
        /\ \A n \in Known : ~Idle(units[n].state) => n \in DOMAIN units' /\ units'[n] = units[n]
        /\ IF LoadErrors(disk) # {} THEN UNCHANGED units
           ELSE /\ \A n \in DOMAIN units' :
                    Idle(units'[n].state) => AsOnDisk(n, units'[n].unit)
                /\ \A dir \in Range(Dirs) : DOMAIN disk[dir] \subseteq DOMAIN units'
<1>1. ASSUME CInv, [Next]_vars, Reloading PROVE Applied
  <2>1. Reload /\ UNCHANGED <<disk, fixed>> /\ CInv'
    BY <1>1, ReloadingIsReload, NextKeepsCInv
  <2>2. ASSUME NEW id \in DOMAIN watched
        PROVE  handles'[id] = watched[id] /\ RunsIn(watched[id])' = id
    <3>1. watched' = watched
      BY <2>1 DEF fixed
    <3>2. /\ DOMAIN watched = 1..Len(watched) /\ Len(watched) \in Nat
          /\ IsInjective(watched)
          /\ \A k \in DOMAIN watched : k \in DOMAIN handles' /\ handles'[k] = watched[k]
      BY <2>1, <3>1 DEF CInv, Watched
    <3>3. \A k \in DOMAIN handles' :
            (handles'[k] = watched[id] /\ \A i \in 1..(k - 1) : handles'[i] # watched[id]) => k = id
      <4>1. handles' \in Seq(Names)
        BY <2>1 DEF CInv, Watched
      <4>2. DOMAIN handles' \subseteq Nat
        BY <4>1
      <4>3. SUFFICES ASSUME NEW k \in DOMAIN handles', handles'[k] = watched[id], k # id,
                            \A i \in 1..(k - 1) : handles'[i] # watched[id]
                     PROVE  FALSE
        OBVIOUS
      <4>4. k < id
        BY <3>2, <4>2, <4>3
      <4>5. k \in DOMAIN watched
        <5>1. k \in 1..Len(handles')
          BY <4>1
        <5>2. QED
          BY <3>2, <4>4, <5>1
      <4>6. QED
        BY <3>2, <4>3, <4>5 DEF IsInjective
    <3>4. \A i \in 1..(id - 1) : handles'[i] # watched[id]
      BY <3>2 DEF IsInjective
    <3>5. id = CHOOSE k \in DOMAIN handles' :
                 handles'[k] = watched[id] /\ \A i \in 1..(k - 1) : handles'[i] # watched[id]
      BY <3>2, <3>3, <3>4
    <3>6. QED
      BY <3>1, <3>2, <3>5 DEF RunsIn
  <2>3. CASE LoadErrors(disk) # {}
    <3>1. UNCHANGED units
      BY <2>1, <2>3 DEF Reload, unitVars
    <3>2. QED
      BY <2>2, <2>3, <3>1 DEF Known
  <2>4. CASE LoadErrors(disk) = {}
    <3>1. units' = [n \in Replaced \cup Left |->
                        IF n \in Replaced THEN New(LoadedUnits(disk)[n]) ELSE units[n]]
      BY <2>1, <2>4, Reloaded
    <3>2. \A n \in Known : ~Idle(units[n].state) => n \in Left /\ n \notin Replaced
      BY DEF Left, Replaced, MayReplace
    <3>3. \A n \in Known : ~Idle(units[n].state) => n \in DOMAIN units' /\ units'[n] = units[n]
      BY <3>1, <3>2
    <3>4. QED
      BY <1>1, <2>1, <2>2, <2>4, <3>3, ReloadFollowsFiles
  <2>5. QED
    BY <2>3, <2>4
<1>2. CInv /\ [Next]_vars => [Reloading => Applied]_vars
  BY <1>1
<1>. HIDE DEF Applied
<1>3. Spec => [][Reloading => Applied]_vars
  BY ControlInvariant, <1>2, PTL DEF Spec
<1>4. QED
  BY <1>3 DEF ReloadApplied, Applied
===============================================================================
