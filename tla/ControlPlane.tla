---------------------------- MODULE ControlPlane ----------------------------
(***************************************************************************)
(* What oxctl can do to a running oxinit: the control socket and its       *)
(* clients (control.rs, main.rs, oxinit-ipc, oxctl), the requests          *)
(* (Supervisor::handle), and above all reload, which replaces the units a  *)
(* boot in progress is still working through.                              *)
(*                                                                         *)
(* The life of a unit is the one of module Supervisor with its processes,  *)
(* alarms and cgroup left out: a unit has its state, and what would move   *)
(* it - an exit, READY=1, a deadline - is left to chance.  No shutdown.    *)
(***************************************************************************)
EXTENDS UnitFiles

CONSTANTS
    Names,      \* unit names
    FirstDisk,  \* the unit files at boot
    Peers,      \* processes that connect to the control socket, once each
    Early,      \* those that have connected before the first wakeup
    Requests,   \* peer -> what it may send: [op, unit], or what is no request
    MaxClients, \* MAX_CLIENTS
    Edits,      \* what an operator may do to the files: [dir, name, file]
    MaxEdits,   \* bound: changes to unit files
    MaxTurns    \* bound: moves of a unit on its own

(* In every directory, a file for some of the names.                       *)
Disks == [Range(Dirs) -> UNION {[names -> Files] : names \in SUBSET Names}]

ASSUME ControlPlaneAssumption ==
    /\ IsFiniteSet(Names)
    /\ FirstDisk \in Disks
    /\ Early \subseteq Peers /\ IsFiniteSet(Peers)
    /\ \A edit \in Edits : edit.dir \in Range(Dirs) /\ edit.name \in Names /\ edit.file \in Files
    /\ MaxClients \in Nat \ {0}
    /\ {MaxEdits, MaxTurns} \subseteq Nat

VARIABLES
    disk,           \* directory -> unit name -> file
    units,          \* Supervisor.instances: name -> its definition and state
    order,          \* Supervisor.order: the plan of the boot
    pending,        \* Supervisor.pending: the units of it that are still queued
    pendingRestart, \* units to start again when their stop is over
    handles,        \* Cgroups.handles: the unit of each cgroup, by id
    watched,        \* the cgroups epoll watches: the unit each id was registered for
    backlog,        \* peers connected and not accepted
    clients,        \* Control.clients, whose order nothing reads
    nextId,         \* Control.next_id
    peers,          \* peer -> its end of the connection
    batch,          \* events epoll_wait returned and the loop has not handled
    pc,             \* where the loop is
    touched,        \* history: units reload replaced or forgot while queued
    edits,
    turns

loopVars == <<backlog, clients, nextId, peers, batch, pc>>
unitVars == <<units, pending, pendingRestart, handles, touched>>
fixed == <<order, watched>>
vars == <<disk, unitVars, fixed, loopVars, edits, turns>>

States == {"Inactive", "Activating", "Active", "Deactivating", "Failed", "Restarting"}
Idle(state) == state \in {"Inactive", "Failed"}

Known == DOMAIN units

Nothing == [op |-> "nothing"]

(* A peer's end of a connection that is not there yet, or no longer.       *)
End(at) == [at |-> at, sent |-> Nothing, up |-> TRUE]

New(unit) == [unit |-> unit, state |-> "Inactive"]

-----------------------------------------------------------------------------
(* Cgroups::add, and the boot.                                             *)

(* A cgroup's id is its index: nothing is ever removed.                    *)
Added(all, more) == all \o more

ServicesOf(defs) == {n \in DOMAIN defs : defs[n].kind = "service"}

Ordered(plan, defs) ==
    \A i, j \in DOMAIN plan : plan[j] \in defs[plan[i]].after => j < i

(* Supervisor::load and start_all: every unit gets a record, every service *)
(* a cgroup, epoll every cgroup; what resolves is queued, in an order that *)
(* respects every `after`, and what does not resolve is not started.       *)
Init ==
    /\ disk = FirstDisk
    /\ units = [n \in DOMAIN LoadedUnits(FirstDisk) |-> New(LoadedUnits(FirstDisk)[n])]
    /\ LET defs == LoadedUnits(FirstDisk)
           plans == {plan \in SetToSeqs(DOMAIN defs) : Ordered(plan, defs)}
       IN  order \in IF plans = {} THEN {<<>>} ELSE plans
    /\ pending = Range(order)
    /\ pendingRestart = {}
    /\ handles = Added(<<>>, SetToSeq(ServicesOf(LoadedUnits(FirstDisk))))
    /\ watched = handles
    /\ backlog = SetToSeq(Early)
    /\ clients = {}
    /\ nextId = 0
    /\ peers = [p \in Peers |-> End(IF p \in Early THEN "waiting" ELSE "away")]
    /\ batch = <<>>
    /\ pc = "pump"
    /\ touched = {}
    /\ edits = 0
    /\ turns = 0

-----------------------------------------------------------------------------
(* start and stop of a unit, as far as they are seen from here.            *)

Queue(names) == pending \ names

(* A unit that runs nothing is up at once; a service may be, may take its  *)
(* time, or may not start.                                                 *)
StartOutcome(n) ==
    IF units[n].unit.kind = "service" THEN {"Activating", "Active", "Failed"} ELSE {"Active"}

ConflictingWith(n) == units[n].unit.conflicts \cup {m \in Known : n \in units[m].unit.conflicts}

Excluded(n) == {m \in ConflictingWith(n) \cap Known : ~Idle(units[m].state)}

StopOutcome(unit) ==
    CASE unit.state = "Restarting" -> "Inactive"
      [] unit.state # "Restarting" /\ unit.unit.kind # "service" -> "Inactive"
      [] unit.state \in {"Activating", "Active"} /\ unit.unit.kind = "service" -> "Deactivating"
      [] OTHER -> unit.state

(* What the unit excludes is stopped, then it is started.                  *)
Started(n) ==
    \E outcome \in StartOutcome(n) :
        units' = [m \in Known |->
            [units[m] EXCEPT !.state = IF m = n THEN outcome
                                       ELSE IF m \in Excluded(n) THEN StopOutcome(units[m])
                                       ELSE @]]

Start(n) ==
    /\ Started(n)
    /\ pending' = Queue(Excluded(n))

Stop(n) ==
    /\ units' = [units EXCEPT ![n].state = StopOutcome(units[n])]
    /\ pending' = Queue({n})

(* Mutant: what runs is brought up to date too.                            *)
MayReplace_Running(unit) == TRUE

(* A unit that is up keeps the definition it was started with.             *)
MayReplace(unit) == Idle(unit.state)

(* Supervisor::reload: refused whole for one broken file; otherwise units  *)
(* that are new or idle get what the files say, idle ones with no file are *)
(* forgotten, and neither the queue nor epoll is told.                     *)
Reload ==
    IF LoadErrors(disk) # {}
    THEN UNCHANGED unitVars
    ELSE LET defs == LoadedUnits(disk)
             replaced == {n \in DOMAIN defs : n \in Known =>
                            units[n].unit # defs[n] /\ MayReplace(units[n])}
             left == {n \in Known \ replaced : n \in DOMAIN defs \/ ~Idle(units[n].state)}
         IN  /\ units' = [n \in replaced \cup left |->
                            IF n \in replaced THEN New(defs[n]) ELSE units[n]]
             /\ handles' = Added(handles, SetToSeq(ServicesOf(defs) \cap replaced))
             /\ touched' = touched \cup (pending \cap (replaced \cup (Known \ left)))
             /\ UNCHANGED <<pending, pendingRestart>>

(* Supervisor::handle, and a message that is no request: an error.         *)
Handled(request) ==
    \/ /\ \/ request.op \in {"list", "status", "garbage"}
          \/ request.op \in {"start", "stop", "restart"} /\ request.unit \notin Known
       /\ UNCHANGED unitVars
    \/ /\ request.op \in {"start", "stop", "restart"}
       /\ request.unit \in Known
       /\ UNCHANGED <<handles, touched>>
       /\ LET n == request.unit
              down == Idle(StopOutcome(units[n]))
          IN  \/ request.op = "start" /\ Start(n) /\ UNCHANGED pendingRestart
              \/ request.op = "stop" /\ Stop(n) /\ UNCHANGED pendingRestart
              \/ /\ request.op = "restart" /\ down /\ Started(n)
                 /\ pending' = Queue({n} \cup Excluded(n))
                 /\ UNCHANGED pendingRestart
              \/ /\ request.op = "restart" /\ ~down /\ Stop(n)
                 /\ pendingRestart' = pendingRestart \cup {n}
    \/ request.op = "reload" /\ Reload

-----------------------------------------------------------------------------
(* The control socket.                                                     *)

Hung(p) == ~peers[p].up

(* epoll: the listener while someone waits, a client with a message or a   *)
(* hangup to read.                                                         *)
Readable(client) == peers[client.peer].sent # Nothing \/ Hung(client.peer)

Ready ==
    (IF backlog # <<>> THEN {[source |-> "control", id |-> 0]} ELSE {})
    \cup {[source |-> "client", id |-> c.id] : c \in {d \in clients : Readable(d)}}

Wake ==
    /\ pc = "wait"
    /\ Ready # {}
    /\ batch' \in SetToSeqs(Ready)
    /\ pc' = "dispatch"
    /\ UNCHANGED <<disk, unitVars, fixed, backlog, clients, nextId, peers, edits, turns>>

Handling(source) ==
    /\ pc = "dispatch"
    /\ batch # <<>>
    /\ Head(batch).source = source
    /\ batch' = Tail(batch)
    /\ UNCHANGED <<disk, fixed, pc, edits, turns>>

(* Mutant: a new client is numbered by how many there are.                 *)
NewId_Count == Cardinality(clients)

NewId == nextId

(* Closed with whatever it has sent unread.                                *)
RefusedTo(p) == [peers EXCEPT ![p] = [End("refused") EXCEPT !.sent = peers[p].sent]]

(* on_connect, Control::accept: one connection per event; over the limit,  *)
(* or when epoll does not take it, it is closed rather than queued.        *)
OnConnect(registered) ==
    /\ Handling("control")
    /\ LET p == Head(backlog)
       IN  /\ backlog' = Tail(backlog)
           /\ IF Cardinality(clients) >= MaxClients
              THEN /\ peers' = RefusedTo(p)
                   /\ registered
                   /\ UNCHANGED <<clients, nextId>>
              ELSE /\ nextId' = nextId + 1
                   /\ IF registered
                      THEN /\ clients' = clients \cup {[id |-> NewId, peer |-> p]}
                           /\ peers' = [peers EXCEPT ![p].at = "accepted"]
                      ELSE /\ peers' = RefusedTo(p)
                           /\ UNCHANGED clients
    /\ UNCHANGED unitVars

Usable(request) == request.op \notin {"nothing", "oversize"}

(* Mutant: a client that sent nothing usable is left before it is closed.  *)
Remaining_NotIfUnusable(id, request) ==
    IF Usable(request) THEN {c \in clients : c.id # id} ELSE clients

(* Control::close, whatever the client sent.                               *)
Remaining(id, request) == {c \in clients : c.id # id}

(* on_request: one request per connection, whose reply - not modelled -    *)
(* goes back before it is closed.  A hangup, a message over the limit and  *)
(* a client that is no longer there are none.                              *)
OnRequest ==
    /\ Handling("client")
    /\ LET id == Head(batch).id
           mine == {c \in clients : c.id = id}
       IN  \/ mine = {} /\ UNCHANGED <<unitVars, clients, peers>>
           \/ \E client \in mine :
                LET request == peers[client.peer].sent
                    left == Remaining(id, request)
                    gone == {c.peer : c \in clients \ left}
                IN  /\ clients' = left
                    /\ peers' = [p \in Peers |-> IF p \in gone THEN End("closed") ELSE peers[p]]
                    /\ IF Usable(request) THEN Handled(request) ELSE UNCHANGED unitVars
    /\ UNCHANGED <<backlog, nextId>>

-----------------------------------------------------------------------------
(* The end of a turn: pump.                                                *)

Dispatched ==
    /\ pc = "dispatch"
    /\ batch = <<>>
    /\ pc' = "pump"
    /\ UNCHANGED <<disk, unitVars, fixed, backlog, clients, nextId, peers, batch, edits, turns>>

(* Mutant: what a unit is after has to be up.                              *)
FinishedActivating_Up(state) == state = "Active"

FinishedActivating(state) == state # "Activating"

(* A unit the queue names and nobody knows is never ready, and everything  *)
(* after it waits for it.                                                  *)
OrderingSatisfied(n) ==
    /\ n \in Known
    /\ \A dep \in units[n].unit.after :
        /\ dep \notin pending
        /\ dep \in Known => FinishedActivating(units[dep].state)

Startable == {n \in pending : OrderingSatisfied(n)}

(* The queue is gone through from the front.                               *)
First(n) == \A i, j \in DOMAIN order : order[i] = n /\ order[j] \in Startable => i <= j

FailedRequirement(n) == \E dep \in units[n].unit.requires \cap Known : units[dep].state = "Failed"

PumpOne ==
    /\ pc = "pump"
    /\ \E n \in Startable :
        /\ First(n)
        /\ IF FailedRequirement(n)
           THEN /\ units' = [units EXCEPT ![n].state = "Failed"]
                /\ pending' = Queue({n})
           ELSE /\ Started(n)
                /\ pending' = Queue({n} \cup Excluded(n))
    /\ UNCHANGED <<disk, pendingRestart, handles, touched, fixed, loopVars, edits, turns>>

Pumped ==
    /\ pc = "pump"
    /\ Startable = {}
    /\ pc' = "wait"
    /\ UNCHANGED <<disk, unitVars, fixed, backlog, clients, nextId, peers, batch, edits, turns>>

-----------------------------------------------------------------------------
(* Everyone else: units on their own, peers, and whoever edits the files.  *)
(* The handlers of a batch take only what was there when epoll_wait        *)
(* returned, and pump looks at neither sockets nor files: what a peer does *)
(* meanwhile is as if it had done it just before or after the turn.        *)

(* An exit, READY=1 or a deadline moves a service; a wakeup of its own.    *)
Moves(state) ==
    CASE state = "Activating"   -> {"Active", "Inactive", "Failed", "Restarting", "Deactivating"}
      [] state = "Active"       -> {"Inactive", "Failed", "Restarting", "Deactivating"}
      [] state = "Deactivating" -> {"Inactive", "Failed", "Restarting"}
      [] OTHER                  -> {}

Turn(n) ==
    /\ pc = "wait"
    /\ turns < MaxTurns
    /\ turns' = turns + 1
    /\ pc' = "pump"
    /\ units[n].unit.kind = "service"
    /\ IF units[n].state = "Restarting" \/ (units[n].state = "Deactivating" /\ n \in pendingRestart)
       THEN /\ Start(n)
            /\ pendingRestart' = IF units[n].state = "Restarting" THEN pendingRestart
                                 ELSE pendingRestart \ {n}
       ELSE /\ \E state \in Moves(units[n].state) :
                /\ units' = [units EXCEPT ![n].state = state]
                /\ pending' = IF state = "Deactivating" THEN Queue({n}) ELSE pending
            /\ UNCHANGED pendingRestart
    /\ UNCHANGED <<disk, handles, touched, fixed, backlog, clients, nextId, peers, batch, edits>>

(* exchange, in oxctl: connect, then send; a peer of another kind may not. *)
Connect(p) ==
    /\ pc = "wait"
    /\ peers[p].at = "away"
    /\ peers' = [peers EXCEPT ![p].at = "waiting"]
    /\ backlog' = Append(backlog, p)
    /\ UNCHANGED <<disk, unitVars, fixed, clients, nextId, batch, pc, edits, turns>>

Send(p) ==
    /\ pc = "wait"
    /\ peers[p].at \in {"waiting", "accepted"}
    /\ peers[p].sent = Nothing
    /\ peers[p].up
    /\ \E request \in Requests[p] : peers' = [peers EXCEPT ![p].sent = request]
    /\ UNCHANGED <<disk, unitVars, fixed, backlog, clients, nextId, batch, pc, edits, turns>>

HangUp(p) ==
    /\ pc = "wait"
    /\ peers[p].at \in {"waiting", "accepted"}
    /\ peers[p].up
    /\ peers' = [peers EXCEPT ![p].up = FALSE]
    /\ UNCHANGED <<disk, unitVars, fixed, backlog, clients, nextId, batch, pc, edits, turns>>

Edit(edit) ==
    /\ pc # "pump"
    /\ edits < MaxEdits
    /\ edits' = edits + 1
    /\ \/ /\ edit.name \in DOMAIN disk[edit.dir]
          /\ disk' = [disk EXCEPT ![edit.dir] = [m \in DOMAIN @ \ {edit.name} |-> @[m]]]
       \/ disk' = [disk EXCEPT ![edit.dir] =
                [m \in DOMAIN @ \cup {edit.name} |-> IF m = edit.name THEN edit.file ELSE @[m]]]
    /\ UNCHANGED <<unitVars, fixed, loopVars, turns>>

Next ==
    \/ Wake
    \/ \E registered \in BOOLEAN : OnConnect(registered)
    \/ OnRequest
    \/ Dispatched
    \/ PumpOne
    \/ Pumped
    \/ \E n \in Known : Turn(n)
    \/ \E p \in Peers : Connect(p)
    \/ \E p \in Peers : Send(p)
    \/ \E p \in Peers : HangUp(p)
    \/ \E edit \in Edits : Edit(edit)

(* One thread, which goes on: epoll_wait returns what is ready and every   *)
(* event of a batch is handled.                                            *)
Loop ==
    \/ Wake
    \/ \E registered \in BOOLEAN : OnConnect(registered)
    \/ OnRequest
    \/ Dispatched
    \/ PumpOne
    \/ Pumped

Spec == Init /\ [][Next]_vars /\ WF_vars(Loop)

-----------------------------------------------------------------------------
(* Correctness.                                                            *)

Types ==
    /\ \A n \in Known : units[n].state \in States /\ units[n].unit.kind \in Kinds
    /\ pending \cup Range(handles) \cup pendingRestart \subseteq Names
    /\ Cardinality(clients) <= MaxClients
    /\ \A p \in Peers : peers[p].at \in {"away", "waiting", "accepted", "refused", "closed"}

(* Every connection is accounted for: a peer that was accepted and not     *)
(* closed has one client, and a client has a number nobody else has, so    *)
(* an event of a batch is never about a client that came after it.  That   *)
(* is what the blocking accept and recv of PID 1 rest on: whatever an      *)
(* event announces is there to be taken.                                   *)
Accounted ==
    /\ Types
    /\ \A p \in Peers :
        Cardinality({c \in clients : c.peer = p})
            = IF peers[p].at = "accepted" THEN 1 ELSE 0
    /\ \A c, d \in clients : c.id = d.id => c = d
    /\ \A event \in Range(batch) :
        IF event.source = "control" THEN backlog # <<>>
        ELSE \A c \in clients : c.id = event.id => Readable(c)

(* The reload's own words: "Applies to units that are not running.  A unit *)
(* that is up keeps the definition it was started with".  A reload that is *)
(* refused changes nothing; one that is not leaves every unit that does    *)
(* not run as the last directory that has its file says and forgets the    *)
(* ones no directory has; and every cgroup epoll watches is still the one  *)
(* its unit is run in, and known by the number it was registered with.     *)
AsOnDisk(n, unit) ==
    \E i \in DOMAIN Dirs :
        /\ n \in DOMAIN disk[Dirs[i]]
        /\ \A j \in (i + 1)..Len(Dirs) : n \notin DOMAIN disk[Dirs[j]]
        /\ unit = UnitOf(disk[Dirs[i]][n])

RunsIn(n) == CHOOSE id \in DOMAIN handles : handles[id] = n /\ \A i \in 1..(id - 1) : handles[i] # n

Reloading ==
    /\ batch' # batch /\ batch # <<>> /\ Head(batch).source = "client"
    /\ \E c \in clients : c.id = Head(batch).id /\ peers[c.peer].sent.op = "reload"

ReloadApplied ==
    [][Reloading =>
        /\ \A id \in DOMAIN watched : handles'[id] = watched[id] /\ RunsIn(watched[id])' = id
        /\ \A n \in Known : ~Idle(units[n].state) => n \in DOMAIN units' /\ units'[n] = units[n]
        /\ IF LoadErrors(disk) # {} THEN UNCHANGED units
           ELSE /\ \A n \in DOMAIN units' :
                    Idle(units'[n].state) => AsOnDisk(n, units'[n].unit)
                /\ \A dir \in Range(Dirs) : DOMAIN disk[dir] \subseteq DOMAIN units'
      ]_vars

(* A boot that has stopped, with units queued and nothing on its way up,   *)
(* was stopped by a reload: among the queued is one whose record the       *)
(* reload replaced or dropped without telling the queue.                   *)
StrandedOnlyByReload ==
    pc = "wait" /\ pending # {} /\ (\A n \in Known : units[n].state # "Activating")
        => pending \cap touched # {}

(* "One request per connection.  The reply goes back and the connection    *)
(* closes": time and again nobody is left who has sent something and has   *)
(* not been answered, however many idle connections others hold - but for  *)
(* the peers that were refused.  Those are closed with what they sent      *)
(* unread, for the limit or for epoll: the comment on BACKLOG, that a      *)
(* connection over the limit waits there instead of making oxctl fail, is  *)
(* not what accept does.  (A peer sends once, so this is sent ~> answered, *)
(* for all of them at once.)                                               *)
Answered == []<>(\A p \in Peers : peers[p].sent # Nothing => peers[p].at = "refused")
=============================================================================
