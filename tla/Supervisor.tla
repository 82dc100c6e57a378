------------------------------ MODULE Supervisor ------------------------------
(***************************************************************************)
(* The supervisor of crates/oxinit/src/supervisor.rs under the event loop  *)
(* of main.rs: the start queue, the stop path, the reaper, cgroup and      *)
(* notify events, deadlines, control requests and the ordered shutdown.    *)
(*                                                                         *)
(* One thread turns one loop.  epoll_wait returns a batch of sources, each *)
(* source's handler runs to its end, then the start queue is pumped, the   *)
(* sockets are reconciled, and a shutdown is asked whether it is over.     *)
(* A turn is modelled as any handlers that have something to handle, in    *)
(* any order, and then its end: what was not in the batch is handled in a  *)
(* later turn.  Processes, clients and time move before and between the    *)
(* handlers.                                                               *)
(***************************************************************************)
EXTENDS Instance, Sequences, FiniteSets

CONSTANTS
    Units,       \* names of the loaded units
    Kind,        \* unit -> its kind; a service is named by its type
    Policy,      \* unit -> restart policy
    Order,       \* the resolved start order, a sequence of units
    After,       \* unit -> the units it is ordered after
    Requires,    \* unit -> the units it requires
    Conflicts,   \* unit -> the units it declares a conflict with
    Activates,   \* socket or timer unit -> the service it starts
    HasCgroup,   \* services whose cgroup could be created
    Watched,     \* services with a watchdog-sec
    MayFail,     \* services whose limits, output or exec may fail at a start
    Forks,       \* services that leave other processes in their cgroup
    Roams,       \* services whose main process may move out of its cgroup
    Outcomes,    \* unit -> how its main process may end
    Requests,    \* the request kinds clients send
    Actions,     \* the shutdown actions signals ask for
    Stuck,       \* services whose processes may outlive even a SIGKILL
    MayOverrun,  \* whether the shutdown's own deadline may pass
    MaxMoves     \* bound: requests, connections and voluntary process moves

ServiceType == {"simple", "oneshot", "notify", "forking"}

UnitKind == ServiceType \cup {"target", "socket", "timer"}

Services == {u \in Units : Kind[u] \in ServiceType}

Sockets == {u \in Units : Kind[u] = "socket"}

ASSUME UnitsAssumption ==
    /\ Kind \in [Units -> UnitKind]
    /\ Policy \in [Units -> Restart]
    /\ Order \in Seq(Units)
    /\ After \in [Units -> SUBSET Units]
    /\ Requires \in [Units -> SUBSET Units]
    /\ Conflicts \in [Units -> SUBSET Units]
    /\ \A u \in Units : u \notin Conflicts[u]
    /\ Activates \in [{u \in Units : Kind[u] \in {"socket", "timer"}} -> Services]
    /\ HasCgroup \subseteq Services
    /\ Watched \subseteq {u \in Services : Kind[u] = "notify"}
    /\ Outcomes \in [Units -> SUBSET Exit]

ASSUME BoundsAssumption ==
    /\ Requests \subseteq {"start", "stop", "restart"}
    /\ MaxMoves \in Nat
    /\ "none" \notin Actions
    /\ MayOverrun \in BOOLEAN

VARIABLES
    inst,           \* unit -> its record (module Instance)
    pending,        \* the start queue: units of Order not started yet
    pendingRestart, \* units an oxctl restart is waiting to start again
    shutdown,       \* the action in progress, or "none"
    overdue,        \* the shutdown has outlived DEADLINE
    conn,           \* socket units with a connection nobody accepted
    armed,          \* socket units epoll watches
    pc,             \* where the loop is
    moves           \* how many of MaxMoves were made

vars == <<inst, pending, pendingRestart, shutdown, overdue, conn, armed, pc, moves>>

TypeOK ==
    /\ inst \in [Units -> Record]
    /\ pending \subseteq Units
    /\ pendingRestart \subseteq Units
    /\ shutdown \in Actions \cup {"none"}
    /\ overdue \in BOOLEAN
    /\ conn \subseteq Sockets
    /\ armed \subseteq Sockets
    /\ pc \in {"wait", "dispatch", "pump", "down"}
    /\ moves \in Nat

ShuttingDown == shutdown # "none"

Populated(u, r) ==
    u \in HasCgroup /\ (r.child = "in" \/ r.others \cap {"kid", "lost"} # {})

\* cgroup.kill reached everything the unit has: stop_timed_out runs only in
\* Deactivating, and killed is cleared with that state.
Killed(r) == r.state = "Deactivating" /\ r.killed

\* The outcomes of starting u: it works, or a limit, the output or exec fails.
\* For a timer, whether its schedule has a next moment.
StartOutcome(u) == IF u \in MayFail THEN BOOLEAN ELSE {TRUE}

-------------------------------------------------------------------------------
(* start and stop, as functions of the units' records                       *)

\* Faulty variant: only the unit's own declaration counts.
ConflictingWith_OneSided(u) == Conflicts[u]

\* Either side may have declared it.
ConflictingWith(u) == Conflicts[u] \cup {v \in Units : u \in Conflicts[v]}

Excluded(I, u) == {v \in ConflictingWith(u) : ~Idle(I[v])}

StopUnit(u, r, cause) ==
    CASE r.state = "Restarting" -> CancelRestart(r)
      [] r.state # "Restarting" /\ Kind[u] \notin ServiceType ->
            Deactivated(EnteredDeactivating(r, cause), "No")
      [] r.state \in {"Activating", "Active"} /\ Kind[u] \in ServiceType ->
            Armed(EnteredDeactivating(r, cause), "StopTimeout")
      [] OTHER -> r

StartUnit(u, r, ok) ==
    CASE Kind[u] \in {"target", "socket"} -> EnteredActive(r)
      [] Kind[u] = "timer" ->
            IF ok THEN Armed(EnteredActive(r), "TimerElapsed") ELSE EnteredActive(r)
      [] Kind[u] = "simple" ->
            IF ok THEN EnteredActive(EnteredActivating(r)) ELSE FailedToStart(r)
      [] OTHER ->
            IF ok THEN Armed(EnteredActivating(r), "StartTimeout") ELSE FailedToStart(r)

\* What u excludes is stopped, then u is started.
Launched(I, u, ok) ==
    [v \in Units |->
        IF v = u THEN StartUnit(u, I[u], ok)
        ELSE IF v \in Excluded(I, u) THEN StopUnit(v, I[v], "Requested")
        ELSE I[v]]

Started(I, u, ok) == IF ShuttingDown THEN I ELSE Launched(I, u, ok)

\* What start leaves of the queue: stop drops a unit it is called on.
StillQueued(I, u) == IF ShuttingDown THEN pending ELSE pending \ Excluded(I, u)

\* Faulty variant: a restart is scheduled on the way down too.
RestartOrCancel_Always(r) == IF r.state = "Restarting" THEN Armed(r, "Restart") ELSE r

\* An exit or a finished stop that the policy answers with a restart.
RestartOrCancel(r) ==
    IF r.state # "Restarting" THEN r
    ELSE IF ShuttingDown THEN CancelRestart(r) ELSE Armed(r, "Restart")

\* Faulty variant: the pending restart is used and remembered.
Forgotten_Never(u) == pendingRestart

Forgotten(u) == pendingRestart \ {u}

\* Faulty variant: the pending restart is dropped before anybody looks at it.
FinishDeactivation_Drops(I, u) ==
    /\ inst' = [I EXCEPT ![u] = RestartOrCancel(Deactivated(I[u], Policy[u]))]
    /\ pendingRestart' = Forgotten(u)
    /\ UNCHANGED pending

\* finish_deactivation, for a unit that is Deactivating in I.
FinishDeactivation(I, u) ==
    LET J == [I EXCEPT ![u] = RestartOrCancel(Deactivated(I[u], Policy[u]))]
    IN  /\ pendingRestart' = Forgotten(u)
        /\ IF u \in pendingRestart
           THEN /\ \E ok \in StartOutcome(u) : inst' = Started(J, u, ok)
                /\ pending' = StillQueued(J, u)
           ELSE /\ inst' = J
                /\ UNCHANGED pending

-------------------------------------------------------------------------------
(* The loop: the handlers of a turn, in any order                           *)

\* Blocked in epoll_wait, or between two handlers of the batch it returned.
Listening == pc \in {"wait", "dispatch"}

Handling ==
    /\ Listening
    /\ pc' = "dispatch"
    /\ UNCHANGED <<overdue, conn, armed>>

\* SIGTERM, SIGINT, SIGUSR1 and SIGPWR; during a shutdown they change nothing.
BeginShutdown(action) ==
    /\ Handling
    /\ ~ShuttingDown
    /\ shutdown' = action
    /\ inst' = [u \in Units |-> StopUnit(u, inst[u], "Requested")]
    /\ pending' = {}
    /\ UNCHANGED <<pendingRestart, moves>>

ForkingParentExited(u, r) ==
    IF r.child = "Clean" /\ Populated(u, r) THEN ForkedAway(r) ELSE FailedToStart(r)

\* Faulty variant: an exit never ends a stop, the cgroup event always does.
ExitEndsStop_Never(u, r) == FALSE

\* The cgroup emptying ends a stop; the exit does if that is past or cannot be.
ExitEndsStop(u, r) == r.state = "Deactivating" /\ ~Populated(u, r)

OnSigchld(u) ==
    /\ Handling
    /\ inst[u].child \in Exit
    /\ LET r      == inst[u]
           exited == OnExit(r, Policy[u], Kind[u] = "oneshot", r.child)
       IN  IF Kind[u] = "forking" /\ r.state = "Activating"
           THEN /\ inst' = [inst EXCEPT ![u] = ForkingParentExited(u, r)]
                /\ UNCHANGED <<pending, pendingRestart>>
           ELSE IF ExitEndsStop(u, exited)
           THEN FinishDeactivation([inst EXCEPT ![u] = exited], u)
           ELSE /\ inst' = [inst EXCEPT ![u] = RestartOrCancel(exited)]
                /\ UNCHANGED <<pending, pendingRestart>>
    /\ UNCHANGED <<shutdown, moves>>

OnCgroup(u) ==
    /\ Handling
    /\ inst[u].emptied
    /\ LET r == [inst[u] EXCEPT !.emptied = FALSE]
       IN  IF ~Populated(u, r) /\ r.state = "Deactivating"
           THEN FinishDeactivation([inst EXCEPT ![u] = r], u)
           ELSE /\ inst' = [inst EXCEPT ![u] =
                      IF ~Populated(u, r) /\ r.state = "Active" /\ r.child = "none"
                      THEN LET gone == OnExit(r, Policy[u], FALSE, "Abnormal")
                           IN  IF gone.state = "Restarting"
                               THEN Armed(gone, "Restart") ELSE gone
                      ELSE r]
                /\ UNCHANGED <<pending, pendingRestart>>
    /\ UNCHANGED <<shutdown, moves>>

OnNotify(u) ==
    /\ Handling
    /\ inst[u].ready
    /\ LET r  == [inst[u] EXCEPT !.ready = FALSE]
           up == EnteredActive(r)
       IN  inst' = [inst EXCEPT ![u] =
              IF r.state # "Activating" THEN r
              ELSE IF u \in Watched THEN Armed(up, "WatchdogCheck") ELSE up]
    /\ UNCHANGED <<pending, pendingRestart, shutdown, moves>>

OnSocket(s) ==
    /\ Handling
    /\ s \in armed \cap conn
    /\ LET u == Activates[s]
       IN  IF Idle(inst[u])
           THEN /\ \E ok \in StartOutcome(u) : inst' = Started(inst, u, ok)
                /\ pending' = StillQueued(inst, u)
           ELSE UNCHANGED <<inst, pending>>
    /\ UNCHANGED <<pendingRestart, shutdown, moves>>

-------------------------------------------------------------------------------
(* Deadlines.  An alarm names a unit and a kind and is never cancelled: its *)
(* handler looks at the state it finds.                                     *)

\* inst once one alarm of kind k left u's heap entries; two may hide more.
Popped(k, u) ==
    {[inst EXCEPT ![u].alarms[k] = n] :
        n \in IF inst[u].alarms[k] = 2 THEN {1, 2} ELSE {0}}

\* Faulty variant: the alarm starts the unit whatever state it finds.
StillRestarting_Assumed(r) == TRUE

StillRestarting(r) == r.state = "Restarting"

OnRestart(u) ==
    /\ Handling
    /\ inst[u].alarms["Restart"] > 0
    /\ \E I \in Popped("Restart", u) :
          IF StillRestarting(I[u])
          THEN /\ \E ok \in StartOutcome(u) : inst' = Started(I, u, ok)
               /\ pending' = StillQueued(I, u)
          ELSE inst' = I /\ UNCHANGED pending
    /\ UNCHANGED <<pendingRestart, shutdown, moves>>

StartTimedOut(u) ==
    /\ Handling
    /\ inst[u].alarms["StartTimeout"] > 0
    /\ \E I \in Popped("StartTimeout", u) :
          IF I[u].state = "Activating"
          THEN /\ inst' = [I EXCEPT ![u] = StopUnit(u, @, "Watchdog")]
               /\ pending' = pending \ {u}
          ELSE inst' = I /\ UNCHANGED pending
    /\ UNCHANGED <<pendingRestart, shutdown, moves>>

StopTimeoutElapsed(u) ==
    /\ Handling
    /\ inst[u].alarms["StopTimeout"] > 0
    /\ \E I \in Popped("StopTimeout", u) :
          inst' = IF I[u].state = "Deactivating"
                  THEN [I EXCEPT ![u] = StopTimedOut(@)] ELSE I
    /\ UNCHANGED <<pending, pendingRestart, shutdown, moves>>

\* Faulty variant: a check that finds the service alive is the last one.
CheckedAgain_Never(r) == r

CheckedAgain(r) == Armed(r, "WatchdogCheck")

\* Whether the last ping is too old is time's choice.
CheckWatchdog(u) ==
    /\ Handling
    /\ inst[u].alarms["WatchdogCheck"] > 0
    /\ \E I \in Popped("WatchdogCheck", u) :
          IF I[u].state = "Active"
          THEN \/ /\ inst' = [I EXCEPT ![u] = CheckedAgain(@)]
                  /\ UNCHANGED pending
               \/ /\ inst' = [I EXCEPT ![u] = StopUnit(u, @, "Watchdog")]
                  /\ pending' = pending \ {u}
          ELSE inst' = I /\ UNCHANGED pending
    /\ UNCHANGED <<pendingRestart, shutdown, moves>>

\* Armed again before the service is started; a busy service is skipped.
TimerElapsed(t) ==
    /\ Handling
    /\ inst[t].alarms["TimerElapsed"] > 0
    /\ LET u == Activates[t]
       IN  \E I \in Popped("TimerElapsed", t), again \in BOOLEAN :
              LET J == [I EXCEPT ![t] = IF again THEN Armed(@, "TimerElapsed") ELSE @]
              IN  IF ShuttingDown THEN inst' = I /\ UNCHANGED pending
                  ELSE IF ~Idle(J[u]) THEN inst' = J /\ UNCHANGED pending
                  ELSE /\ \E ok \in StartOutcome(u) : inst' = Started(J, u, ok)
                       /\ pending' = StillQueued(J, u)
    /\ UNCHANGED <<pendingRestart, shutdown, moves>>

-------------------------------------------------------------------------------
(* Control requests.  Start and restart are refused on the way down.        *)

Request(kind) ==
    /\ Handling
    /\ kind \in Requests
    /\ moves < MaxMoves
    /\ moves' = moves + 1
    /\ UNCHANGED shutdown

HandleStart(u) ==
    /\ Request("start")
    /\ ~ShuttingDown
    /\ \E ok \in StartOutcome(u) : inst' = Started(inst, u, ok)
    /\ pending' = StillQueued(inst, u)
    /\ UNCHANGED pendingRestart

HandleStop(u) ==
    /\ Request("stop")
    /\ inst' = [inst EXCEPT ![u] = StopUnit(u, @, "Requested")]
    /\ pending' = pending \ {u}
    /\ UNCHANGED pendingRestart

\* A stop, then a start at once if that ended it, or when the stop finishes.
HandleRestart(u) ==
    /\ Request("restart")
    /\ ~ShuttingDown
    /\ LET J == [inst EXCEPT ![u] = StopUnit(u, @, "Requested")]
       IN  IF Idle(J[u])
           THEN /\ \E ok \in StartOutcome(u) : inst' = Started(J, u, ok)
                /\ pending' = StillQueued(J, u) \ {u}
                /\ UNCHANGED pendingRestart
           ELSE /\ inst' = J
                /\ pending' = pending \ {u}
                /\ pendingRestart' = pendingRestart \cup {u}

-------------------------------------------------------------------------------
(* The end of a turn: the start queue, socket reconciliation, settled       *)

\* Units that are still queued hold back what is ordered after them, and so
\* do units that are still activating; any other state does not.
OrderingSatisfied(u) ==
    \A d \in After[u] : d \notin pending /\ inst[d].state # "Activating"

FailedRequirement(u) == \E d \in Requires[u] : inst[d].state = "Failed"

\* The first queued unit with nothing left to wait for.
NextStartable(i) ==
    LET Startable(j) == Order[j] \in pending /\ OrderingSatisfied(Order[j])
    IN  Startable(i) /\ \A j \in 1..(i - 1) : ~Startable(j)

PumpOne ==
    /\ pc \in {"dispatch", "pump"}
    /\ pc' = "pump"
    /\ ~ShuttingDown
    /\ \E i \in DOMAIN Order :
          /\ NextStartable(i)
          /\ LET u == Order[i]
             IN  IF FailedRequirement(u)
                 THEN /\ inst' = [inst EXCEPT ![u] = FailedToStart(@)]
                      /\ pending' = pending \ {u}
                 ELSE /\ \E ok \in StartOutcome(u) : inst' = Started(inst, u, ok)
                      /\ pending' = StillQueued(inst, u) \ {u}
    /\ UNCHANGED <<pendingRestart, shutdown, overdue, conn, armed, moves>>

Settled == ShuttingDown /\ ((\A u \in Units : Idle(inst[u])) \/ overdue)

\* Faulty variant: epoll_wait without the deadline as its bound.
Woken_EventOnly == pc \in {"dispatch", "pump"}

\* The loop wakes for an event, or for the shutdown's deadline (wait_bound).
Woken == pc \in {"dispatch", "pump"} \/ (pc = "wait" /\ overdue)

\* Faulty variants: a socket once given up is not watched again; whatever
\* activates a service is watched, timer units too.
WantArmed_Once == {s \in IF pc = "pump" THEN Sockets ELSE armed : Idle(inst[Activates[s]])}
WantArmed_Any == {s \in DOMAIN Activates : Idle(inst[Activates[s]])}

WantArmed == {s \in Sockets : Idle(inst[Activates[s]])}

EndTurn ==
    /\ Woken
    /\ ShuttingDown \/ ~\E i \in DOMAIN Order : NextStartable(i)
    /\ pending' = IF ShuttingDown THEN {} ELSE pending
    /\ armed' = WantArmed
    /\ pc' = IF Settled THEN "down" ELSE "wait"
    /\ UNCHANGED <<inst, pendingRestart, shutdown, overdue, conn, moves>>

-------------------------------------------------------------------------------
(* Processes, connections and time                                          *)

\* A process of u left its cgroup or died; the kernel marks a cgroup that
\* emptied by it.
Departed(u, r) ==
    [r EXCEPT !.emptied = @ \/ (Populated(u, inst[u]) /\ ~Populated(u, r))]

Moves(u, r) ==
    /\ Listening
    /\ inst' = [inst EXCEPT ![u] = Departed(u, r)]
    /\ UNCHANGED <<pending, pendingRestart, shutdown, overdue, conn, armed, pc>>

Voluntary == moves < MaxMoves /\ moves' = moves + 1

MainExits(u) ==
    /\ inst[u].child \in Live
    /\ ~Killed(inst[u])
    /\ Voluntary
    /\ \E how \in Outcomes[u] : Moves(u, [inst[u] EXCEPT !.child = how])

OtherExits(u) ==
    /\ Voluntary
    /\ \E p \in inst[u].others : Moves(u, [inst[u] EXCEPT !.others = @ \ {p}])

\* The SIGKILLs of stop_timed_out reach the main process and what its cgroup
\* holds, not a process that left it and that no handle names.
MainIsKilled(u) ==
    /\ Killed(inst[u]) /\ inst[u].child \in Live
    /\ Moves(u, [inst[u] EXCEPT !.child = "Abnormal"])
    /\ UNCHANGED moves

OthersAreKilled(u) ==
    /\ Killed(inst[u]) /\ u \in HasCgroup /\ inst[u].others \cap {"kid", "lost"} # {}
    /\ Moves(u, [inst[u] EXCEPT !.others = @ \cap {"away"}])
    /\ UNCHANGED moves

MainForks(u) ==
    /\ u \in Forks
    /\ inst[u].child = "in"
    /\ ~Killed(inst[u])
    /\ Voluntary
    /\ Moves(u, [inst[u] EXCEPT !.others = @ \cup {"kid"}])

MainRoams(u) ==
    /\ u \in Roams
    /\ inst[u].child = "in"
    /\ ~Killed(inst[u])
    /\ Voluntary
    /\ Moves(u, [inst[u] EXCEPT !.child = "away"])

SendsReady(u) ==
    /\ Kind[u] = "notify"
    /\ inst[u].child \in Live
    /\ ~Killed(inst[u])
    /\ Voluntary
    /\ Moves(u, [inst[u] EXCEPT !.ready = TRUE])

Connects(s) ==
    /\ Listening
    /\ Voluntary
    /\ conn' = conn \cup {s}
    /\ UNCHANGED <<inst, pending, pendingRestart, shutdown, overdue, armed, pc>>

\* The service does the accepting; oxinit never does.
Accepts(s) ==
    /\ Listening
    /\ s \in conn
    /\ inst[Activates[s]].child \in Live \/ inst[Activates[s]].others # {}
    /\ conn' = conn \ {s}
    /\ UNCHANGED <<inst, pending, pendingRestart, shutdown, overdue, armed, pc,
                   moves>>

DeadlinePasses ==
    /\ Listening
    /\ MayOverrun /\ ShuttingDown
    /\ overdue' = TRUE
    /\ UNCHANGED <<inst, pending, pendingRestart, shutdown, conn, armed, pc,
                   moves>>

-------------------------------------------------------------------------------
Init ==
    /\ inst = [u \in Units |-> New]
    /\ pending = {Order[i] : i \in DOMAIN Order}
    /\ pendingRestart = {}
    /\ shutdown = "none"
    /\ overdue = FALSE
    /\ conn = {}
    /\ armed = {}
    /\ pc = "pump"
    /\ moves = 0

Handler ==
    \/ \E u \in Units :
          \/ OnSigchld(u) \/ OnNotify(u) \/ OnCgroup(u)
          \/ OnRestart(u) \/ StartTimedOut(u) \/ StopTimeoutElapsed(u)
          \/ CheckWatchdog(u)
    \/ \E t \in DOMAIN Activates \ Sockets : TimerElapsed(t)
    \/ \E s \in Sockets : OnSocket(s)
    \/ \E a \in Actions : BeginShutdown(a)

Control ==
    \E u \in Units : HandleStart(u) \/ HandleStop(u) \/ HandleRestart(u)

Environment ==
    \/ \E u \in Units :
          \/ MainExits(u) \/ OtherExits(u) \/ MainIsKilled(u) \/ OthersAreKilled(u)
          \/ MainForks(u) \/ MainRoams(u) \/ SendsReady(u)
    \/ \E s \in Sockets : Connects(s) \/ Accepts(s)
    \/ DeadlinePasses

Next == Handler \/ Control \/ PumpOne \/ EndTurn \/ Environment

Spec == Init /\ [][Next]_vars

(* What the loop and the machine owe.  The sources are level-triggered and a *)
(* due alarm stays due, so what stays ready is handled in some turn; a turn  *)
(* that began ends.  The pump, during which no handler is enabled, runs at   *)
(* most once per queued unit, so weak fairness is enough.  A process that    *)
(* got SIGKILL dies, unless it is stuck in the kernel.  Nothing is owed by   *)
(* clients, signals, or a process left to itself.                            *)
Fairness ==
    /\ WF_vars(PumpOne \/ EndTurn)
    /\ WF_vars(DeadlinePasses)
    /\ \A u \in Units :
          /\ WF_vars(OnSigchld(u))
          /\ WF_vars(OnCgroup(u))
          /\ WF_vars(OnRestart(u))
          /\ WF_vars(StartTimedOut(u))
          /\ WF_vars(StopTimeoutElapsed(u))
    /\ \A s \in Sockets : WF_vars(OnSocket(s))
    /\ \A u \in Units \ Stuck : WF_vars(MainIsKilled(u)) /\ WF_vars(OthersAreKilled(u))

FairSpec == Spec /\ Fairness

-------------------------------------------------------------------------------
(* Safety                                                                    *)

(* A service that is not idle is always backed by something that will wake   *)
(* the loop for it: the start and stop deadlines, a backoff alarm, a process *)
(* whose exit is reaped, or its cgroup's event (start, stop, on_sigchld,     *)
(* on_cgroup together).  Without it a unit is stuck and a shutdown waits.    *)
NeverStranded ==
    \A u \in Services :
        LET r == inst[u]
        IN  /\ r.state = "Activating" =>
                    r.child # "none"
                    /\ (Kind[u] # "simple" => r.alarms["StartTimeout"] > 0)
            /\ r.state \in {"Active", "Deactivating"} =>
                    r.child # "none" \/ Populated(u, r) \/ r.emptied
            /\ r.state = "Deactivating" /\ ~r.killed => r.alarms["StopTimeout"] > 0
            /\ r.state = "Restarting" => r.alarms["Restart"] > 0

(* A watched service that is up has a check in the heap: arm_watchdog is     *)
(* called at READY=1 and by every check that found it alive, and a chain of  *)
(* checks that broke would leave a hang nothing else detects.                *)
WatchdogCovered ==
    \A u \in Watched :
        inst[u].state = "Active" => inst[u].alarms["WatchdogCheck"] > 0

(* Once a shutdown begins no unit is, or ever becomes, up, starting or       *)
(* waiting to restart, whichever exit, alarm, event or request arrives in    *)
(* the middle of it; settled waits for every unit that is.                   *)
GoingDown ==
    ShuttingDown =>
        \A u \in Units : inst[u].state \in {"Inactive", "Failed", "Deactivating"}

(* Units that exclude each other are never both up or coming up, whichever   *)
(* side declared it and however each was started (start, conflicting_with).  *)
Exclusive ==
    \A u, v \in Units :
        v \in ConflictingWith(u) =>
            ~(/\ inst[u].state \in {"Activating", "Active"}
              /\ inst[v].state \in {"Activating", "Active"})

(* A unit that is down or waiting out its backoff has no child left to reap, *)
(* and only a forking service is up without one, so the reaper and           *)
(* on_cgroup never both apply the restart policy to one end of a unit.       *)
Tracking ==
    \A u \in Services :
        /\ inst[u].child # "none" =>
              inst[u].state \in {"Activating", "Active", "Deactivating"}
        /\ inst[u].state = "Active" /\ inst[u].child = "none" => Kind[u] = "forking"

(* No start forks a main process beside one that still runs: "a second start *)
(* would be a second process" (is_idle).                                     *)
OneProcess == \A u \in Units : inst[u].others \cap {"lost", "away"} = {}

(* A remembered restart always belongs to a stop in progress.  One that      *)
(* outlived its stop would turn a later stop of the unit into a start        *)
(* (restart_when_stopped, finish_deactivation).                              *)
RestartPending == \A u \in pendingRestart : inst[u].state = "Deactivating"

(* A requested stop ends down and stays out of the restart policy: the unit  *)
(* leaves Deactivating for Inactive or Failed, or is started by the oxctl    *)
(* restart that asked for the stop (deactivated, finish_deactivation).       *)
StopOverridesPolicy ==
    [][\A u \in Services :
          inst[u].state = "Deactivating" /\ inst[u].cause = "Requested" =>
              \/ inst'[u].state \in {"Deactivating", "Inactive", "Failed"}
              \/ u \in pendingRestart /\ u \notin pendingRestart']_vars

-------------------------------------------------------------------------------
(* Liveness, under FairSpec                                                  *)

(* A shutdown always ends, even with a process nothing can kill: wait_bound  *)
(* wakes the loop at the deadline that no event marks.                       *)
ShutdownEnds == ShuttingDown ~> pc = "down"

(* The start queue always drains: activation is bounded by start-sec, so a   *)
(* service that never becomes ready does not hold back the boot.             *)
BootDrains == <>(pending = {})

(* A stop always ends, by an exit, by the cgroup emptying or by the kill,    *)
(* for services whose processes can be killed.                               *)
StopEnds ==
    \A u \in Services \ Stuck :
        inst[u].state = "Deactivating" ~>
            (inst[u].state # "Deactivating" \/ pc = "down")

(* An accepted oxctl restart ends in the unit coming up again, or in a       *)
(* shutdown (restart_when_stopped); claimed where a start cannot fail.       *)
RestartHonoured ==
    \A u \in Services \ (Stuck \cup MayFail) :
        u \in pendingRestart ~>
            \/ u \notin pendingRestart /\ inst[u].state \in {"Activating", "Active"}
            \/ ShuttingDown

(* A connection brings its service up, however the service went down last:   *)
(* sync_sockets watches the socket again whenever the service is idle.       *)
ConnectionActivates ==
    \A s \in Sockets :
        (s \in conn /\ Idle(inst[Activates[s]])) ~>
            (~Idle(inst[Activates[s]]) \/ s \notin conn \/ ShuttingDown)
===============================================================================
