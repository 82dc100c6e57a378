------------------------------- MODULE MainLoop -------------------------------
(***************************************************************************)
(* The event loop of crates/oxinit/src/main.rs against the clock: how long *)
(* it sleeps, what a turn does and in which order, the hardware watchdog   *)
(* it feeds (oxinit/src/watchdog.rs), the deadlines it serves (module      *)
(* Deadlines) and the end of a shutdown (oxinit/src/shutdown.rs).          *)
(*                                                                         *)
(* What units do is reduced to the two events the loop's timing depends    *)
(* on: the boot unit came up, and the last unit of a shutdown stopped.     *)
(* Handlers take no longer than Slack a turn together, or hang for ever.   *)
(***************************************************************************)
EXTENDS Deadlines, Watchdog

CONSTANTS
    EtcFiles, VendorFiles, CommandLines, \* the settings there may be
    Replies,       \* what a driver says of its timeout, and what it is
    LeftRunning,   \* countdowns an initramfs may have left behind
    Actions,       \* what signals ask for: PowerOff, Reboot, Halt
    ShutdownLimit, \* DEADLINE of a shutdown
    Slack,         \* how long the handlers of one turn take together
    MayHang        \* whether a handler may never return

\* A source of settings that parses, or one that does not.
Sources ==
    [broken : {FALSE}, timeout : Option(Nat), unit : BOOLEAN, boot : Option(Nat)]
        \cup {Broken}

\* A driver's timeout is a whole number of seconds, hence of pairs of ticks.
ASSUME MainLoopAssumption ==
    /\ {ShutdownLimit, Slack} \subseteq Nat
    /\ Actions \subseteq {"PowerOff", "Reboot", "Halt"}
    /\ Replies \subseteq [says : Option({n \in Nat : n % 2 = 0}), is : Nat \ {0}]
    /\ LeftRunning \subseteq Nat \ {0}
    /\ \A s \in EtcFiles \cup VendorFiles : s \in Option(Sources)
    /\ CommandLines \subseteq Sources

VARIABLES
    pc,       \* where the loop is
    batch,    \* sources epoll_wait returned that were not handled yet
    woke,     \* when it returned them
    byBound,  \* whether it returned because of its timeout alone
    known,    \* history: what had happened to units by then
    dog,      \* the watchdog's policy, if one is configured
    dev,      \* the device
    machine,  \* up, going, gone, or reset by its watchdog
    pending,  \* what happened to units and was not handled
    happened, \* what happened to units so far
    shutdown, \* the shutdown in progress
    container, \* whether oxinit runs in one
    asked,     \* what the signal that will come asks for
    loaded    \* the timer units and jobs this machine has

loopVars == <<pc, batch, woke, byBound, known>>

dogVars == <<dog, dev, machine>>

unitVars == <<pending, happened, shutdown>>

setting == <<container, asked, loaded>>

vars == <<deadlineVars, loopVars, dogVars, unitVars, setting>>

UnitEvent == {"Up", "Stopped"}

MainTypeOK ==
    /\ TypeOK
    /\ pc \in {"wait", "serve", "finalize", "down", "hung", "shell"}
    /\ batch \subseteq {"Timer", "WallTimer", "Units", "Signals"}
    /\ woke \in Nat
    /\ byBound \in BOOLEAN
    /\ \A p \in dog : p.boot \in BootState /\ p.open \in BOOLEAN /\ p.interval \in Nat \ {0}
    /\ dev \in [there : BOOLEAN, left : Option(Nat), is : Nat]
    /\ machine \in {"up", "reset"}
    /\ pending \subseteq UnitEvent \cup Actions
    /\ known \subseteq happened /\ happened \subseteq UnitEvent
    /\ shutdown \in Option([action : Actions, since : Nat])
    /\ goingDown = (shutdown # {})
    /\ container => dog = {}

-------------------------------------------------------------------------------
(* How long the loop sleeps                                                 *)

Readable ==
    {s \in {"Timer", "WallTimer", "Units", "Signals"} :
        CASE s = "Timer"     -> fd.readable
          [] s = "WallTimer" -> wallFd.readable
          [] s = "Units"     -> pending \cap UnitEvent # {}
          [] OTHER           -> pending \cap Actions # {}}

Overdue == \E s \in shutdown : now - s.since > ShutdownLimit

\* Faulty variant: the shutdown's deadline to the tick, not just past it.
ShutdownBound_Exact == {s.since + ShutdownLimit : s \in shutdown}

\* Just past the deadline, so that the wake-up finds it passed.
ShutdownBound == {s.since + ShutdownLimit + 1 : s \in shutdown}

\* Faulty variant: only the watchdog bounds the sleep.
WakeAt_DogOnly == Least(UNION {NextWake(p, now) : p \in dog})

\* The timeout of epoll_wait, as the moment it ends.
WakeAt == Least((UNION {NextWake(p, now) : p \in dog}) \cup ShutdownBound)

Running(place) == machine = "up" /\ pc = place

Wake ==
    /\ Running("wait")
    /\ Readable # {} \/ \E w \in WakeAt : now >= w
    /\ pc' = "serve"
    /\ batch' = Readable
    /\ woke' = now
    /\ byBound' = (Readable = {})
    /\ known' = happened
    /\ UNCHANGED <<deadlineVars, dogVars, unitVars, setting>>

-------------------------------------------------------------------------------
(* The handlers of a batch                                                  *)

Serving(source) ==
    /\ Running("serve")
    /\ source \in batch
    /\ ~InHandler
    /\ batch' = batch \ {source}
    /\ UNCHANGED <<pc, woke, byBound, known, dogVars, setting>>

ServeTimer == Serving("Timer") /\ OnTimer /\ UNCHANGED unitVars

ServeWallTimer == Serving("WallTimer") /\ OnWallTimer /\ UNCHANGED unitVars

\* The rest of on_timer and on_wall_timer.
GoOn ==
    /\ Running("serve")
    /\ WallPop \/ \E e \in fired : Handle(e)
    /\ UNCHANGED <<loopVars, dogVars, unitVars, setting>>

ServeUnits ==
    /\ Serving("Units")
    /\ pending' = pending \ UnitEvent
    /\ UNCHANGED <<deadlineVars, happened, shutdown>>

\* SIGTERM, SIGINT, SIGUSR1: the first begins the shutdown.
ServeSignals ==
    /\ Serving("Signals")
    /\ \E a \in pending \cap Actions :
          shutdown' = IF shutdown = {} THEN {[action |-> a, since |-> now]} ELSE shutdown
    /\ goingDown' = TRUE
    /\ pending' = pending \cap UnitEvent
    /\ UNCHANGED <<clockVars, heap, wallHeap, fd, wallFd, reading, fired, serviceVars,
                   happened>>

\* A handler starts timer units and schedules jobs.
HandlersSchedule ==
    /\ Running("serve")
    /\ \/ \E t \in Timers \cap loaded : StartTimer(t)
       \/ \E j \in Jobs \cap loaded : ~goingDown /\ ScheduleJob(j)
    /\ UNCHANGED <<loopVars, dogVars, unitVars, setting>>

Hang ==
    /\ MayHang
    /\ Running("serve")
    /\ pc' = "hung"
    /\ UNCHANGED <<deadlineVars, batch, woke, byBound, known, dogVars, unitVars, setting>>

-------------------------------------------------------------------------------
(* The end of a turn: the watchdog, then the shutdown                       *)

Seen(e) == e \in happened \ pending

Open(p, applied) ==
    IF dev.there
    THEN /\ dog' = {Opened(p, now, applied.says)}
         /\ dev' = [dev EXCEPT !.left = {applied.is}, !.is = applied.is]
    ELSE /\ dog' = {OpenFailed(p, now)}
         /\ UNCHANGED dev

\* The policy is told of a shutdown, asked what to do, and the device follows.
TickDog(p) ==
    LET told    == IF goingDown THEN [p EXCEPT !.shuttingDown = TRUE] ELSE p
        current == UpdateBoot(told, now, Seen("Up"))
        ticked  == Ticked(current, now)
    IN  CASE Action(current, now) = "Open" -> \E r \in Replies : Open(ticked, r)
          [] Action(current, now) = "Pet" ->
                /\ dog' = {ticked}
                /\ dev' = [dev EXCEPT !.left = {dev.is}]
          [] OTHER -> dog' = {ticked} /\ UNCHANGED dev

Settled == goingDown /\ (Seen("Stopped") \/ Overdue)

EndTurn ==
    /\ Running("serve")
    /\ batch = {}
    /\ ~InHandler
    /\ IF dog = {} THEN UNCHANGED <<dog, dev>> ELSE \E p \in dog : TickDog(p)
    /\ pc' = IF Settled THEN "finalize" ELSE "wait"
    /\ woke' = 0 /\ byBound' = FALSE /\ known' = {}
    /\ UNCHANGED <<deadlineVars, batch, machine, unitVars, setting>>

\* The device after release: stopped and closed, or fed a last time.
Released(p, action) ==
    IF ~p.open THEN dev
    ELSE IF Release(action = "Reboot") = "Disarm" THEN [dev EXCEPT !.left = {}]
    ELSE [dev EXCEPT !.left = {dev.is}]

\* In a container oxinit exits.  On a machine it syncs, releases the watchdog
\* and calls reboot, which may be refused.
Finalize ==
    /\ Running("finalize")
    /\ dev' = IF container \/ dog = {} THEN dev
              ELSE CHOOSE d \in {Released(p, s.action) : p \in dog, s \in shutdown} : TRUE
    /\ pc' \in IF container THEN {"down"} ELSE {"down", "shell"}
    /\ UNCHANGED <<deadlineVars, batch, woke, byBound, known, dog, machine, unitVars, setting>>

-------------------------------------------------------------------------------
(* Time, units, signals and the device                                      *)

\* Time passes while the loop sleeps, while handlers run, and for a watchdog
\* also while the machine syncs and when the loop is gone.
TimeMayPass ==
    CASE pc = "wait"  -> Readable = {} /\ \A w \in WakeAt : now < w
      [] pc = "serve" -> now < woke + Slack
      [] OTHER        -> dog # {}

Elapse ==
    /\ machine = "up"
    /\ TimeMayPass
    /\ ClocksAdvance
    /\ dev' = [dev EXCEPT !.left = {l - 1 : l \in @}]
    /\ machine' = IF dev'.left = {0} THEN "reset" ELSE "up"
    /\ UNCHANGED <<loopVars, dog, unitVars, setting>>

Outside ==
    /\ machine = "up"
    /\ pc \notin {"down", "hung", "shell"}
    /\ UNCHANGED <<loopVars, setting>>

Happens(e) ==
    /\ Outside
    /\ e \notin happened
    /\ e = "Stopped" => goingDown
    /\ e = "Up" => \E p \in dog : p.config.boot # {}
    /\ happened' = happened \cup {e}
    /\ pending' = pending \cup {e}
    /\ UNCHANGED <<deadlineVars, dogVars, shutdown>>

Signal ==
    /\ Outside
    /\ shutdown = {} /\ pending \cap Actions = {}
    /\ pending' = pending \cup {asked}
    /\ UNCHANGED <<deadlineVars, dogVars, happened, shutdown>>

\* Only timer units look at the wall clock.
ClockIsSet ==
    /\ Outside
    /\ loaded # {}
    /\ \E w \in {wall - 2, wall + 2} \cap Nat : SetClock(w)
    /\ UNCHANGED <<dogVars, unitVars>>

DeviceAppears ==
    /\ Outside
    /\ dog # {} /\ ~dev.there
    /\ dev' = [dev EXCEPT !.there = TRUE]
    /\ UNCHANGED <<deadlineVars, dog, machine, unitVars>>

ServiceOfTimerEnds ==
    /\ Outside
    /\ \E t \in Timers : ServiceEnds(t)
    /\ UNCHANGED <<dogVars, unitVars>>

\* Faulty variant: a container feeds the hardware of its host.
Configured_Anywhere ==
    \E etc \in EtcFiles, vendor \in VendorFiles, cmdline \in CommandLines :
       dog = {NewPolicy(c) : c \in UNION {Resolve(s) : s \in Load(etc, vendor, cmdline)}}

\* configure: a container's hardware is the host's.
Configured ==
    \E etc \in EtcFiles, vendor \in VendorFiles, cmdline \in CommandLines :
       dog = IF container THEN {}
             ELSE {NewPolicy(c) : c \in UNION {Resolve(s) : s \in Load(etc, vendor, cmdline)}}

\* The loop is entered with start_all, as a turn of its own.
Init ==
    /\ DeadlinesInit
    /\ starts = [o \in Owners |-> 0]
    /\ pc = "serve"
    /\ batch = {}
    /\ woke = 0
    /\ byBound = FALSE
    /\ known = {}
    /\ container \in BOOLEAN
    /\ asked \in Actions
    /\ Configured
    /\ \E there \in BOOLEAN, left \in Option(LeftRunning) :
          /\ dog = {} => ~there
          /\ ~there => left = {}
          /\ dev = [there |-> there, left |-> left, is |-> 0]
    /\ machine = "up"
    /\ pending = {}
    /\ happened = {}
    /\ shutdown = {}
    /\ loaded \in SUBSET Owners

Next ==
    \/ Wake
    \/ ServeTimer
    \/ ServeWallTimer
    \/ GoOn
    \/ ServeUnits
    \/ ServeSignals
    \/ HandlersSchedule
    \/ Hang
    \/ EndTurn
    \/ Finalize
    \/ Elapse
    \/ \E e \in UnitEvent : Happens(e)
    \/ Signal
    \/ ClockIsSet
    \/ DeviceAppears
    \/ ServiceOfTimerEnds

Spec == Init /\ [][Next]_vars

-------------------------------------------------------------------------------
(* Properties                                                               *)

(***************************************************************************)
(* The hardware resets only a machine that should be reset: one whose boot *)
(* was not confirmed in time, whose loop hangs or could not go on, that is *)
(* slow to sync, or that was asked to reboot.  A loop that turns feeds it  *)
(* in time, and one that powered the machine off has stopped it            *)
(* (next_wake, tick, release).                                             *)
(***************************************************************************)
NoUnwantedReset ==
    machine = "reset" /\ dog # {} =>
        \/ \E p \in dog : p.boot = "Overdue"
        \/ pc \in {"hung", "shell", "finalize"}
        \/ pc = "down" /\ \E s \in shutdown : s.action = "Reboot"

(***************************************************************************)
(* An overdue boot is final: from then on the countdown of a device that   *)
(* is open only goes down, whatever comes up, is opened or is stopped      *)
(* later, until the end of a shutdown (tick, update_boot).                 *)
(***************************************************************************)
StarvedForGood ==
    [][\A p \in dog : p.boot = "Overdue" /\ p.open /\ pc # "finalize" =>
        /\ \A q \in dog' : q.boot = "Overdue"
        /\ \A l \in dev.left : \E k \in dev'.left : k <= l]_vars

(***************************************************************************)
(* A boot is found overdue only if its deadline passed with no shutdown in *)
(* progress, and its unit had not come up when the loop woke: a unit that  *)
(* came up in the wake-up of the deadline came up in time (update_boot,    *)
(* and run, which asks after every handler).                               *)
(***************************************************************************)
NeverPunished ==
    [][\A p \in dog, q \in dog' : p.boot = "Pending" /\ q.boot = "Overdue" =>
        /\ \A d \in p.config.boot : now >= d
        /\ "Up" \notin known
        /\ ~goingDown]_vars

(***************************************************************************)
(* A timeout the loop asked for finds something to do: a device to open or *)
(* feed, a boot deadline that passed, a shutdown that is over.  A bound    *)
(* that nothing answers to would wake the loop for ever (wait_bound).      *)
(***************************************************************************)
NoSpin == [][EndTurn /\ byBound => dog' # dog \/ pc' = "finalize"]_vars

(***************************************************************************)
(* What a calendar answers is the first moment it names, now or later,     *)
(* whichever way the words are said (next_at).                             *)
(***************************************************************************)
FirstNamed ==
    \A c \in Calendars :
        LET m == NextAt(c, wall)
        IN  /\ m >= wall
            /\ Names(c, m)
            /\ \A x \in wall..(m - 1) : ~Names(c, x)

(***************************************************************************)
(* A shutdown is over its deadline no longer than a turn takes, whatever   *)
(* units do: the loop is woken for the deadline (Supervisor::wait_bound).  *)
(***************************************************************************)
ShutdownBounded ==
    pc \in {"wait", "serve"} =>
        \A s \in shutdown : now <= s.since + ShutdownLimit + 1 + Slack
===============================================================================
