------------------------------- MODULE Deadlines ------------------------------
(***************************************************************************)
(* The two heaps and the two timerfds of crates/oxinit/src/timer.rs, and   *)
(* what the supervisor schedules on them: timer units, and the alarms of   *)
(* the rest of the supervisor as jobs that are scheduled once.             *)
(*                                                                         *)
(* Time is in whole ticks, and sub-tick delays are none.  A timer unit may *)
(* be started again while an alarm of an earlier start is still set: each  *)
(* start begins a chain of alarms, and chain numbers the starts.  Stopping *)
(* a timer unit touches no alarm, so it is no action here.                 *)
(***************************************************************************)
EXTENDS Calendar, FiniteSets

CONSTANTS
    Timers,     \* the timer units
    Schedule,   \* timer unit -> its schedule
    Jobs,       \* other alarms: backoffs, stop and start timeouts, checks
    JobDelay,   \* job -> its delay
    MaxStarts,  \* bound: how often a timer unit is started
    MaxSteps,   \* bound: how often the wall clock is set
    WallStart,  \* the wall clock when oxinit starts
    Horizon     \* bound: how long time is followed

ASSUME DeadlinesAssumption ==
    /\ Schedule \in [Timers -> Schedules]
    /\ JobDelay \in [Jobs -> Nat]
    /\ Timers \cap Jobs = {}
    /\ {MaxStarts, MaxSteps, WallStart, Horizon} \subseteq Nat

VARIABLES
    now,      \* the monotonic clock
    wall,     \* the wall clock, in seconds since the epoch
    steps,    \* how often the wall clock was set
    heap,     \* alarms on the monotonic clock
    wallHeap, \* alarms on the wall clock
    fd,       \* the monotonic timerfd
    wallFd,   \* the realtime timerfd
    reading,  \* in wall_expired, after the read: the moment unix_now gave
    fired,    \* alarms that were popped and wait for the handler's loop
    starts,   \* timer unit or job -> how often it was scheduled from outside
    running,  \* timer units whose service is running
    listed,   \* timer unit -> its next_elapse
    lost,     \* history: alarms that were dropped without going off
    goingDown \* whether a shutdown is in progress

clockVars == <<now, wall, steps>>

serviceVars == <<starts, running, listed, lost>>

deadlineVars ==
    <<clockVars, heap, wallHeap, fd, wallFd, reading, fired, serviceVars, goingDown>>

Owners == Timers \cup Jobs

Entries == [clock : {"mono", "wall"}, at : Nat, unit : Owners, chain : Nat]

Firing == [clock : {"mono", "wall"}, when : Nat]

TypeOK ==
    /\ {now, wall, steps} \subseteq Nat
    /\ heap \subseteq {e \in Entries : e.clock = "mono"}
    /\ wallHeap \subseteq {e \in Entries : e.clock = "wall"}
    /\ fd \in [due : Option(Nat), readable : BOOLEAN]
    /\ wallFd \in [due : Option(Nat), readable : BOOLEAN, told : BOOLEAN, set : BOOLEAN]
    /\ reading \in Option(Nat)
    /\ fired \subseteq Entries
    /\ starts \in [Owners -> Nat]
    /\ running \subseteq Timers
    /\ listed \in [Timers -> Option(Firing)]
    /\ lost \subseteq Entries
    /\ goingDown \in BOOLEAN

-------------------------------------------------------------------------------
(* The timerfds, as the kernel keeps them: the moment one is armed for and *)
(* whether it is readable; for the realtime one also whether it wants to   *)
(* be told of a clock that is set, and whether one was set and not read.   *)

Earliest(h) == {e.at : e \in {x \in h : \A y \in h : x.at <= y.at}}

Expire(f, t) ==
    [f EXCEPT !.due = {m \in @ : m > t}, !.readable = @ \/ \E m \in f.due : m <= t]

\* Faulty variant: a deadline that has passed is a delay of zero, which disarms.
Armed_Unnudged(h, t) == [due |-> {m \in Earliest(h) : m > t}, readable |-> FALSE]

\* The monotonic timerfd for heap h, at time t.  A deadline that has passed is
\* nudged to the next instant, and an empty heap disarms.
Armed(h, t) == Expire([due |-> Earliest(h), readable |-> FALSE], t)

\* The realtime timerfd for heap h.  Arming reports a clock set that was not
\* read, as a failure, and arms all the same; disarming only stops the telling.
WallArmed(h, f) ==
    Expire([due |-> Earliest(h), readable |-> FALSE, told |-> h # {},
            set |-> h = {} /\ f.set], wall)

ArmFails(h, f) == h # {} /\ f.set

-------------------------------------------------------------------------------
(* schedule and schedule_at, and the supervisor's arm                       *)

InHandler == reading # {} \/ fired # {}

\* One chain of timer unit t is given its next firing, if there is one.
ArmTimer(t, chain, next) ==
    LET new(clock, base) ==
            {[clock |-> clock, at |-> base + n.when, unit |-> t, chain |-> chain] :
                n \in {m \in next : m.clock = clock}}
        mono == new("mono", now)
        abs  == new("wall", 0)
    IN  /\ heap' = heap \cup mono
        /\ wallHeap' = wallHeap \cup abs
        /\ fd' = IF mono # {} THEN Armed(heap', now) ELSE fd
        /\ wallFd' = IF abs # {} THEN WallArmed(wallHeap', wallFd) ELSE wallFd
        /\ listed' = IF abs # {} /\ ArmFails(wallHeap', wallFd)
                     THEN listed ELSE [listed EXCEPT ![t] = next]

\* start of a timer unit: a boot, a request or a dependency.
StartTimer(t) ==
    /\ ~InHandler
    /\ ~goingDown
    /\ starts[t] < MaxStarts
    /\ starts' = [starts EXCEPT ![t] = @ + 1]
    /\ ArmTimer(t, starts'[t], FirstFiring(Schedule[t], wall))
    /\ UNCHANGED <<clockVars, reading, fired, running, lost, goingDown>>

\* A restart's backoff, a start or stop timeout, a watchdog check.
ScheduleJob(j) ==
    /\ ~InHandler
    /\ starts[j] = 0
    /\ starts' = [starts EXCEPT ![j] = 1]
    /\ heap' = heap \cup
          {[clock |-> "mono", at |-> now + JobDelay[j], unit |-> j, chain |-> 1]}
    /\ fd' = Armed(heap', now)
    /\ UNCHANGED <<clockVars, wallHeap, wallFd, reading, fired, running, listed,
                   lost, goingDown>>

-------------------------------------------------------------------------------
(* on_timer and on_wall_timer                                               *)

\* Faulty variant: a deadline less than a tick away counts as passed.
Passed_Rounded(h, t) == {e \in h : e.at <= t + 1}

Passed(h, t) == {e \in h : e.at <= t}

\* Called for a readable timerfd, though an earlier handler of the same batch
\* may have rearmed it since.
OnTimer ==
    /\ ~InHandler
    /\ heap' = heap \ Passed(heap, now)
    /\ fd' = Armed(heap', now)
    /\ fired' = Passed(heap, now)
    /\ UNCHANGED <<clockVars, wallHeap, wallFd, reading, serviceVars, goingDown>>

\* The read fails if the clock was set: rearmed, and nothing else.
OnWallTimer ==
    /\ ~InHandler
    /\ IF wallFd.told /\ wallFd.set
       THEN /\ wallFd' = WallArmed(wallHeap, [wallFd EXCEPT !.set = FALSE])
            /\ UNCHANGED reading
       ELSE /\ wallFd' = [wallFd EXCEPT !.readable = FALSE]
            /\ reading' = {wall}
    /\ UNCHANGED <<clockVars, heap, wallHeap, fd, fired, serviceVars, goingDown>>

\* The clock may have been set since the read: then arming fails, and what
\* was popped is dropped with the error.
WallPop ==
    \E seen \in reading :
       LET passed == Passed(wallHeap, seen)
           fails  == ArmFails(wallHeap', wallFd)
       IN  /\ wallHeap' = wallHeap \ passed
           /\ wallFd' = WallArmed(wallHeap', wallFd)
           /\ fired' = IF fails THEN {} ELSE passed
           /\ lost' = IF fails THEN lost \cup passed ELSE lost
           /\ reading' = {}
           /\ UNCHANGED <<clockVars, heap, fd, starts, running, listed, goingDown>>

\* Faulty variant: a firing that is skipped is not followed by another.
Again_NotIfBusy(t) == IF t \in running THEN {} ELSE NextFiring(Schedule[t], wall)

Again(t) == NextFiring(Schedule[t], wall)

\* timer_elapsed, for the first of the alarms that fired: armed again before
\* its service is started, and whether or not the service is still running.
TimerElapsed(e) ==
    /\ e.unit \in Timers
    /\ IF goingDown
       THEN UNCHANGED <<heap, wallHeap, fd, wallFd, listed, running>>
       ELSE /\ ArmTimer(e.unit, e.chain, Again(e.unit))
            /\ running' = running \cup {e.unit}
    /\ UNCHANGED <<clockVars, reading, starts, lost, goingDown>>

JobDone(e) ==
    /\ e.unit \in Jobs
    /\ UNCHANGED <<clockVars, heap, wallHeap, fd, wallFd, reading, serviceVars, goingDown>>

Handle(e) ==
    /\ e \in fired
    /\ \A x \in fired : e.at <= x.at
    /\ fired' = fired \ {e}
    /\ TimerElapsed(e) \/ JobDone(e)

\* The service a timer started ends.
ServiceEnds(t) ==
    /\ t \in running
    /\ running' = running \ {t}
    /\ UNCHANGED <<clockVars, heap, wallHeap, fd, wallFd, reading, fired, starts,
                   listed, lost, goingDown>>

-------------------------------------------------------------------------------
(* Time passes on both clocks, and the wall clock is set.                   *)

ClocksAdvance ==
    /\ now < Horizon
    /\ now' = now + 1
    /\ wall' = wall + 1
    /\ fd' = Expire(fd, now')
    /\ wallFd' = Expire(wallFd, wall')
    /\ UNCHANGED <<steps, heap, wallHeap, reading, fired, serviceVars, goingDown>>

SetClock(w) ==
    /\ steps < MaxSteps
    /\ w # wall
    /\ steps' = steps + 1
    /\ wall' = w
    /\ wallFd' = LET f == Expire(wallFd, w)
                 IN  [f EXCEPT !.set = @ \/ f.told, !.readable = @ \/ f.told]
    /\ UNCHANGED <<now, heap, wallHeap, fd, reading, fired, serviceVars, goingDown>>

DeadlinesInit ==
    /\ now = 0
    /\ wall = WallStart
    /\ steps = 0
    /\ heap = {}
    /\ wallHeap = {}
    /\ fd = [due |-> {}, readable |-> FALSE]
    /\ wallFd = [due |-> {}, readable |-> FALSE, told |-> FALSE, set |-> FALSE]
    /\ reading = {}
    /\ fired = {}
    /\ running = {}
    /\ listed = [t \in Timers |-> {}]
    /\ lost = {}
    /\ goingDown = FALSE

-------------------------------------------------------------------------------
(* Properties                                                               *)

(***************************************************************************)
(* Whatever is in a heap, something will wake the loop for it, no later    *)
(* than its moment: the timerfd is readable or armed for the earliest      *)
(* entry.  Scheduling rearms a timerfd that may have fired and not been    *)
(* read yet, which takes its readiness away (arm, arm_wall).               *)
(***************************************************************************)
Covered ==
    /\ heap # {} => fd.readable \/ fd.due = Earliest(heap)
    /\ wallHeap # {} =>
          reading # {} \/ wallFd.readable \/ wallFd.due = Earliest(wallHeap)

(***************************************************************************)
(* A schedule that repeats goes on for ever: of every start of a timer     *)
(* unit there is exactly one alarm, set or about to be handled, until a    *)
(* shutdown; a busy service, the clock that runs first and a clock set     *)
(* change nothing, but for the alarm that a set in the middle of the       *)
(* handler dropped (timer_elapsed, wall_expired).                          *)
(***************************************************************************)
OneAlarmPerStart ==
    \A t \in Timers : ~goingDown /\ Repeats(Schedule[t]) =>
        \A c \in 1..starts[t] :
            Cardinality({e \in heap \cup wallHeap \cup fired \cup lost :
                            e.unit = t /\ e.chain = c}) = 1

\* The alarms of both heaps are a set of alarms that go off as they should.
Promise == INSTANCE AlarmClock WITH
    Alarms <- Entries, alarms <- heap \cup wallHeap, ringing <- fired,
    unseen <- wallFd.set

(***************************************************************************)
(* The heaps and the timerfds implement the alarm clock: no alarm early,   *)
(* none twice, none lost but by a clock set that was not reported yet.     *)
(***************************************************************************)
PromiseKept == Promise!Spec
===============================================================================
