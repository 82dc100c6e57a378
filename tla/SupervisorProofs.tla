--------------------------- MODULE SupervisorProofs ---------------------------
(***************************************************************************)
(* Theorems about module Supervisor, for every set of units, every kind,   *)
(* policy, order and conflict relation, and every bound: the types, no     *)
(* unit up during a shutdown, and the mutual exclusion of conflicting      *)
(* units; that what a unit that is not idle is waiting for is always on    *)
(* its way, and that its processes are tracked and never doubled.          *)
(*                                                                         *)
(* The first argument follows the code: whatever a handler does to the     *)
(* records is a Steady change, one after which no unit is up that was not, *)
(* or a Steady change followed by one start, which stops what it excludes. *)
(* In the second, Backed says of one record what a handler must leave      *)
(* behind: a process, a populated cgroup or an unread event, and the alarm *)
(* of its state.  Each transition keeps it; a start establishes it         *)
(* whatever was there.  Held says that no process of a record was lost,    *)
(* which a start keeps only if there was none: that is what being backed   *)
(* is needed for.                                                          *)
(***************************************************************************)
EXTENDS Supervisor, TLAPS

-------------------------------------------------------------------------------
(* Transitions of one record (module Instance): a record again, and the     *)
(* states it can leave the unit in.                                         *)

Down == {"Inactive", "Failed"}

(* Dropping a Child handle changes no state (every "self.child = None").     *)
LEMMA NoChildFacts ==
    ASSUME NEW r \in Record
    PROVE  NoChild(r) \in Record /\ NoChild(r).state = r.state
<1>1. r.others \cup (CASE r.child = "in"   -> {"lost"}
                       [] r.child = "away" -> {"away"}
                       [] OTHER            -> {}) \in SUBSET Other
  BY DEF Record, Other
<1>2. QED
  BY <1>1 DEF NoChild, Record, Child

(* Arming a deadline changes no state (timers.schedule).                     *)
LEMMA ArmedFacts ==
    ASSUME NEW r \in Record, NEW k \in Alarm
    PROVE  Armed(r, k) \in Record /\ Armed(r, k).state = r.state
  BY DEF Armed, Record

(* entered_activating, failed_to_start, entered_active and forked_away.      *)
LEMMA EnteredFacts ==
    ASSUME NEW r \in Record
    PROVE  /\ EnteredActivating(r) \in Record
           /\ EnteredActivating(r).state = "Activating"
           /\ FailedToStart(r) \in Record
           /\ FailedToStart(r).state = "Failed"
           /\ EnteredActive(r) \in Record
           /\ EnteredActive(r).state = "Active"
           /\ ForkedAway(r) \in Record
           /\ ForkedAway(r).state = "Active"
  BY NoChildFacts
     DEF EnteredActivating, FailedToStart, EnteredActive, ForkedAway, Record, State,
         Child

(* entered_deactivating and stop_timed_out.                                  *)
LEMMA DeactivatingFacts ==
    ASSUME NEW r \in Record, NEW cause \in StopCause
    PROVE  /\ EnteredDeactivating(r, cause) \in Record
           /\ EnteredDeactivating(r, cause).state = "Deactivating"
           /\ StopTimedOut(r) \in Record
           /\ StopTimedOut(r).state = r.state
  BY DEF EnteredDeactivating, StopTimedOut, Record, State

(* cancel_restart leaves no unit Restarting and touches no other.            *)
LEMMA CancelRestartFacts ==
    ASSUME NEW r \in Record
    PROVE  /\ CancelRestart(r) \in Record
           /\ r.state = "Restarting" => CancelRestart(r).state = "Inactive"
           /\ r.state # "Restarting" => CancelRestart(r) = r
  BY NoChildFacts DEF CancelRestart, Record, State

(* schedule_restart ends a unit down or waiting, and never waiting under "no".*)
LEMMA ScheduleRestartFacts ==
    ASSUME NEW r \in Record, NEW policy, NEW exit \in Exit
    PROVE  /\ ScheduleRestart(r, policy, exit) \in Record
           /\ ScheduleRestart(r, policy, exit).state \in Down \cup {"Restarting"}
           /\ policy = "No" => ScheduleRestart(r, policy, exit).state \in Down
  BY DEF ScheduleRestart, ShouldRestart, Record, State, Down

(* deactivated ends a stop: down, or waiting to restart.                     *)
LEMMA DeactivatedFacts ==
    ASSUME NEW r \in Record, NEW policy
    PROVE  /\ Deactivated(r, policy) \in Record
           /\ Deactivated(r, policy).state \in Down \cup {"Restarting"}
           /\ policy = "No" => Deactivated(r, policy).state \in Down
<1> DEFINE d == [NoChild(r) EXCEPT !.killed = FALSE, !.cause = "None"]
<1>1. d \in Record
  BY NoChildFacts DEF Record
<1>2. [d EXCEPT !.state = IF r.killed THEN "Failed" ELSE "Inactive"] \in Record
  BY <1>1 DEF Record, State
<1>3. [d EXCEPT !.state = IF r.killed THEN "Failed" ELSE "Inactive"].state \in Down
  BY <1>1 DEF Record, Down
<1>4. "Abnormal" \in Exit
  BY DEF Exit
<1> HIDE DEF d
<1>5. ASSUME r.cause = "Watchdog"
      PROVE  Deactivated(r, policy) = ScheduleRestart(d, policy, "Abnormal")
  BY <1>5 DEF Deactivated, d
<1>6. ASSUME r.cause # "Watchdog"
      PROVE  Deactivated(r, policy) =
                [d EXCEPT !.state = IF r.killed THEN "Failed" ELSE "Inactive"]
  BY <1>6 DEF Deactivated, d
<1>7. QED
  BY <1>1, <1>2, <1>3, <1>4, <1>5, <1>6, ScheduleRestartFacts

(* on_exit: a stop in progress goes on, anything else ends down or waiting.  *)
LEMMA OnExitFacts ==
    ASSUME NEW r \in Record, NEW policy, NEW oneshot \in BOOLEAN, NEW exit \in Exit
    PROVE  /\ OnExit(r, policy, oneshot, exit) \in Record
           /\ r.state = "Deactivating" =>
                OnExit(r, policy, oneshot, exit).state = "Deactivating"
           /\ r.state # "Deactivating" =>
                OnExit(r, policy, oneshot, exit).state \in Down \cup {"Restarting"}
<1> DEFINE done == oneshot /\ r.state = "Activating" /\ exit = "Clean"
           d    == [NoChild(r) EXCEPT !.reached = @ \/ done]
<1>1. d \in Record
  <2>1. (NoChild(r).reached \/ done) \in BOOLEAN
    OBVIOUS
  <2>2. QED
    BY <2>1, NoChildFacts DEF Record
<1>2. OnExit(r, policy, oneshot, exit) =
        IF r.state = "Deactivating" THEN NoChild(r) ELSE ScheduleRestart(d, policy, exit)
  BY DEF OnExit
<1> HIDE DEF d
<1>3. QED
  BY <1>1, <1>2, NoChildFacts, ScheduleRestartFacts

-------------------------------------------------------------------------------
(* Changes of all the records.                                              *)

Up(r) == r.state \in {"Activating", "Active"}

Halted == {"Inactive", "Failed", "Deactivating"}

Calm(I) == \A v \in Units : I[v].state \in Halted

KeepsCalm(I, J) == ShuttingDown /\ Calm(I) => Calm(J)

Quiet(I, J) == \A v \in Units : Up(J[v]) => Up(I[v])

\* Only u may have come up, and nothing it excludes is up beside it.
Raised(I, J, u) ==
    \A v \in Units \ {u} : Up(J[v]) => Up(I[v]) /\ v \notin ConflictingWith(u)

Steady(I, J) == J \in [Units -> Record] /\ KeepsCalm(I, J) /\ Quiet(I, J)

Sound(I, J) ==
    /\ J \in [Units -> Record]
    /\ KeepsCalm(I, J)
    /\ Quiet(I, J) \/ \E u \in Units : Raised(I, J, u)

-------------------------------------------------------------------------------
(* Steady and Sound changes compose.                                        *)

LEMMA SteadyIsSound ==
    ASSUME NEW I, NEW J, Steady(I, J)
    PROVE  Sound(I, J)
  BY DEF Steady, Sound

LEMMA SteadyThenSound ==
    ASSUME NEW I, NEW J, NEW K, Steady(I, J), Sound(J, K)
    PROVE  Sound(I, K)
<1>1. KeepsCalm(I, K)
  BY DEF Steady, Sound, KeepsCalm
<1>2. ASSUME Quiet(J, K) PROVE Quiet(I, K)
  BY <1>2 DEF Steady, Quiet
<1>3. ASSUME NEW u \in Units, Raised(J, K, u) PROVE Raised(I, K, u)
  BY <1>3 DEF Steady, Quiet, Raised
<1>4. QED
  BY <1>1, <1>2, <1>3 DEF Sound

LEMMA SteadyTransitive ==
    ASSUME NEW I, NEW J, NEW K, Steady(I, J), Steady(J, K)
    PROVE  Steady(I, K)
  BY DEF Steady, KeepsCalm, Quiet

\* One unit's record changes and does not come up.
LEMMA SetUnit ==
    ASSUME NEW I \in [Units -> Record], NEW u \in Units, NEW r \in Record,
           Up(r) => Up(I[u]),
           ShuttingDown /\ I[u].state \in Halted => r.state \in Halted
    PROVE  Steady(I, [I EXCEPT ![u] = r])
<1> DEFINE J == [I EXCEPT ![u] = r]
<1>1. /\ J \in [Units -> Record]
      /\ J[u] = r
      /\ \A v \in Units \ {u} : J[v] = I[v]
  OBVIOUS
<1> HIDE DEF J
<1>2. KeepsCalm(I, J)
  BY <1>1 DEF KeepsCalm, Calm
<1>3. Quiet(I, J)
  BY <1>1 DEF Quiet
<1>4. QED
  BY <1>1, <1>2, <1>3 DEF Steady, J

-------------------------------------------------------------------------------
(* start and stop                                                           *)

\* stop leaves a unit down or on its way down, whatever it was doing.
LEMMA StopUnitFacts ==
    ASSUME NEW u \in Units, NEW r \in Record, NEW cause \in StopCause
    PROVE  StopUnit(u, r, cause) \in Record /\ StopUnit(u, r, cause).state \in Halted
<1> DEFINE d == EnteredDeactivating(r, cause)
<1>1. d \in Record /\ d.state = "Deactivating"
  BY DeactivatingFacts
<1>2. Deactivated(d, "No") \in Record /\ Deactivated(d, "No").state \in Halted
  BY <1>1, DeactivatedFacts DEF Down, Halted
<1>3. Armed(d, "StopTimeout") \in Record /\ Armed(d, "StopTimeout").state \in Halted
  BY <1>1, ArmedFacts DEF Alarm, Halted
<1>4. r.state \in State /\ Kind[u] \in UnitKind
  BY UnitsAssumption DEF Record
<1> HIDE DEF d
<1>5. CASE r.state = "Restarting"
  BY <1>5, CancelRestartFacts DEF StopUnit, Halted
<1>6. CASE r.state # "Restarting" /\ Kind[u] \notin ServiceType
  BY <1>6, <1>2 DEF StopUnit, d
<1>7. CASE r.state \in {"Activating", "Active"} /\ Kind[u] \in ServiceType
  BY <1>7, <1>3 DEF StopUnit, d
<1>8. CASE r.state \in Halted /\ Kind[u] \in ServiceType
  BY <1>8 DEF StopUnit, Halted
<1>9. QED
  BY <1>4, <1>5, <1>6, <1>7, <1>8 DEF State, Halted

LEMMA StartUnitFacts ==
    ASSUME NEW u \in Units, NEW r \in Record, NEW ok
    PROVE  StartUnit(u, r, ok) \in Record
<1>1. EnteredActivating(r) \in Record /\ EnteredActive(r) \in Record
      /\ FailedToStart(r) \in Record
  BY EnteredFacts
<1>2. /\ EnteredActive(EnteredActivating(r)) \in Record
      /\ Armed(EnteredActivating(r), "StartTimeout") \in Record
      /\ Armed(EnteredActive(r), "TimerElapsed") \in Record
  BY <1>1, EnteredFacts, ArmedFacts DEF Alarm
<1>3. QED
  BY <1>1, <1>2 DEF StartUnit

\* A start raises at most the unit it starts, and refuses during a shutdown.
LEMMA StartedSound ==
    ASSUME NEW I \in [Units -> Record], NEW u \in Units, NEW ok
    PROVE  Sound(I, Started(I, u, ok))
<1> DEFINE J == Launched(I, u, ok)
<1>1. CASE ShuttingDown
  BY <1>1 DEF Started, Sound, KeepsCalm, Quiet
<1>2. CASE ~ShuttingDown
  <2>1. "Requested" \in StopCause
    BY DEF StopCause
  <2>2. J \in [Units -> Record]
    BY <2>1, StopUnitFacts, StartUnitFacts DEF Launched
  <2>3. Raised(I, J, u)
    <3> SUFFICES ASSUME NEW v \in Units \ {u}, Up(J[v])
                 PROVE  Up(I[v]) /\ v \notin ConflictingWith(u)
      BY DEF Raised
    <3>1. J[v] = IF v \in Excluded(I, u) THEN StopUnit(v, I[v], "Requested") ELSE I[v]
      BY DEF Launched
    <3>2. CASE v \in Excluded(I, u)
      BY <3>1, <3>2, <2>1, StopUnitFacts DEF Up, Halted
    <3>3. CASE v \notin Excluded(I, u)
      BY <3>1, <3>3 DEF Excluded, Up, Idle
    <3>4. QED
      BY <3>2, <3>3
  <2>4. QED
    BY <1>2, <2>2, <2>3 DEF Started, Sound, KeepsCalm
<1>3. QED
  BY <1>1, <1>2

\* A restart the policy asks for changes no state, and on the way down none
\* is left waiting.
LEMMA RestartOrCancelFacts ==
    ASSUME NEW r \in Record, r.state \in Halted \cup {"Restarting"}
    PROVE  /\ RestartOrCancel(r) \in Record
           /\ ~Up(RestartOrCancel(r))
           /\ ShuttingDown => RestartOrCancel(r).state \in Halted
<1>1. "Restart" \in Alarm
  BY DEF Alarm
<1>2. Armed(r, "Restart") \in Record /\ Armed(r, "Restart").state = r.state
  BY <1>1, ArmedFacts
<1>3. QED
  BY <1>2, CancelRestartFacts DEF RestartOrCancel, Up, Halted

\* One unit is put through a transition that ends down, and may restart.
LEMMA EndedSteady ==
    ASSUME NEW I \in [Units -> Record], NEW u \in Units, NEW r \in Record,
           r.state \in Halted \cup {"Restarting"}
    PROVE  Steady(I, [I EXCEPT ![u] = RestartOrCancel(r)])
  BY RestartOrCancelFacts, SetUnit

LEMMA OutcomeIsStart ==
    ASSUME NEW I \in [Units -> Record], NEW u \in Units,
           \E ok \in StartOutcome(u) : inst' = Started(I, u, ok)
    PROVE  Sound(I, inst')
  BY StartedSound

\* The end of a stop, with the start an oxctl restart is owed.
LEMMA FinishSound ==
    ASSUME NEW I \in [Units -> Record], NEW u \in Units, FinishDeactivation(I, u)
    PROVE  Sound(I, inst')
<1> DEFINE r == Deactivated(I[u], Policy[u])
           J == [I EXCEPT ![u] = RestartOrCancel(r)]
<1>1. r \in Record /\ r.state \in Halted \cup {"Restarting"}
  BY DeactivatedFacts DEF Down, Halted
<1> HIDE DEF r
<1>2. Steady(I, J)
  BY <1>1, EndedSteady
<1>3. J \in [Units -> Record]
  BY <1>2 DEF Steady
<1>4. CASE u \in pendingRestart
  <2>1. \E ok \in StartOutcome(u) : inst' = Started(J, u, ok)
    BY <1>4 DEF FinishDeactivation, r
  <2>2. Sound(J, inst')
    BY <1>3, <2>1, OutcomeIsStart
  <2>3. QED
    BY <1>2, <2>2, SteadyThenSound
<1>5. CASE u \notin pendingRestart
  <2>1. inst' = J
    BY <1>5 DEF FinishDeactivation, r
  <2>2. QED
    BY <1>2, <2>1, SteadyIsSound
<1>6. QED
  BY <1>4, <1>5

\* An alarm leaves the heap and no state changes.
LEMMA PoppedSteady ==
    ASSUME inst \in [Units -> Record], NEW u \in Units, NEW k \in Alarm,
           NEW I \in Popped(k, u)
    PROVE  Steady(inst, I) /\ \A v \in Units : I[v].state = inst[v].state
<1>1. PICK n \in {0, 1, 2} : I = [inst EXCEPT ![u].alarms[k] = n]
  BY DEF Popped
<1> DEFINE r == [inst[u] EXCEPT !.alarms[k] = n]
<1>2. r \in Record /\ r.state = inst[u].state
  BY SMTT(20) DEF Record
<1>3. I = [inst EXCEPT ![u] = r]
  BY <1>1
<1> HIDE DEF r
<1>4. Steady(inst, I)
  BY <1>2, <1>3, SetUnit DEF Up
<1>5. QED
  BY <1>2, <1>3, <1>4

-------------------------------------------------------------------------------
(* Every step but the one that begins a shutdown is Sound.                  *)

LEMMA OnSigchldSound ==
    ASSUME TypeOK, NEW u \in Units, OnSigchld(u)
    PROVE  Sound(inst, inst')
<1> DEFINE r == inst[u]
           exited == OnExit(r, Policy[u], Kind[u] = "oneshot", r.child)
<1>1. inst \in [Units -> Record] /\ r \in Record /\ r.child \in Exit
  BY DEF TypeOK, OnSigchld
<1>2. /\ exited \in Record
      /\ exited.state \in Halted \cup {"Restarting"}
      /\ r.state = "Deactivating" => exited.state = "Deactivating"
  <2> DEFINE oneshot == Kind[u] = "oneshot"
  <2> HIDE DEF oneshot
  <2>2. OnExit(r, Policy[u], oneshot, r.child) \in Record
        /\ OnExit(r, Policy[u], oneshot, r.child).state \in Halted \cup {"Restarting"}
        /\ (r.state = "Deactivating" =>
              OnExit(r, Policy[u], oneshot, r.child).state = "Deactivating")
    <3>1. oneshot \in BOOLEAN
      BY DEF oneshot
    <3>2. QED
      BY <1>1, <3>1, OnExitFacts DEF Down, Halted
  <2>3. QED
    BY <2>2 DEF oneshot
<1> HIDE DEF exited
<1>3. CASE Kind[u] = "forking" /\ r.state = "Activating"
  <2>1. ForkingParentExited(u, r) \in Record
    BY <1>1, EnteredFacts DEF ForkingParentExited
  <2>2. inst' = [inst EXCEPT ![u] = ForkingParentExited(u, r)]
    BY <1>3 DEF OnSigchld
  <2>3. QED
    BY <1>1, <1>3, <2>1, <2>2, SetUnit, SteadyIsSound DEF Up, Halted
<1>4. CASE ~(Kind[u] = "forking" /\ r.state = "Activating") /\ ExitEndsStop(u, exited)
  <2>1. FinishDeactivation([inst EXCEPT ![u] = exited], u)
    BY <1>4 DEF OnSigchld, exited
  <2>2. exited.state = "Deactivating"
    BY <1>4 DEF ExitEndsStop
  <2>3. Steady(inst, [inst EXCEPT ![u] = exited])
    BY <1>1, <1>2, <2>2, SetUnit DEF Up, Halted
  <2>4. Sound([inst EXCEPT ![u] = exited], inst')
    BY <2>1, <2>3, FinishSound DEF Steady
  <2>5. QED
    BY <2>3, <2>4, SteadyThenSound
<1>5. CASE ~(Kind[u] = "forking" /\ r.state = "Activating") /\ ~ExitEndsStop(u, exited)
  <2>1. inst' = [inst EXCEPT ![u] = RestartOrCancel(exited)]
    BY <1>5 DEF OnSigchld, exited
  <2>2. QED
    BY <1>1, <1>2, <2>1, EndedSteady, SteadyIsSound
<1>6. QED
  BY <1>3, <1>4, <1>5

LEMMA OnCgroupSound ==
    ASSUME TypeOK, NEW u \in Units, OnCgroup(u)
    PROVE  Sound(inst, inst')
<1> DEFINE r == [inst[u] EXCEPT !.emptied = FALSE]
           gone == OnExit(r, Policy[u], FALSE, "Abnormal")
           vanished == IF gone.state = "Restarting" THEN Armed(gone, "Restart") ELSE gone
<1>1. inst \in [Units -> Record] /\ r \in Record /\ r.state = inst[u].state
  BY DEF TypeOK, Record
<1>2. Steady(inst, [inst EXCEPT ![u] = r])
  BY <1>1, SetUnit DEF Up
<1>3. CASE ~Populated(u, r) /\ r.state = "Deactivating"
  <2>1. FinishDeactivation([inst EXCEPT ![u] = r], u)
    BY <1>3 DEF OnCgroup
  <2>2. Sound([inst EXCEPT ![u] = r], inst')
    BY <1>2, <2>1, FinishSound DEF Steady
  <2>3. QED
    BY <1>2, <2>2, SteadyThenSound
<1>4. CASE ~Populated(u, r) /\ r.state = "Active" /\ r.child = "none"
  <2>1. inst' = [inst EXCEPT ![u] = vanished]
    BY <1>4 DEF OnCgroup
  <2>2. "Abnormal" \in Exit /\ "Restart" \in Alarm
    BY DEF Exit, Alarm
  <2>3. gone \in Record
    BY <1>1, <2>2, OnExitFacts
  <2> HIDE DEF gone
  <2>4. vanished \in Record
    BY <2>2, <2>3, ArmedFacts
  <2>5. Up(inst[u]) /\ inst[u].state \notin Halted
    BY <1>1, <1>4 DEF Up, Halted
  <2> HIDE DEF vanished
  <2>6. Steady(inst, [inst EXCEPT ![u] = vanished])
    BY <1>1, <2>4, <2>5, SetUnit
  <2>7. QED
    BY <2>1, <2>6, SteadyIsSound
<1>5. CASE /\ ~(~Populated(u, r) /\ r.state = "Deactivating")
           /\ ~(~Populated(u, r) /\ r.state = "Active" /\ r.child = "none")
  <2>1. inst' = [inst EXCEPT ![u] = r]
    BY <1>5 DEF OnCgroup
  <2>2. QED
    BY <1>2, <2>1, SteadyIsSound
<1>6. QED
  BY <1>3, <1>4, <1>5

LEMMA OnNotifySound ==
    ASSUME TypeOK, NEW u \in Units, OnNotify(u)
    PROVE  Sound(inst, inst')
<1> DEFINE r == [inst[u] EXCEPT !.ready = FALSE]
           up == EnteredActive(r)
           s == IF r.state # "Activating" THEN r
                ELSE IF u \in Watched THEN Armed(up, "WatchdogCheck") ELSE up
<1>1. inst \in [Units -> Record] /\ r \in Record /\ r.state = inst[u].state
  BY DEF TypeOK, Record
<1>2. up \in Record /\ "WatchdogCheck" \in Alarm
  BY <1>1, EnteredFacts DEF Alarm
<1>3. s \in Record /\ (r.state # "Activating" => s = r)
  BY <1>1, <1>2, ArmedFacts
<1>4. inst' = [inst EXCEPT ![u] = s]
  BY DEF OnNotify
<1> HIDE DEF s
<1>5. QED
  BY <1>1, <1>3, <1>4, SetUnit, SteadyIsSound DEF Up, Halted

\* Every handler that may start one unit after an alarm left the heap.
LEMMA PoppedThenSound ==
    ASSUME TypeOK, NEW u \in Units, NEW k \in Alarm, NEW I \in Popped(k, u),
           Sound(I, inst')
    PROVE  Sound(inst, inst')
  BY PoppedSteady, SteadyThenSound DEF TypeOK

LEMMA OnRestartSound ==
    ASSUME TypeOK, NEW u \in Units, OnRestart(u)
    PROVE  Sound(inst, inst')
<1>1. "Restart" \in Alarm
  BY DEF Alarm
<1>2. PICK I \in Popped("Restart", u) :
         \/ \E ok \in StartOutcome(u) : inst' = Started(I, u, ok)
         \/ inst' = I
  BY DEF OnRestart
<1>3. Steady(inst, I) /\ I \in [Units -> Record]
  BY <1>1, PoppedSteady DEF TypeOK, Steady
<1>4. Sound(I, inst') \/ inst' = I
  BY <1>2, <1>3, OutcomeIsStart
<1>5. QED
  BY <1>1, <1>3, <1>4, PoppedThenSound, SteadyIsSound

LEMMA StartTimedOutSound ==
    ASSUME TypeOK, NEW u \in Units, StartTimedOut(u)
    PROVE  Sound(inst, inst')
<1>1. "StartTimeout" \in Alarm /\ "Watchdog" \in StopCause
  BY DEF Alarm, StopCause
<1>2. PICK I \in Popped("StartTimeout", u) :
         \/ inst' = [I EXCEPT ![u] = StopUnit(u, I[u], "Watchdog")]
         \/ inst' = I
  BY DEF StartTimedOut
<1>3. Steady(inst, I) /\ I \in [Units -> Record]
  BY <1>1, PoppedSteady DEF TypeOK, Steady
<1>4. Steady(I, [I EXCEPT ![u] = StopUnit(u, I[u], "Watchdog")])
  BY <1>1, <1>3, StopUnitFacts, SetUnit DEF Up, Halted
<1>5. QED
  BY <1>2, <1>3, <1>4, SteadyIsSound, SteadyTransitive

LEMMA StopTimeoutSound ==
    ASSUME TypeOK, NEW u \in Units, StopTimeoutElapsed(u)
    PROVE  Sound(inst, inst')
<1>1. "StopTimeout" \in Alarm /\ "Requested" \in StopCause
  BY DEF Alarm, StopCause
<1>2. PICK I \in Popped("StopTimeout", u) :
         \/ inst' = [I EXCEPT ![u] = StopTimedOut(I[u])]
         \/ inst' = I
  BY DEF StopTimeoutElapsed
<1>3. Steady(inst, I) /\ I \in [Units -> Record]
  BY <1>1, PoppedSteady DEF TypeOK, Steady
<1>4. Steady(I, [I EXCEPT ![u] = StopTimedOut(I[u])])
  BY <1>1, <1>3, DeactivatingFacts, SetUnit DEF Up
<1>5. QED
  BY <1>2, <1>3, <1>4, SteadyIsSound, SteadyTransitive

LEMMA CheckWatchdogSound ==
    ASSUME TypeOK, NEW u \in Units, CheckWatchdog(u)
    PROVE  Sound(inst, inst')
<1>1. "WatchdogCheck" \in Alarm /\ "Watchdog" \in StopCause
  BY DEF Alarm, StopCause
<1>2. PICK I \in Popped("WatchdogCheck", u) :
         \/ inst' = [I EXCEPT ![u] = Armed(I[u], "WatchdogCheck")]
         \/ inst' = [I EXCEPT ![u] = StopUnit(u, I[u], "Watchdog")]
         \/ inst' = I
  BY DEF CheckWatchdog, CheckedAgain
<1>3. Steady(inst, I) /\ I \in [Units -> Record]
  BY <1>1, PoppedSteady DEF TypeOK, Steady
<1>4. Steady(I, [I EXCEPT ![u] = StopUnit(u, I[u], "Watchdog")])
  BY <1>1, <1>3, StopUnitFacts, SetUnit DEF Up, Halted
<1>5. Steady(I, [I EXCEPT ![u] = Armed(I[u], "WatchdogCheck")])
  BY <1>1, <1>3, ArmedFacts, SetUnit DEF Up
<1>6. Steady(I, inst') \/ inst' = I
  BY <1>2, <1>4, <1>5
<1>7. QED
  BY <1>3, <1>6, SteadyIsSound, SteadyTransitive

LEMMA TimerElapsedSound ==
    ASSUME TypeOK, NEW t \in DOMAIN Activates \ Sockets, TimerElapsed(t)
    PROVE  Sound(inst, inst')
<1>1. t \in Units /\ Activates[t] \in Units /\ "TimerElapsed" \in Alarm
  BY UnitsAssumption DEF Alarm, Services
<1>2. PICK I \in Popped("TimerElapsed", t), again \in BOOLEAN :
         LET J == [I EXCEPT ![t] = IF again THEN Armed(I[t], "TimerElapsed") ELSE I[t]]
         IN  \/ inst' = I
             \/ inst' = J
             \/ \E ok \in StartOutcome(Activates[t]) :
                   inst' = Started(J, Activates[t], ok)
  BY DEF TimerElapsed
<1> DEFINE J == [I EXCEPT ![t] = IF again THEN Armed(I[t], "TimerElapsed") ELSE I[t]]
<1>3. Steady(inst, I) /\ I \in [Units -> Record]
  BY <1>1, PoppedSteady DEF TypeOK, Steady
<1>4. Steady(I, J)
  BY <1>1, <1>3, ArmedFacts, SetUnit DEF Up
<1>5. inst' = I \/ inst' = J \/ Sound(J, inst')
  BY <1>1, <1>2, <1>4, OutcomeIsStart DEF Steady
<1> HIDE DEF J
<1>6. Steady(inst, J)
  BY <1>3, <1>4, SteadyTransitive
<1>7. QED
  BY <1>3, <1>5, <1>6, SteadyIsSound, SteadyThenSound

LEMMA OnSocketSound ==
    ASSUME TypeOK, NEW s \in Sockets, OnSocket(s)
    PROVE  Sound(inst, inst')
<1>1. Activates[s] \in Units /\ inst \in [Units -> Record]
  BY UnitsAssumption DEF Sockets, Services, TypeOK
<1>2. \/ \E ok \in StartOutcome(Activates[s]) : inst' = Started(inst, Activates[s], ok)
      \/ inst' = inst
  BY DEF OnSocket
<1>3. CASE \E ok \in StartOutcome(Activates[s]) : inst' = Started(inst, Activates[s], ok)
  BY <1>1, <1>3, OutcomeIsStart
<1>4. CASE inst' = inst
  BY <1>1, <1>4 DEF Sound, KeepsCalm, Quiet
<1>5. QED
  BY <1>2, <1>3, <1>4

LEMMA HandleStartSound ==
    ASSUME TypeOK, NEW u \in Units, HandleStart(u)
    PROVE  Sound(inst, inst')
  BY OutcomeIsStart DEF HandleStart, TypeOK

LEMMA StopSteady ==
    ASSUME TypeOK, NEW u \in Units
    PROVE  Steady(inst, [inst EXCEPT ![u] = StopUnit(u, inst[u], "Requested")])
<1>1. "Requested" \in StopCause
  BY DEF StopCause
<1>2. QED
  BY <1>1, StopUnitFacts, SetUnit DEF Up, Halted, TypeOK

LEMMA HandleStopSound ==
    ASSUME TypeOK, NEW u \in Units, HandleStop(u)
    PROVE  Sound(inst, inst')
  BY StopSteady, SteadyIsSound DEF HandleStop

LEMMA HandleRestartSound ==
    ASSUME TypeOK, NEW u \in Units, HandleRestart(u)
    PROVE  Sound(inst, inst')
<1> DEFINE J == [inst EXCEPT ![u] = StopUnit(u, inst[u], "Requested")]
<1>1. Steady(inst, J)
  BY StopSteady
<1>2. \/ \E ok \in StartOutcome(u) : inst' = Started(J, u, ok)
      \/ inst' = J
  BY DEF HandleRestart
<1> HIDE DEF J
<1>3. Sound(J, inst') \/ inst' = J
  BY <1>1, <1>2, OutcomeIsStart DEF Steady
<1>4. QED
  BY <1>1, <1>3, SteadyIsSound, SteadyThenSound

LEMMA OrderedUnit ==
    ASSUME NEW i \in DOMAIN Order
    PROVE  Order[i] \in Units
  BY UnitsAssumption

LEMMA PumpOneSound ==
    ASSUME TypeOK, PumpOne
    PROVE  Sound(inst, inst')
<1>1. PICK i \in DOMAIN Order :
         \/ inst' = [inst EXCEPT ![Order[i]] = FailedToStart(inst[Order[i]])]
         \/ \E ok \in StartOutcome(Order[i]) : inst' = Started(inst, Order[i], ok)
  BY DEF PumpOne
<1>2. Order[i] \in Units /\ inst \in [Units -> Record]
  BY OrderedUnit DEF TypeOK
<1>3. CASE inst' = [inst EXCEPT ![Order[i]] = FailedToStart(inst[Order[i]])]
  BY <1>2, <1>3, EnteredFacts, SetUnit, SteadyIsSound DEF Up, Halted
<1>4. CASE \E ok \in StartOutcome(Order[i]) : inst' = Started(inst, Order[i], ok)
  BY <1>2, <1>4, OutcomeIsStart
<1>5. QED
  BY <1>1, <1>3, <1>4

\* What processes do changes no unit's state.
LEMMA MovesSound ==
    ASSUME TypeOK, NEW u \in Units, NEW r \in Record, r.state = inst[u].state,
           Moves(u, r)
    PROVE  Sound(inst, inst')
<1>1. Departed(u, r) \in Record /\ Departed(u, r).state = inst[u].state
  BY DEF Departed, Record, TypeOK, Populated
<1>2. QED
  BY <1>1, SetUnit, SteadyIsSound DEF Moves, TypeOK, Up

LEMMA ProcessSound ==
    ASSUME TypeOK, NEW u \in Units,
           \/ MainExits(u) \/ OtherExits(u) \/ MainIsKilled(u) \/ OthersAreKilled(u)
           \/ MainForks(u) \/ MainRoams(u) \/ SendsReady(u)
    PROVE  Sound(inst, inst')
<1> DEFINE old == inst[u]
<1>1. old \in Record
  BY DEF TypeOK
<1>2. ASSUME NEW c \in Child
      PROVE  [old EXCEPT !.child = c] \in Record
             /\ [old EXCEPT !.child = c].state = old.state
  BY <1>1 DEF Record
<1>3. ASSUME NEW p \in SUBSET Other
      PROVE  [old EXCEPT !.others = p] \in Record
             /\ [old EXCEPT !.others = p].state = old.state
  BY <1>1 DEF Record
<1>4. [old EXCEPT !.ready = TRUE] \in Record
      /\ [old EXCEPT !.ready = TRUE].state = old.state
  BY <1>1 DEF Record
<1>5. /\ Outcomes[u] \subseteq Child /\ "Abnormal" \in Child /\ "away" \in Child
      /\ old.others \subseteq Other /\ "kid" \in Other
  BY <1>1, UnitsAssumption DEF Child, Exit, Record, Other
<1>6. CASE MainExits(u)
  <2>1. PICK how \in Outcomes[u] : Moves(u, [old EXCEPT !.child = how])
    BY <1>6 DEF MainExits, Killed
  <2>2. QED
    BY <2>1, <1>2, <1>5, MovesSound
<1>7. CASE OtherExits(u)
  <2>1. PICK p \in old.others : Moves(u, [old EXCEPT !.others = old.others \ {p}])
    BY <1>7 DEF OtherExits
  <2>2. old.others \ {p} \in SUBSET Other
    BY <1>5
  <2>3. QED
    BY <2>1, <2>2, <1>3, MovesSound
<1>8. CASE MainIsKilled(u)
  BY <1>8, <1>2, <1>5, MovesSound DEF MainIsKilled
<1>9. CASE OthersAreKilled(u)
  <2>1. old.others \cap {"away"} \in SUBSET Other
    BY <1>5
  <2>2. Moves(u, [old EXCEPT !.others = old.others \cap {"away"}])
    BY <1>9 DEF OthersAreKilled
  <2>3. QED
    BY <2>1, <2>2, <1>3, MovesSound
<1>10. CASE MainForks(u)
  <2>1. old.others \cup {"kid"} \in SUBSET Other
    BY <1>5
  <2>2. Moves(u, [old EXCEPT !.others = old.others \cup {"kid"}])
    BY <1>10 DEF MainForks
  <2>3. QED
    BY <2>1, <2>2, <1>3, MovesSound
<1>11. CASE MainRoams(u)
  BY <1>11, <1>2, <1>5, MovesSound DEF MainRoams
<1>12. CASE SendsReady(u)
  BY <1>12, <1>4, MovesSound DEF SendsReady
<1>13. QED
  BY <1>6, <1>7, <1>8, <1>9, <1>10, <1>11, <1>12

LEMMA BeginShutdownCalm ==
    ASSUME TypeOK, NEW a \in Actions, BeginShutdown(a)
    PROVE  inst' \in [Units -> Record] /\ Calm(inst') /\ Quiet(inst, inst')
<1>1. "Requested" \in StopCause
  BY DEF StopCause
<1>2. \A u \in Units : /\ StopUnit(u, inst[u], "Requested") \in Record
                       /\ StopUnit(u, inst[u], "Requested").state \in Halted
  BY <1>1, StopUnitFacts DEF TypeOK
<1>3. inst' = [u \in Units |-> StopUnit(u, inst[u], "Requested")]
  BY DEF BeginShutdown
<1>4. QED
  BY <1>2, <1>3 DEF Calm, Quiet, Up, Halted

\* No step but BeginShutdown touches the shutdown; all of them are Sound.
LEMMA StepSound ==
    ASSUME TypeOK, Next
    PROVE  \/ Sound(inst, inst') /\ shutdown' = shutdown
           \/ \E a \in Actions : BeginShutdown(a)
<1> SUFFICES ASSUME ~\E a \in Actions : BeginShutdown(a)
             PROVE  Sound(inst, inst') /\ shutdown' = shutdown
  OBVIOUS
<1>1. CASE \E u \in Units : OnSigchld(u)
  BY <1>1, OnSigchldSound DEF OnSigchld
<1>2. CASE \E u \in Units : OnNotify(u)
  BY <1>2, OnNotifySound DEF OnNotify
<1>3. CASE \E u \in Units : OnCgroup(u)
  BY <1>3, OnCgroupSound DEF OnCgroup
<1>4. CASE \E u \in Units : OnRestart(u)
  BY <1>4, OnRestartSound DEF OnRestart
<1>5. CASE \E u \in Units : StartTimedOut(u)
  BY <1>5, StartTimedOutSound DEF StartTimedOut
<1>6. CASE \E u \in Units : StopTimeoutElapsed(u)
  BY <1>6, StopTimeoutSound DEF StopTimeoutElapsed
<1>7. CASE \E u \in Units : CheckWatchdog(u)
  BY <1>7, CheckWatchdogSound DEF CheckWatchdog
<1>8. CASE \E t \in DOMAIN Activates \ Sockets : TimerElapsed(t)
  BY <1>8, TimerElapsedSound DEF TimerElapsed
<1>9. CASE \E s \in Sockets : OnSocket(s)
  BY <1>9, OnSocketSound DEF OnSocket
<1>10. CASE \E u \in Units : HandleStart(u)
  BY <1>10, HandleStartSound DEF HandleStart, Request
<1>11. CASE \E u \in Units : HandleStop(u)
  BY <1>11, HandleStopSound DEF HandleStop, Request
<1>12. CASE \E u \in Units : HandleRestart(u)
  BY <1>12, HandleRestartSound DEF HandleRestart, Request
<1>13. CASE PumpOne
  BY <1>13, PumpOneSound DEF PumpOne
<1>14. CASE \E u \in Units :
              \/ MainExits(u) \/ OtherExits(u) \/ MainIsKilled(u)
              \/ OthersAreKilled(u) \/ MainForks(u) \/ MainRoams(u) \/ SendsReady(u)
  <2>1. shutdown' = shutdown
    BY <1>14 DEF MainExits, OtherExits, MainIsKilled, OthersAreKilled, MainForks,
                 MainRoams, SendsReady, Moves
  <2>2. QED
    BY <1>14, <2>1, ProcessSound
<1>15. CASE \/ EndTurn \/ DeadlinePasses
            \/ \E s \in Sockets : Connects(s) \/ Accepts(s)
  <2>1. inst' = inst /\ shutdown' = shutdown
    BY <1>15 DEF EndTurn, DeadlinePasses, Connects, Accepts
  <2>2. QED
    BY <2>1 DEF TypeOK, Sound, KeepsCalm, Quiet
<1>16. QED
  BY <1>1, <1>2, <1>3, <1>4, <1>5, <1>6, <1>7, <1>8, <1>9, <1>10, <1>11, <1>12,
     <1>13, <1>14, <1>15
     DEF Next, Handler, Control, Environment

-------------------------------------------------------------------------------
(* Types                                                                    *)

\* TypeOK without the records.
QueuesOK ==
    /\ pending \subseteq Units
    /\ pendingRestart \subseteq Units
    /\ shutdown \in Actions \cup {"none"}
    /\ overdue \in BOOLEAN
    /\ conn \subseteq Sockets
    /\ armed \subseteq Sockets
    /\ pc \in {"wait", "dispatch", "pump", "down"}
    /\ moves \in Nat

\* finish_deactivation only takes units out of both sets.
LEMMA FinishQueues ==
    ASSUME QueuesOK, NEW I, NEW u, FinishDeactivation(I, u)
    PROVE  pending' \subseteq Units /\ pendingRestart' \subseteq Units
  BY DEF FinishDeactivation, StillQueued, Forgotten, QueuesOK

LEMMA EventQueues ==
    ASSUME QueuesOK, NEW u \in Units,
           \/ OnSigchld(u) \/ OnNotify(u) \/ OnCgroup(u) \/ OnRestart(u)
           \/ StartTimedOut(u) \/ StopTimeoutElapsed(u) \/ CheckWatchdog(u)
    PROVE  QueuesOK'
<1>1. CASE OnSigchld(u)
  BY <1>1, FinishQueues DEF OnSigchld, Handling, QueuesOK
<1>2. CASE OnCgroup(u)
  BY <1>2, FinishQueues DEF OnCgroup, Handling, QueuesOK
<1>3. CASE OnNotify(u) \/ StopTimeoutElapsed(u)
  BY <1>3 DEF OnNotify, StopTimeoutElapsed, Handling, QueuesOK
<1>4. CASE OnRestart(u)
  BY <1>4 DEF OnRestart, Handling, StillQueued, QueuesOK
<1>5. CASE StartTimedOut(u) \/ CheckWatchdog(u)
  BY <1>5 DEF StartTimedOut, CheckWatchdog, Handling, QueuesOK
<1>6. QED
  BY <1>1, <1>2, <1>3, <1>4, <1>5

LEMMA RequestQueues ==
    ASSUME QueuesOK, NEW u \in Units,
           HandleStart(u) \/ HandleStop(u) \/ HandleRestart(u)
    PROVE  QueuesOK'
<1>1. CASE HandleStart(u)
  BY <1>1 DEF HandleStart, Request, Handling, StillQueued, QueuesOK
<1>2. CASE HandleStop(u)
  BY <1>2 DEF HandleStop, Request, Handling, QueuesOK
<1>3. CASE HandleRestart(u)
  BY <1>3 DEF HandleRestart, Request, Handling, StillQueued, QueuesOK
<1>4. QED
  BY <1>1, <1>2, <1>3

LEMMA StepQueues ==
    ASSUME QueuesOK, Next
    PROVE  QueuesOK'
<1>1. CASE \E u \in Units :
              \/ OnSigchld(u) \/ OnNotify(u) \/ OnCgroup(u) \/ OnRestart(u)
              \/ StartTimedOut(u) \/ StopTimeoutElapsed(u) \/ CheckWatchdog(u)
  BY <1>1, EventQueues
<1>2. CASE Control
  BY <1>2, RequestQueues DEF Control
<1>3. CASE \E t \in DOMAIN Activates \ Sockets : TimerElapsed(t)
  BY <1>3 DEF TimerElapsed, Handling, StillQueued, QueuesOK
<1>4. CASE \E s \in Sockets : OnSocket(s)
  BY <1>4 DEF OnSocket, Handling, StillQueued, QueuesOK
<1>5. CASE \E a \in Actions : BeginShutdown(a)
  BY <1>5 DEF BeginShutdown, Handling, QueuesOK
<1>6. CASE PumpOne
  BY <1>6 DEF PumpOne, StillQueued, QueuesOK
<1>7. CASE EndTurn
  BY <1>7 DEF EndTurn, WantArmed, QueuesOK
<1>8. CASE \E u \in Units :
              \/ MainExits(u) \/ OtherExits(u) \/ MainIsKilled(u)
              \/ OthersAreKilled(u) \/ MainForks(u) \/ MainRoams(u) \/ SendsReady(u)
  <2>1. moves' \in Nat
    BY <1>8 DEF MainExits, OtherExits, MainIsKilled, OthersAreKilled, MainForks,
                MainRoams, SendsReady, Voluntary, QueuesOK
  <2>2. UNCHANGED <<pending, pendingRestart, shutdown, overdue, conn, armed, pc>>
    BY <1>8 DEF MainExits, OtherExits, MainIsKilled, OthersAreKilled, MainForks,
                MainRoams, SendsReady, Moves
  <2>3. QED
    BY <2>1, <2>2 DEF QueuesOK
<1>9. CASE DeadlinePasses \/ \E s \in Sockets : Connects(s) \/ Accepts(s)
  <2>1. CASE DeadlinePasses
    BY <2>1 DEF DeadlinePasses, QueuesOK
  <2>2. CASE \E s \in Sockets : Connects(s)
    BY <2>2 DEF Connects, Voluntary, QueuesOK
  <2>3. CASE \E s \in Sockets : Accepts(s)
    BY <2>3 DEF Accepts, QueuesOK
  <2>4. QED
    BY <1>9, <2>1, <2>2, <2>3
<1>10. QED
  BY <1>1, <1>2, <1>3, <1>4, <1>5, <1>6, <1>7, <1>8, <1>9
     DEF Next, Handler, Environment

LEMMA NewIsRecord == New \in Record
  BY DEF New, Record, State, Child, StopCause

LEMMA InitTypes == Init => TypeOK
<1> SUFFICES ASSUME Init PROVE TypeOK
  OBVIOUS
<1>1. inst \in [Units -> Record]
  BY NewIsRecord DEF Init
<1>2. pending \subseteq Units
  BY OrderedUnit DEF Init
<1>3. QED
  BY <1>1, <1>2 DEF Init, TypeOK

LEMMA StepTypes ==
    ASSUME TypeOK, [Next]_vars
    PROVE  TypeOK'
<1>1. CASE Next
  <2>1. inst' \in [Units -> Record]
    BY <1>1, StepSound, BeginShutdownCalm DEF Sound
  <2>2. QueuesOK
    BY DEF TypeOK, QueuesOK
  <2>3. QueuesOK'
    BY <1>1, <2>2, StepQueues
  <2>4. QED
    BY <2>1, <2>3 DEF TypeOK, QueuesOK
<1>2. CASE UNCHANGED vars
  BY <1>2 DEF vars, TypeOK
<1>3. QED
  BY <1>1, <1>2

(* Every variable keeps its type: in particular the queue and the restarts   *)
(* remembered are units, and only socket units are ever watched by epoll.    *)
THEOREM TypeCorrect == Spec => []TypeOK
<1>1. Init => TypeOK
  BY InitTypes
<1>2. TypeOK /\ [Next]_vars => TypeOK'
  BY StepTypes
<1>3. QED
  BY <1>1, <1>2, PTL DEF Spec

-------------------------------------------------------------------------------
(* The way down                                                             *)

LEMMA StepGoingDown ==
    ASSUME TypeOK, GoingDown, [Next]_vars
    PROVE  GoingDown'
<1>1. ShuttingDown => Calm(inst)
  BY DEF GoingDown, Calm, Halted
<1>2. ShuttingDown' => Calm(inst')
  <2>1. CASE Sound(inst, inst') /\ shutdown' = shutdown
    BY <1>1, <2>1 DEF Sound, KeepsCalm, ShuttingDown
  <2>2. CASE \E a \in Actions : BeginShutdown(a)
    BY <2>2, BeginShutdownCalm
  <2>3. CASE UNCHANGED vars
    BY <1>1, <2>3 DEF vars, ShuttingDown, Calm
  <2>4. QED
    BY <2>1, <2>2, <2>3, StepSound
<1>3. QED
  BY <1>2 DEF GoingDown, Calm, Halted

(* Once a shutdown begins no unit is or becomes up, starting or waiting to   *)
(* restart, in any interleaving of exits, alarms, cgroup events, readiness   *)
(* messages, connections and requests.  It is what unit_vanished, which does *)
(* not look at the shutdown, and settled rely on.                            *)
THEOREM NothingComesUpGoingDown == Spec => []GoingDown
<1>1. Init => GoingDown
  BY DEF Init, GoingDown, ShuttingDown
<1>2. TypeOK /\ GoingDown /\ [Next]_vars => GoingDown'
  BY StepGoingDown
<1>3. QED
  BY <1>1, <1>2, TypeCorrect, PTL DEF Spec

-------------------------------------------------------------------------------
(* Mutual exclusion                                                         *)

LEMMA ConflictIsMutual ==
    ASSUME NEW u \in Units, NEW v \in Units
    PROVE  /\ v \in ConflictingWith(u) => u \in ConflictingWith(v)
           /\ u \notin ConflictingWith(u)
  BY UnitsAssumption DEF ConflictingWith

LEMMA SoundExclusive ==
    ASSUME Exclusive, Quiet(inst, inst') \/ \E u \in Units : Raised(inst, inst', u)
    PROVE  Exclusive'
<1> SUFFICES ASSUME NEW a \in Units, NEW b \in Units, b \in ConflictingWith(a),
                    Up(inst'[a]), Up(inst'[b])
             PROVE  FALSE
  BY DEF Exclusive, Up, ConflictingWith
<1>1. ~(Up(inst[a]) /\ Up(inst[b]))
  BY DEF Exclusive, Up
<1>2. a \in ConflictingWith(b) /\ a # b
  BY ConflictIsMutual
<1>3. CASE Quiet(inst, inst')
  BY <1>1, <1>3 DEF Quiet
<1>4. ASSUME NEW u \in Units, Raised(inst, inst', u)
      PROVE  FALSE
  <2>1. CASE u = a
    BY <1>2, <1>4, <2>1 DEF Raised
  <2>2. CASE u = b
    BY <1>2, <1>4, <2>2 DEF Raised
  <2>3. CASE u # a /\ u # b
    BY <1>1, <1>4, <2>3 DEF Raised
  <2>4. QED
    BY <2>1, <2>2, <2>3
<1>5. QED
  BY <1>3, <1>4

LEMMA StepExclusive ==
    ASSUME TypeOK, Exclusive, [Next]_vars
    PROVE  Exclusive'
<1>1. CASE Next
  <2>1. Quiet(inst, inst') \/ \E u \in Units : Raised(inst, inst', u)
    BY <1>1, StepSound, BeginShutdownCalm DEF Sound
  <2>2. QED
    BY <2>1, SoundExclusive
<1>2. CASE UNCHANGED vars
  BY <1>2 DEF vars, Exclusive, ConflictingWith
<1>3. QED
  BY <1>1, <1>2

(* Two units that exclude each other are never both up or coming up,         *)
(* whichever side declares it, and whatever starts either of them: the       *)
(* queue, a socket, a timer, a client, a backoff or an oxctl restart.        *)
THEOREM ConflictsExclude == Spec => []Exclusive
<1>1. Init => Exclusive
  BY DEF Init, Exclusive, New, ConflictingWith
<1>2. TypeOK /\ Exclusive /\ [Next]_vars => Exclusive'
  BY StepExclusive
<1>3. QED
  BY <1>1, <1>2, TypeCorrect, PTL DEF Spec

-------------------------------------------------------------------------------
(* Processes: an idle unit has none to reap, one that is up or stopping has  *)
(* something that will report its end.                                       *)
Tended(u, r) ==
    /\ r.child # "none" => r.state \in {"Activating", "Active", "Deactivating"}
    /\ r.state = "Activating" => r.child # "none"
    /\ r.state = "Active" /\ r.child = "none" => Kind[u] = "forking"
    /\ r.state \in {"Active", "Deactivating"} =>
          r.child # "none" \/ Populated(u, r) \/ r.emptied

(* Deadlines: the state has its alarm in the heap.                           *)
Timed(u, r) ==
    /\ r.state = "Activating" /\ Kind[u] # "simple" => r.alarms["StartTimeout"] > 0
    /\ r.state = "Deactivating" /\ ~r.killed => r.alarms["StopTimeout"] > 0
    /\ r.state = "Restarting" => r.alarms["Restart"] > 0
    /\ r.state = "Active" /\ u \in Watched => r.alarms["WatchdogCheck"] > 0

Backed(u, r) == Tended(u, r) /\ Timed(u, r)

AllBacked(I) == \A v \in Services : Backed(v, I[v])

AllBackedBut(I, u) == \A v \in Services \ {u} : Backed(v, I[v])

-------------------------------------------------------------------------------
(* Transitions of one record                                                *)

(* Arming an alarm adds it and takes nothing away (timers.schedule).         *)
LEMMA ArmedBacks ==
    ASSUME NEW r \in Record, NEW k \in Alarm
    PROVE  /\ Armed(r, k).alarms[k] > 0
           /\ \A j \in Alarm : r.alarms[j] > 0 => Armed(r, k).alarms[j] > 0
           /\ \A f \in {"state", "child", "others", "cause", "killed", "reached",
                        "ready", "emptied"} : Armed(r, k)[f] = r[f]
  BY DEF Armed, Record

LEMMA NoChildBacks ==
    ASSUME NEW r \in Record
    PROVE  /\ NoChild(r).child = "none"
           /\ r.others \subseteq NoChild(r).others
           /\ r.child \notin Live => NoChild(r).others = r.others
           /\ \A f \in {"state", "cause", "killed", "reached", "alarms", "emptied"} :
                 NoChild(r)[f] = r[f]
  BY DEF NoChild, Record, Live, Child, Exit

(* A start leaves a unit backed whatever it was doing: up or activating with *)
(* a process and its deadline, or failed without one (start_inner).          *)
LEMMA StartBacks ==
    ASSUME NEW u \in Services, NEW r \in Record, NEW ok
    PROVE  Backed(u, StartUnit(u, r, ok))
<1> DEFINE a == EnteredActivating(r)
           f == FailedToStart(r)
<1>1. a \in Record /\ a.state = "Activating" /\ a.child = "in"
  BY ZenonT(40), NoChildFacts, EnteredFacts DEF EnteredActivating, Record
<1>2. f \in Record /\ f.state = "Failed" /\ f.child = "none"
  BY NoChildFacts, NoChildBacks, EnteredFacts DEF FailedToStart, Record
<1>3. /\ EnteredActive(a).state = "Active" /\ EnteredActive(a).child = "in"
  BY <1>1 DEF EnteredActive, Record
<1>4. "StartTimeout" \in Alarm
  BY DEF Alarm
<1> HIDE DEF a, f
<1>5. Kind[u] \in ServiceType /\ (u \in Watched => Kind[u] = "notify")
  BY UnitsAssumption DEF Services
<1>6. CASE ~ok
  <2>1. StartUnit(u, r, ok) = f
    BY <1>5, <1>6 DEF StartUnit, ServiceType, f
  <2> QED BY <1>2, <2>1 DEF Backed, Tended, Timed
<1>7. CASE ok /\ Kind[u] = "simple"
  <2>1. StartUnit(u, r, ok) = EnteredActive(a)
    BY <1>7 DEF StartUnit, a
  <2> QED BY <1>3, <1>5, <1>7, <2>1 DEF Backed, Tended, Timed
<1>8. CASE ok /\ Kind[u] # "simple"
  <2>1. StartUnit(u, r, ok) = Armed(a, "StartTimeout")
    BY <1>5, <1>8 DEF StartUnit, ServiceType, a
  <2>2. /\ Armed(a, "StartTimeout").state = "Activating"
        /\ Armed(a, "StartTimeout").child = "in"
        /\ Armed(a, "StartTimeout").alarms["StartTimeout"] > 0
    BY <1>1, <1>4, ArmedBacks
  <2> QED BY <2>1, <2>2 DEF Backed, Tended, Timed
<1> QED BY <1>6, <1>7, <1>8

(* A stop keeps what a unit is tended by and arms its own deadline (stop).   *)
LEMMA StopBacks ==
    ASSUME NEW u \in Services, NEW r \in Record, NEW cause \in StopCause,
           Tended(u, r),
           r.state = "Deactivating" /\ ~r.killed => r.alarms["StopTimeout"] > 0
    PROVE  Backed(u, StopUnit(u, r, cause))
<1> DEFINE d == EnteredDeactivating(r, cause)
           s == StopUnit(u, r, cause)
<1>1. Kind[u] \in ServiceType /\ "StopTimeout" \in Alarm
  BY DEF Services, Alarm
<1>2. CASE r.state = "Restarting"
  <2>1. s = CancelRestart(r)
    BY <1>2 DEF StopUnit
  <2>2. s.state = "Inactive" /\ s.child = "none"
    BY <1>2, <2>1, NoChildFacts, NoChildBacks DEF CancelRestart, Record
  <2> QED BY <2>2 DEF Backed, Tended, Timed
<1>3. CASE r.state \in {"Activating", "Active"}
  <2>1. s = Armed(d, "StopTimeout")
    BY <1>1, <1>3 DEF StopUnit
  <2>2. /\ d \in Record /\ d.state = "Deactivating"
        /\ d.child = r.child /\ d.others = r.others /\ d.emptied = r.emptied
    BY DeactivatingFacts DEF EnteredDeactivating, Record
  <2> HIDE DEF d
  <2>3. /\ s.state = "Deactivating" /\ s.alarms["StopTimeout"] > 0
        /\ s.child = r.child /\ s.others = r.others /\ s.emptied = r.emptied
    BY <1>1, <2>1, <2>2, ArmedBacks
  <2>4. r.child # "none" \/ Populated(u, r) \/ r.emptied
    BY <1>3 DEF Tended
  <2>5. Populated(u, s) <=> Populated(u, r)
    BY <2>3 DEF Populated
  <2>6. Tended(u, s) /\ Timed(u, s)
    <3> HIDE DEF s
    <3> QED BY <2>3, <2>4, <2>5 DEF Tended, Timed
  <2> QED BY <2>6 DEF Backed
<1>4. CASE r.state \in Halted
  <2>1. s = r
    BY <1>1, <1>4 DEF StopUnit, Halted
  <2> QED BY <1>4, <2>1 DEF Backed, Tended, Timed, Halted
<1>5. r.state \in State
  BY DEF Record
<1> QED BY <1>2, <1>3, <1>4, <1>5 DEF State, Halted

(* What an exit leaves has no process, and what its policy answers with a    *)
(* restart gets its alarm, or on the way down is put to rest.                *)
LEMMA EndedBacks ==
    ASSUME NEW u \in Services, NEW r \in Record, r.child = "none",
           r.state \in Down \cup {"Restarting"}
    PROVE  Backed(u, RestartOrCancel(r))
<1> DEFINE e == RestartOrCancel(r)
<1>1. "Restart" \in Alarm
  BY DEF Alarm
<1>2. CASE r.state # "Restarting"
  BY <1>2 DEF RestartOrCancel, Backed, Tended, Timed, Down
<1>3. CASE r.state = "Restarting" /\ ShuttingDown
  <2>1. e = [NoChild(r) EXCEPT !.state = "Inactive"]
    BY <1>3 DEF RestartOrCancel, CancelRestart
  <2>2. e.state = "Inactive" /\ e.child = "none"
    BY <2>1, NoChildFacts, NoChildBacks DEF Record
  <2> QED BY <2>2 DEF Backed, Tended, Timed
<1>4. CASE r.state = "Restarting" /\ ~ShuttingDown
  <2>1. e = Armed(r, "Restart")
    BY <1>4 DEF RestartOrCancel
  <2>2. e.state = "Restarting" /\ e.child = "none" /\ e.alarms["Restart"] > 0
    BY <1>1, <1>4, <2>1, ArmedBacks
  <2> QED BY <2>2 DEF Backed, Tended, Timed
<1> QED BY <1>2, <1>3, <1>4

LEMMA ScheduledFields ==
    ASSUME NEW r \in Record, NEW policy, NEW exit
    PROVE  ScheduleRestart(r, policy, exit).child = r.child
  BY DEF ScheduleRestart, Record

LEMMA DeactivatedHasNoChild ==
    ASSUME NEW r \in Record, NEW policy
    PROVE  Deactivated(r, policy).child = "none"
<1> DEFINE d == [NoChild(r) EXCEPT !.killed = FALSE, !.cause = "None"]
<1>1. d \in Record /\ d.child = "none"
  <2>1. NoChild(r) \in Record /\ NoChild(r).child = "none"
    BY NoChildFacts, NoChildBacks
  <2> QED BY <2>1 DEF Record
<1>2. \A s : [d EXCEPT !.state = s].child = "none"
  BY <1>1 DEF Record
<1>3. Deactivated(r, policy) =
        IF r.cause = "Watchdog" THEN ScheduleRestart(d, policy, "Abnormal")
        ELSE [d EXCEPT !.state = IF r.killed THEN "Failed" ELSE "Inactive"]
  BY DEF Deactivated
<1> HIDE DEF d
<1> QED BY <1>1, <1>2, <1>3, ScheduledFields

LEMMA ExitedHasNoChild ==
    ASSUME NEW r \in Record, NEW policy, NEW oneshot \in BOOLEAN, NEW exit \in Exit
    PROVE  /\ OnExit(r, policy, oneshot, exit).child = "none"
           /\ r.state = "Deactivating" => OnExit(r, policy, oneshot, exit) = NoChild(r)
<1> DEFINE done == oneshot /\ r.state = "Activating" /\ exit = "Clean"
           d    == [NoChild(r) EXCEPT !.reached = @ \/ done]
<1>1. d \in Record /\ d.child = "none"
  <2>1. (NoChild(r).reached \/ done) \in BOOLEAN
    OBVIOUS
  <2>2. NoChild(r) \in Record /\ NoChild(r).child = "none"
    BY NoChildFacts, NoChildBacks
  <2>3. d = [NoChild(r) EXCEPT !.reached = NoChild(r).reached \/ done]
    OBVIOUS
  <2> QED BY <2>1, <2>2, <2>3 DEF Record
<1>2. OnExit(r, policy, oneshot, exit) =
        IF r.state = "Deactivating" THEN NoChild(r) ELSE ScheduleRestart(d, policy, exit)
  BY DEF OnExit
<1> HIDE DEF d
<1> QED BY <1>1, <1>2, NoChildBacks, ScheduledFields

-------------------------------------------------------------------------------
(* Changes of all records                                                   *)

LEMMA SetBacks ==
    ASSUME NEW I \in [Units -> Record], NEW u \in Units, NEW r, AllBackedBut(I, u),
           u \in Services => Backed(u, r)
    PROVE  AllBacked([I EXCEPT ![u] = r])
  BY DEF AllBacked, AllBackedBut, Services

(* A start needs nothing of the unit it starts; what that excludes is        *)
(* stopped.                                                                  *)
LEMMA StartedBacks ==
    ASSUME NEW I \in [Units -> Record], NEW u \in Units, NEW ok, AllBackedBut(I, u),
           ShuttingDown => AllBacked(I)
    PROVE  AllBacked(Started(I, u, ok))
<1>1. CASE ShuttingDown
  BY <1>1 DEF Started
<1>2. CASE ~ShuttingDown
  <2> DEFINE J == Launched(I, u, ok)
  <2>1. SUFFICES ASSUME NEW v \in Services PROVE Backed(v, J[v])
    BY <1>2 DEF Started, AllBacked
  <2>2. v \in Units /\ I[v] \in Record /\ "Requested" \in StopCause
    BY DEF Services, StopCause
  <2>3. J[v] = IF v = u THEN StartUnit(u, I[u], ok)
               ELSE IF v \in Excluded(I, u) THEN StopUnit(v, I[v], "Requested")
               ELSE I[v]
    BY <2>2 DEF Launched
  <2> HIDE DEF J
  <2>4. CASE v = u
    BY <2>2, <2>3, <2>4, StartBacks
  <2>5. CASE v # u
    <3>1. Backed(v, I[v])
      BY <2>5 DEF AllBackedBut
    <3>2. Backed(v, StopUnit(v, I[v], "Requested"))
      BY <2>2, <3>1, StopBacks DEF Backed, Timed
    <3> QED BY <2>3, <2>5, <3>1, <3>2
  <2> QED BY <2>4, <2>5
<1> QED BY <1>1, <1>2

LEMMA OutcomeBacks ==
    ASSUME NEW I \in [Units -> Record], NEW u \in Units, AllBackedBut(I, u),
           ShuttingDown => AllBacked(I),
           \E ok \in StartOutcome(u) : inst' = Started(I, u, ok)
    PROVE  AllBacked(inst')
  BY StartedBacks

LEMMA FinishBacks ==
    ASSUME NEW I \in [Units -> Record], NEW u \in Units, AllBackedBut(I, u),
           FinishDeactivation(I, u)
    PROVE  AllBacked(inst')
<1> DEFINE d == Deactivated(I[u], Policy[u])
           e == RestartOrCancel(d)
           J == [I EXCEPT ![u] = e]
<1>1. d \in Record /\ d.child = "none" /\ d.state \in Down \cup {"Restarting"}
  BY DeactivatedFacts, DeactivatedHasNoChild
<1>2. inst' = J \/ \E ok \in StartOutcome(u) : inst' = Started(J, u, ok)
  BY DEF FinishDeactivation
<1> HIDE DEF d
<1>3. e \in Record /\ (u \in Services => Backed(u, e))
  BY <1>1, EndedBacks, RestartOrCancelFacts DEF Down, Halted
<1> HIDE DEF e
<1>4. J \in [Units -> Record] /\ AllBacked(J)
  BY <1>3, SetBacks
<1> QED BY <1>2, <1>4, OutcomeBacks DEF AllBacked, AllBackedBut

LEMMA StopAllBacked ==
    ASSUME NEW I \in [Units -> Record], NEW u \in Units, NEW cause \in StopCause,
           AllBackedBut(I, u),
           u \in Services => Tended(u, I[u])
              /\ (I[u].state = "Deactivating" /\ ~I[u].killed =>
                    I[u].alarms["StopTimeout"] > 0)
    PROVE  AllBacked([I EXCEPT ![u] = StopUnit(u, I[u], cause)])
  BY StopBacks, SetBacks

(* An alarm that left the heap: the unit it was of lacks at most that one.   *)
LEMMA PoppedBacks ==
    ASSUME TypeOK, AllBacked(inst), NEW u \in Units, NEW k \in Alarm,
           NEW I \in Popped(k, u)
    PROVE  /\ I \in [Units -> Record]
           /\ AllBackedBut(I, u)
           /\ u \in Services => Tended(u, I[u])
           /\ \A j \in Alarm \ {k} : I[u].alarms[j] = inst[u].alarms[j]
           /\ \A f \in {"state", "child", "others", "cause", "killed", "reached",
                        "ready", "emptied"} : I[u][f] = inst[u][f]
<1>1. PICK n \in 0..2 : I = [inst EXCEPT ![u].alarms[k] = n]
  BY DEF Popped
<1> DEFINE r == [inst[u] EXCEPT !.alarms[k] = n]
<1>2. inst \in [Units -> Record] /\ inst[u] \in Record
  BY DEF TypeOK
<1>3. /\ r \in Record
      /\ \A j \in Alarm \ {k} : r.alarms[j] = inst[u].alarms[j]
      /\ \A f \in {"state", "child", "others", "cause", "killed", "reached",
                   "ready", "emptied"} : r[f] = inst[u][f]
  BY <1>2 DEF Record
<1>4. I = [inst EXCEPT ![u] = r]
  BY <1>1
<1> HIDE DEF r
<1>5. I \in [Units -> Record] /\ I[u] = r /\ \A v \in Units \ {u} : I[v] = inst[v]
  BY <1>2, <1>3, <1>4
<1>6. AllBackedBut(I, u)
  BY <1>5 DEF AllBacked, AllBackedBut, Services
<1>7. u \in Services => Tended(u, r)
  BY <1>3 DEF AllBacked, Backed, Tended, Populated
<1> QED BY <1>3, <1>5, <1>6, <1>7

-------------------------------------------------------------------------------
(* Every step keeps every service backed                                    *)

LEMMA OnSigchldBacks ==
    ASSUME TypeOK, AllBacked(inst), NEW u \in Units, OnSigchld(u)
    PROVE  AllBacked(inst')
<1> DEFINE r == inst[u]
           oneshot == Kind[u] = "oneshot"
           exited == OnExit(r, Policy[u], oneshot, r.child)
<1>1. /\ inst \in [Units -> Record] /\ r \in Record
      /\ r.child \in Exit /\ r.child \notin Live /\ oneshot \in BOOLEAN
  BY DEF TypeOK, OnSigchld, Exit, Live
<1>2. AllBackedBut(inst, u) /\ (u \in Services => Backed(u, r))
  BY DEF AllBacked, AllBackedBut
<1>3. CASE Kind[u] = "forking" /\ r.state = "Activating"
  <2>1. inst' = [inst EXCEPT ![u] = ForkingParentExited(u, r)]
    BY <1>3 DEF OnSigchld
  <2>2. ASSUME u \in Services PROVE Backed(u, ForkingParentExited(u, r))
    <3>1. CASE r.child = "Clean" /\ Populated(u, r)
      <4> DEFINE f == ForkedAway(r)
      <4>1. ForkingParentExited(u, r) = f
        BY <3>1 DEF ForkingParentExited
      <4>2. f.state = "Active" /\ f.child = "none" /\ f.others = r.others
        BY <1>1, NoChildFacts, NoChildBacks DEF ForkedAway, EnteredActive, Record
      <4>3. Populated(u, f)
        BY <1>1, <3>1, <4>2 DEF Populated, Exit
      <4>4. u \notin Watched
        BY <1>3, UnitsAssumption
      <4> HIDE DEF f
      <4> QED BY <1>3, <4>1, <4>2, <4>3, <4>4 DEF Backed, Tended, Timed
    <3>2. CASE ~(r.child = "Clean" /\ Populated(u, r))
      <4>1. ForkingParentExited(u, r) = FailedToStart(r)
        BY <3>2 DEF ForkingParentExited
      <4>2. FailedToStart(r).state = "Failed" /\ FailedToStart(r).child = "none"
        BY <1>1, NoChildFacts, NoChildBacks DEF FailedToStart, Record
      <4> QED BY <4>1, <4>2 DEF Backed, Tended, Timed
    <3> QED BY <3>1, <3>2
  <2> QED BY <1>1, <1>2, <2>1, <2>2, SetBacks
<1>4. /\ exited \in Record /\ exited.child = "none"
      /\ r.state # "Deactivating" => exited.state \in Down \cup {"Restarting"}
      /\ r.state = "Deactivating" => exited = NoChild(r) /\ exited.state = "Deactivating"
  <2> HIDE DEF oneshot, r
  <2>1. OnExit(r, Policy[u], oneshot, r.child).child = "none"
        /\ (r.state = "Deactivating" =>
              OnExit(r, Policy[u], oneshot, r.child) = NoChild(r))
    BY <1>1, ExitedHasNoChild
  <2> QED BY <1>1, <2>1, OnExitFacts
<1> DEFINE J == [inst EXCEPT ![u] = exited]
<1>5. CASE ~(Kind[u] = "forking" /\ r.state = "Activating") /\ ExitEndsStop(u, exited)
  <2>1. FinishDeactivation(J, u)
    BY <1>5 DEF OnSigchld
  <2> HIDE DEF exited
  <2>2. J \in [Units -> Record] /\ AllBackedBut(J, u)
    BY <1>1, <1>2, <1>4 DEF AllBackedBut, Services
  <2> QED BY <2>1, <2>2, FinishBacks
<1>6. CASE ~(Kind[u] = "forking" /\ r.state = "Activating") /\ ~ExitEndsStop(u, exited)
  <2>1. inst' = [inst EXCEPT ![u] = RestartOrCancel(exited)]
    BY <1>6 DEF OnSigchld
  <2>2. ASSUME u \in Services, r.state = "Deactivating"
        PROVE  Backed(u, RestartOrCancel(exited))
    <3>1. Populated(u, exited) /\ exited.state = "Deactivating"
      BY <1>4, <1>6, <2>2 DEF ExitEndsStop
    <3>2. exited.killed = r.killed /\ exited.alarms = r.alarms
      BY <1>1, <1>4, <2>2, NoChildBacks
    <3>3. Timed(u, r)
      BY <1>2, <2>2 DEF Backed
    <3> HIDE DEF exited
    <3>4. RestartOrCancel(exited) = exited
      BY <3>1 DEF RestartOrCancel
    <3> QED BY <2>2, <3>1, <3>2, <3>3, <3>4 DEF Backed, Tended, Timed
  <2>3. ASSUME u \in Services, r.state # "Deactivating"
        PROVE  Backed(u, RestartOrCancel(exited))
    BY <1>4, <2>3, EndedBacks
  <2> HIDE DEF exited
  <2> QED BY <1>1, <1>2, <2>1, <2>2, <2>3, SetBacks
<1> QED BY <1>3, <1>5, <1>6

LEMMA OnCgroupBacks ==
    ASSUME TypeOK, AllBacked(inst), NEW u \in Units, OnCgroup(u)
    PROVE  AllBacked(inst')
<1> DEFINE r    == [inst[u] EXCEPT !.emptied = FALSE]
           gone == OnExit(r, Policy[u], FALSE, "Abnormal")
           J    == [inst EXCEPT ![u] = r]
<1>1. inst \in [Units -> Record] /\ inst[u] \in Record
  BY DEF TypeOK
<1>2. /\ r \in Record
      /\ \A f \in {"state", "child", "others", "cause", "killed", "alarms"} :
            r[f] = inst[u][f]
  BY <1>1 DEF Record
<1>3. AllBackedBut(inst, u) /\ (u \in Services => Backed(u, inst[u]))
  BY DEF AllBacked, AllBackedBut
<1>4. CASE ~Populated(u, r) /\ r.state = "Deactivating"
  <2>1. FinishDeactivation(J, u)
    BY <1>4 DEF OnCgroup
  <2> HIDE DEF r
  <2>2. J \in [Units -> Record] /\ AllBackedBut(J, u)
    BY <1>1, <1>2, <1>3 DEF AllBackedBut, Services
  <2> QED BY <2>1, <2>2, FinishBacks
<1>5. CASE ~Populated(u, r) /\ r.state = "Active" /\ r.child = "none"
  <2> DEFINE e == IF gone.state = "Restarting" THEN Armed(gone, "Restart") ELSE gone
  <2>1. inst' = [inst EXCEPT ![u] = e]
    BY <1>5 DEF OnCgroup
  <2>2. "Abnormal" \in Exit /\ FALSE \in BOOLEAN /\ "Restart" \in Alarm
    BY DEF Exit, Alarm
  <2> HIDE DEF r
  <2>3. /\ gone \in Record /\ gone.child = "none"
        /\ gone.state \in Down \cup {"Restarting"}
    BY <1>2, <1>5, <2>2, OnExitFacts, ExitedHasNoChild
  <2> HIDE DEF gone
  <2>4. Backed(u, e)
    <3>1. CASE gone.state = "Restarting"
      <4>1. /\ e.state = "Restarting" /\ e.child = "none" /\ e.alarms["Restart"] > 0
        BY <2>2, <2>3, <3>1, ArmedBacks
      <4> HIDE DEF e
      <4> QED BY <4>1 DEF Backed, Tended, Timed
    <3>2. CASE gone.state # "Restarting"
      BY <2>3, <3>2 DEF Backed, Tended, Timed, Down
    <3> QED BY <3>1, <3>2
  <2> HIDE DEF e
  <2> QED BY <1>1, <1>3, <2>1, <2>4, SetBacks
<1>6. CASE Populated(u, r) \/ (r.state # "Deactivating"
                                 /\ (r.state # "Active" \/ r.child # "none"))
  <2>1. inst' = J
    BY <1>6 DEF OnCgroup
  <2> HIDE DEF r
  <2>2. ASSUME u \in Services PROVE Backed(u, r)
    <3>1. Timed(u, r)
      BY <1>2, <1>3, <2>2 DEF Backed, Timed
    <3>2. Tended(u, r)
      BY <1>2, <1>3, <1>6, <2>2 DEF Backed, Tended
    <3> QED BY <3>1, <3>2 DEF Backed
  <2> QED BY <1>1, <1>3, <2>1, <2>2, SetBacks
<1> QED BY <1>4, <1>5, <1>6

LEMMA OnNotifyBacks ==
    ASSUME TypeOK, AllBacked(inst), NEW u \in Units, OnNotify(u)
    PROVE  AllBacked(inst')
<1> DEFINE r  == [inst[u] EXCEPT !.ready = FALSE]
           up == EnteredActive(r)
           n  == IF r.state # "Activating" THEN r
                 ELSE IF u \in Watched THEN Armed(up, "WatchdogCheck") ELSE up
<1>1. inst' = [inst EXCEPT ![u] = n] /\ inst \in [Units -> Record]
  BY DEF OnNotify, TypeOK
<1>2. /\ r \in Record
      /\ \A f \in {"state", "child", "others", "killed", "alarms", "emptied"} :
            r[f] = inst[u][f]
  BY DEF Record, TypeOK
<1>3. AllBackedBut(inst, u) /\ (u \in Services => Backed(u, inst[u]))
  BY DEF AllBacked, AllBackedBut
<1> HIDE DEF r
<1>4. ASSUME u \in Services PROVE Backed(u, n)
  <2>1. Backed(u, r)
    BY <1>2, <1>3, <1>4 DEF Backed, Tended, Timed, Populated
  <2>2. CASE r.state = "Activating"
    <3>1. up \in Record /\ up.state = "Active" /\ up.child = r.child
      BY <1>2, EnteredFacts DEF EnteredActive, Record
    <3>2. r.child # "none" /\ "WatchdogCheck" \in Alarm
      BY <2>1, <2>2 DEF Backed, Tended, Alarm
    <3> HIDE DEF up
    <3>3. /\ n.state = "Active" /\ n.child # "none"
          /\ u \in Watched => n.alarms["WatchdogCheck"] > 0
      BY <2>2, <3>1, <3>2, ArmedBacks
    <3> HIDE DEF n
    <3> QED BY <3>3 DEF Backed, Tended, Timed
  <2> QED BY <2>1, <2>2
<1> HIDE DEF n
<1> QED BY <1>1, <1>3, <1>4, SetBacks

(* Once a unit is past the state an alarm is for, it does not miss it.       *)
LEMMA PoppedPast ==
    ASSUME TypeOK, AllBacked(inst), NEW u \in Units,
           NEW k \in {"Restart", "StartTimeout", "StopTimeout", "WatchdogCheck"},
           NEW I \in Popped(k, u),
           inst[u].state # (CASE k = "Restart"      -> "Restarting"
                              [] k = "StartTimeout" -> "Activating"
                              [] k = "StopTimeout"  -> "Deactivating"
                              [] OTHER              -> "Active")
    PROVE  AllBacked(I)
<1>1. k \in Alarm /\ \A j \in {"Restart", "StartTimeout", "StopTimeout", "WatchdogCheck"} :
                        j \in Alarm
  BY DEF Alarm
<1>2. /\ I \in [Units -> Record] /\ AllBackedBut(I, u)
      /\ u \in Services => Tended(u, I[u])
      /\ \A j \in Alarm \ {k} : I[u].alarms[j] = inst[u].alarms[j]
      /\ I[u].state = inst[u].state /\ I[u].killed = inst[u].killed
  BY <1>1, PoppedBacks
<1>3. ASSUME u \in Services PROVE Timed(u, I[u])
  <2>1. Timed(u, inst[u])
    BY <1>3 DEF AllBacked, Backed
  <2> QED BY <1>1, <1>2, <2>1 DEF Timed
<1> QED BY <1>2, <1>3 DEF AllBacked, AllBackedBut, Backed

LEMMA OnRestartBacks ==
    ASSUME TypeOK, GoingDown, AllBacked(inst), NEW u \in Units, OnRestart(u)
    PROVE  AllBacked(inst')
<1>1. PICK I \in Popped("Restart", u) :
         IF StillRestarting(I[u]) THEN \E ok \in StartOutcome(u) : inst' = Started(I, u, ok)
         ELSE inst' = I
  BY DEF OnRestart
<1>2. "Restart" \in Alarm
  BY DEF Alarm
<1>3. I \in [Units -> Record] /\ AllBackedBut(I, u) /\ I[u].state = inst[u].state
  BY <1>2, PoppedBacks
<1>4. CASE inst[u].state = "Restarting"
  <2>1. ~ShuttingDown
    BY <1>4 DEF GoingDown
  <2>2. \E ok \in StartOutcome(u) : inst' = Started(I, u, ok)
    BY <1>1, <1>3, <1>4 DEF StillRestarting
  <2> QED BY <1>3, <2>1, <2>2, OutcomeBacks
<1>5. CASE inst[u].state # "Restarting"
  <2>1. inst' = I
    BY <1>1, <1>3, <1>5 DEF StillRestarting
  <2> QED BY <1>5, <2>1, PoppedPast
<1> QED BY <1>4, <1>5

LEMMA StartTimedOutBacks ==
    ASSUME TypeOK, AllBacked(inst), NEW u \in Units, StartTimedOut(u)
    PROVE  AllBacked(inst')
<1>1. PICK I \in Popped("StartTimeout", u) :
         inst' = IF I[u].state = "Activating"
                 THEN [I EXCEPT ![u] = StopUnit(u, I[u], "Watchdog")] ELSE I
  BY DEF StartTimedOut
<1>2. "StartTimeout" \in Alarm /\ "Watchdog" \in StopCause
  BY DEF Alarm, StopCause
<1>3. /\ I \in [Units -> Record] /\ AllBackedBut(I, u) /\ I[u].state = inst[u].state
      /\ u \in Services => Tended(u, I[u])
  BY <1>2, PoppedBacks
<1>4. CASE inst[u].state = "Activating"
  BY <1>1, <1>2, <1>3, <1>4, StopAllBacked
<1>5. CASE inst[u].state # "Activating"
  BY <1>1, <1>3, <1>5, PoppedPast
<1> QED BY <1>4, <1>5

LEMMA StopTimeoutBacks ==
    ASSUME TypeOK, AllBacked(inst), NEW u \in Units, StopTimeoutElapsed(u)
    PROVE  AllBacked(inst')
<1>1. PICK I \in Popped("StopTimeout", u) :
         inst' = IF I[u].state = "Deactivating"
                 THEN [I EXCEPT ![u] = StopTimedOut(I[u])] ELSE I
  BY DEF StopTimeoutElapsed
<1>2. "StopTimeout" \in Alarm
  BY DEF Alarm
<1>3. /\ I \in [Units -> Record] /\ AllBackedBut(I, u) /\ I[u].state = inst[u].state
      /\ u \in Services => Tended(u, I[u])
  BY <1>2, PoppedBacks
<1>4. CASE inst[u].state = "Deactivating"
  <2> DEFINE s == StopTimedOut(I[u])
  <2>1. /\ s.killed = TRUE
        /\ \A f \in {"state", "child", "others", "emptied"} : s[f] = I[u][f]
    BY <1>3 DEF StopTimedOut, Record
  <2>2. inst' = [I EXCEPT ![u] = s]
    BY <1>1, <1>3, <1>4
  <2> HIDE DEF s
  <2>3. u \in Services => Backed(u, s)
    BY <1>3, <1>4, <2>1 DEF Backed, Tended, Timed, Populated
  <2> QED BY <1>3, <2>2, <2>3, SetBacks
<1>5. CASE inst[u].state # "Deactivating"
  BY <1>1, <1>3, <1>5, PoppedPast
<1> QED BY <1>4, <1>5

LEMMA CheckWatchdogBacks ==
    ASSUME TypeOK, AllBacked(inst), NEW u \in Units, CheckWatchdog(u)
    PROVE  AllBacked(inst')
<1>1. PICK I \in Popped("WatchdogCheck", u) :
         IF I[u].state = "Active"
         THEN \/ inst' = [I EXCEPT ![u] = Armed(I[u], "WatchdogCheck")]
              \/ inst' = [I EXCEPT ![u] = StopUnit(u, I[u], "Watchdog")]
         ELSE inst' = I
  BY DEF CheckWatchdog, CheckedAgain
<1>2. "WatchdogCheck" \in Alarm /\ "Watchdog" \in StopCause
  BY DEF Alarm, StopCause
<1>3. /\ I \in [Units -> Record] /\ AllBackedBut(I, u) /\ I[u].state = inst[u].state
      /\ u \in Services => Tended(u, I[u])
  BY <1>2, PoppedBacks
<1>4. CASE inst[u].state = "Active" /\ inst' = [I EXCEPT ![u] = Armed(I[u], "WatchdogCheck")]
  <2> DEFINE a == Armed(I[u], "WatchdogCheck")
  <2>1. /\ a.alarms["WatchdogCheck"] > 0
        /\ \A f \in {"state", "child", "others", "emptied"} : a[f] = I[u][f]
    BY <1>2, <1>3, ArmedBacks
  <2> HIDE DEF a
  <2>2. u \in Services => Backed(u, a)
    BY <1>3, <1>4, <2>1 DEF Backed, Tended, Timed, Populated
  <2>3. inst' = [I EXCEPT ![u] = a]
    BY <1>4 DEF a
  <2> QED BY <1>3, <2>2, <2>3, SetBacks
<1>5. CASE inst[u].state = "Active"
             /\ inst' = [I EXCEPT ![u] = StopUnit(u, I[u], "Watchdog")]
  BY <1>2, <1>3, <1>5, StopAllBacked
<1>6. CASE inst[u].state # "Active"
  BY <1>1, <1>3, <1>6, PoppedPast
<1> QED BY <1>1, <1>3, <1>4, <1>5, <1>6

(* A timer unit is no service: only what it starts is concerned.             *)
LEMMA TimerElapsedBacks ==
    ASSUME TypeOK, AllBacked(inst), NEW t \in DOMAIN Activates \ Sockets, TimerElapsed(t)
    PROVE  AllBacked(inst')
<1> DEFINE u == Activates[t]
<1>1. t \in Units /\ t \notin Services /\ u \in Units /\ "TimerElapsed" \in Alarm
  BY UnitsAssumption DEF Services, ServiceType, Sockets, Alarm
<1>2. PICK I \in Popped("TimerElapsed", t), again \in BOOLEAN :
         LET J == [I EXCEPT ![t] = IF again THEN Armed(I[t], "TimerElapsed") ELSE I[t]]
         IN  \/ inst' = I \/ inst' = J
             \/ \E ok \in StartOutcome(u) : inst' = Started(J, u, ok)
  BY DEF TimerElapsed
<1> DEFINE a == IF again THEN Armed(I[t], "TimerElapsed") ELSE I[t]
           J == [I EXCEPT ![t] = a]
<1>3. I \in [Units -> Record] /\ AllBackedBut(I, t)
  BY <1>1, PoppedBacks
<1>4. a \in Record
  BY <1>1, <1>3, ArmedFacts
<1>5. inst' = I \/ inst' = J \/ \E ok \in StartOutcome(u) : inst' = Started(J, u, ok)
  BY <1>2
<1> HIDE DEF a, u
<1>6. J \in [Units -> Record] /\ AllBacked(J)
  BY <1>1, <1>3, <1>4, SetBacks
<1>7. AllBacked(I)
  BY <1>1, <1>3 DEF AllBacked, AllBackedBut
<1> HIDE DEF J
<1>8. AllBackedBut(J, u)
  BY <1>6 DEF AllBacked, AllBackedBut
<1> QED BY <1>1, <1>5, <1>6, <1>7, <1>8, OutcomeBacks

LEMMA OnSocketBacks ==
    ASSUME TypeOK, AllBacked(inst), NEW s \in Sockets, OnSocket(s)
    PROVE  AllBacked(inst')
<1>1. Activates[s] \in Units /\ inst \in [Units -> Record]
  BY UnitsAssumption DEF Sockets, Services, TypeOK
<1>2. inst' = inst \/ \E ok \in StartOutcome(Activates[s]) :
                         inst' = Started(inst, Activates[s], ok)
  BY DEF OnSocket
<1>3. AllBackedBut(inst, Activates[s])
  BY DEF AllBacked, AllBackedBut
<1> QED BY <1>1, <1>2, <1>3, OutcomeBacks

LEMMA StopRequestBacks ==
    ASSUME TypeOK, AllBacked(inst), NEW u \in Units
    PROVE  AllBacked([inst EXCEPT ![u] = StopUnit(u, inst[u], "Requested")])
<1>1. "Requested" \in StopCause /\ AllBackedBut(inst, u) /\ inst \in [Units -> Record]
  BY DEF AllBacked, AllBackedBut, StopCause, TypeOK
<1> QED BY <1>1, StopAllBacked DEF AllBacked, Backed, Timed

LEMMA RequestBacks ==
    ASSUME TypeOK, AllBacked(inst), NEW u \in Units,
           HandleStart(u) \/ HandleStop(u) \/ HandleRestart(u)
    PROVE  AllBacked(inst')
<1> DEFINE J == [inst EXCEPT ![u] = StopUnit(u, inst[u], "Requested")]
<1>1. AllBacked(J) /\ J \in [Units -> Record]
  BY StopRequestBacks, StopSteady DEF Steady
<1>2. inst \in [Units -> Record] /\ AllBackedBut(inst, u)
  BY DEF TypeOK, AllBacked, AllBackedBut
<1>3. \/ \E ok \in StartOutcome(u) : inst' = Started(inst, u, ok)
      \/ \E ok \in StartOutcome(u) : inst' = Started(J, u, ok)
      \/ inst' = J
  BY DEF HandleStart, HandleStop, HandleRestart
<1> HIDE DEF J
<1>4. AllBackedBut(J, u)
  BY <1>1 DEF AllBacked, AllBackedBut
<1> QED BY <1>1, <1>2, <1>3, <1>4, OutcomeBacks

LEMMA PumpOneBacks ==
    ASSUME TypeOK, AllBacked(inst), PumpOne
    PROVE  AllBacked(inst')
<1>1. PICK i \in DOMAIN Order :
         \/ inst' = [inst EXCEPT ![Order[i]] = FailedToStart(inst[Order[i]])]
         \/ \E ok \in StartOutcome(Order[i]) : inst' = Started(inst, Order[i], ok)
  BY DEF PumpOne
<1> DEFINE u == Order[i]
           f == FailedToStart(inst[u])
<1>2. u \in Units /\ inst \in [Units -> Record] /\ AllBackedBut(inst, u)
  BY OrderedUnit DEF TypeOK, AllBacked, AllBackedBut
<1>3. f.state = "Failed" /\ f.child = "none"
  BY <1>2, NoChildFacts, NoChildBacks DEF FailedToStart, Record
<1>4. inst' = [inst EXCEPT ![u] = f]
      \/ \E ok \in StartOutcome(u) : inst' = Started(inst, u, ok)
  BY <1>1
<1> HIDE DEF u, f
<1>5. Backed(u, f)
  BY <1>3 DEF Backed, Tended, Timed
<1> QED BY <1>2, <1>4, <1>5, SetBacks, OutcomeBacks

LEMMA BeginShutdownBacks ==
    ASSUME TypeOK, AllBacked(inst), NEW a \in Actions, BeginShutdown(a)
    PROVE  AllBacked(inst')
<1>1. inst' = [u \in Units |-> StopUnit(u, inst[u], "Requested")]
  BY DEF BeginShutdown
<1>2. ASSUME NEW u \in Services
      PROVE  Backed(u, StopUnit(u, inst[u], "Requested"))
  <2>1. "Requested" \in StopCause /\ u \in Units /\ inst[u] \in Record
    BY DEF StopCause, Services, TypeOK
  <2> QED BY <2>1, StopBacks DEF AllBacked, Backed, Timed
<1> QED BY <1>1, <1>2 DEF AllBacked, Services

(* A cgroup that a process leaves empty is marked, so nothing that tended a  *)
(* unit goes unnoticed.                                                      *)
LEMMA MovesBacks ==
    ASSUME TypeOK, AllBacked(inst), NEW u \in Units, NEW r \in Record, Moves(u, r),
           r.child = "none" <=> inst[u].child = "none",
           \A f \in {"state", "killed", "alarms", "emptied"} : r[f] = inst[u][f]
    PROVE  AllBacked(inst')
<1> DEFINE d == Departed(u, r)
<1>1. inst \in [Units -> Record] /\ AllBackedBut(inst, u) /\ inst' = [inst EXCEPT ![u] = d]
  BY DEF TypeOK, AllBacked, AllBackedBut, Moves
<1>2. /\ \A f \in {"state", "killed", "alarms", "child", "others"} : d[f] = r[f]
      /\ d.emptied = (r.emptied \/ (Populated(u, inst[u]) /\ ~Populated(u, r)))
  BY DEF Departed, Record
<1>3. Populated(u, d) <=> Populated(u, r)
  BY <1>2 DEF Populated
<1> HIDE DEF d
<1>4. ASSUME u \in Services PROVE Backed(u, d)
  <2>1. Tended(u, inst[u]) /\ Timed(u, inst[u])
    BY <1>4 DEF AllBacked, Backed
  <2>2. Timed(u, d)
    BY <1>2, <2>1 DEF Timed
  <2>3. Tended(u, d)
    BY <1>2, <1>3, <2>1 DEF Tended
  <2> QED BY <2>2, <2>3 DEF Backed
<1> QED BY <1>1, <1>4, SetBacks

LEMMA ProcessBacks ==
    ASSUME TypeOK, AllBacked(inst), NEW u \in Units,
           \/ MainExits(u) \/ OtherExits(u) \/ MainIsKilled(u) \/ OthersAreKilled(u)
           \/ MainForks(u) \/ MainRoams(u) \/ SendsReady(u)
    PROVE  AllBacked(inst')
<1> DEFINE old == inst[u]
<1>1. old \in Record
  BY DEF TypeOK
<1>2. ASSUME NEW c \in Child \ {"none"}, old.child \in Live,
             Moves(u, [old EXCEPT !.child = c])
      PROVE  AllBacked(inst')
  <2> DEFINE r == [old EXCEPT !.child = c]
  <2>1. /\ r \in Record /\ r.child # "none" /\ old.child # "none"
        /\ \A f \in {"state", "killed", "alarms", "emptied"} : r[f] = old[f]
    BY <1>1, <1>2 DEF Record, Live
  <2> HIDE DEF r
  <2> QED BY <1>2, <2>1, MovesBacks DEF r
<1>3. ASSUME NEW p \in SUBSET Other, Moves(u, [old EXCEPT !.others = p])
      PROVE  AllBacked(inst')
  <2> DEFINE r == [old EXCEPT !.others = p]
  <2>1. /\ r \in Record
        /\ \A f \in {"state", "killed", "alarms", "emptied", "child"} : r[f] = old[f]
    BY <1>1 DEF Record
  <2> HIDE DEF r
  <2> QED BY <1>3, <2>1, MovesBacks DEF r
<1>4. ASSUME Moves(u, [old EXCEPT !.ready = TRUE])
      PROVE  AllBacked(inst')
  <2> DEFINE r == [old EXCEPT !.ready = TRUE]
  <2>1. /\ r \in Record
        /\ \A f \in {"state", "killed", "alarms", "emptied", "child"} : r[f] = old[f]
    BY <1>1 DEF Record
  <2> HIDE DEF r
  <2> QED BY <1>4, <2>1, MovesBacks DEF r
<1>5. /\ Outcomes[u] \subseteq Child \ {"none"} /\ "Abnormal" \in Child \ {"none"}
      /\ "away" \in Child \ {"none"}
      /\ old.others \subseteq Other /\ "kid" \in Other
  BY <1>1, UnitsAssumption DEF Child, Exit, Record, Other
<1>6. CASE MainExits(u)
  <2>1. PICK how \in Outcomes[u] : Moves(u, [old EXCEPT !.child = how])
    BY <1>6 DEF MainExits, Killed
  <2> QED BY <1>2, <1>5, <1>6, <2>1 DEF MainExits
<1>7. CASE OtherExits(u)
  <2>1. PICK p \in old.others : Moves(u, [old EXCEPT !.others = old.others \ {p}])
    BY <1>7 DEF OtherExits
  <2>2. old.others \ {p} \in SUBSET Other
    BY <1>5
  <2> QED BY <2>1, <2>2, <1>3
<1>8. CASE MainIsKilled(u)
  BY <1>2, <1>5, <1>8 DEF MainIsKilled
<1>9. CASE OthersAreKilled(u)
  <2>1. old.others \cap {"away"} \in SUBSET Other
    BY <1>5
  <2> QED BY <1>3, <1>9, <2>1 DEF OthersAreKilled
<1>10. CASE MainForks(u)
  <2>1. old.others \cup {"kid"} \in SUBSET Other
    BY <1>5
  <2> QED BY <1>3, <1>10, <2>1 DEF MainForks
<1>11. CASE MainRoams(u)
  BY <1>2, <1>5, <1>11 DEF MainRoams, Live
<1>12. CASE SendsReady(u)
  BY <1>4, <1>12 DEF SendsReady
<1> QED BY <1>6, <1>7, <1>8, <1>9, <1>10, <1>11, <1>12

LEMMA StepBacks ==
    ASSUME TypeOK, GoingDown, AllBacked(inst), [Next]_vars
    PROVE  AllBacked(inst')
<1>1. CASE \E u \in Units : OnSigchld(u) \/ OnNotify(u) \/ OnCgroup(u)
  BY <1>1, OnSigchldBacks, OnNotifyBacks, OnCgroupBacks
<1>2. CASE \E u \in Units : \/ OnRestart(u) \/ StartTimedOut(u)
                            \/ StopTimeoutElapsed(u) \/ CheckWatchdog(u)
  BY <1>2, OnRestartBacks, StartTimedOutBacks, StopTimeoutBacks, CheckWatchdogBacks
<1>3. CASE \E t \in DOMAIN Activates \ Sockets : TimerElapsed(t)
  BY <1>3, TimerElapsedBacks
<1>4. CASE \E s \in Sockets : OnSocket(s)
  BY <1>4, OnSocketBacks
<1>5. CASE \E a \in Actions : BeginShutdown(a)
  BY <1>5, BeginShutdownBacks
<1>6. CASE Control
  BY <1>6, RequestBacks DEF Control
<1>7. CASE PumpOne
  BY <1>7, PumpOneBacks
<1>8. CASE \E u \in Units :
              \/ MainExits(u) \/ OtherExits(u) \/ MainIsKilled(u)
              \/ OthersAreKilled(u) \/ MainForks(u) \/ MainRoams(u) \/ SendsReady(u)
  BY <1>8, ProcessBacks
<1>9. CASE \/ EndTurn \/ DeadlinePasses \/ UNCHANGED vars
           \/ \E s \in Sockets : Connects(s) \/ Accepts(s)
  <2>1. inst' = inst
    BY <1>9 DEF EndTurn, DeadlinePasses, Connects, Accepts, vars
  <2> QED BY <2>1
<1> QED BY <1>1, <1>2, <1>3, <1>4, <1>5, <1>6, <1>7, <1>8, <1>9
        DEF Next, Handler, Environment

LEMMA EveryServiceBacked == Spec => []AllBacked(inst)
<1>1. Init => AllBacked(inst)
  <2> SUFFICES ASSUME Init, NEW u \in Services PROVE Backed(u, New)
    BY DEF Init, AllBacked, Services
  <2> QED BY DEF New, Backed, Tended, Timed
<1>2. TypeOK /\ GoingDown /\ AllBacked(inst) /\ [Next]_vars => AllBacked(inst)'
  BY StepBacks
<1> QED BY <1>1, <1>2, TypeCorrect, NothingComesUpGoingDown, PTL DEF Spec

(* No service is ever stuck: one that activates has a process and its        *)
(* deadline, one that is up or stopping has something whose end will be      *)
(* reported, one that waits to restart has its alarm, and no handler, in any *)
(* order, leaves it without (start, stop, on_sigchld, on_cgroup, on_timer).  *)
THEOREM NoUnitStranded == Spec => []NeverStranded
<1>1. TypeOK /\ AllBacked(inst) => NeverStranded
  BY DEF AllBacked, Backed, Tended, Timed, NeverStranded
<1> QED BY <1>1, EveryServiceBacked, TypeCorrect, PTL

(* The chain of watchdog checks of a service that is up is never broken      *)
(* (on_ready, check_watchdog).                                               *)
THEOREM WatchdogNeverLapses == Spec => []WatchdogCovered
<1>1. AllBacked(inst) => WatchdogCovered
  BY UnitsAssumption DEF AllBacked, Backed, Timed, WatchdogCovered, Services
<1> QED BY <1>1, EveryServiceBacked, PTL

(* A unit that is down or waiting to restart has no child, and only a        *)
(* forking service is up without one, whatever was started, stopped, reaped  *)
(* or vanished, and in whatever order.                                       *)
THEOREM ChildrenTracked == Spec => []Tracking
<1>1. AllBacked(inst) => Tracking
  BY DEF AllBacked, Backed, Tended, Tracking
<1> QED BY <1>1, EveryServiceBacked, PTL

-------------------------------------------------------------------------------
(* One main process                                                          *)

(* No process was lost: every main process that runs is in its cgroup and    *)
(* has its handle, and only a cgroup that exists can empty.                  *)
Held(u, r) ==
    /\ r.others \cap {"lost", "away"} = {}
    /\ r.child # "away"
    /\ u \notin Services => r.child = "none"
    /\ r.emptied => u \in HasCgroup

AllHeld(I) == \A v \in Units : Held(v, I[v])

Queue == {Order[i] : i \in DOMAIN Order}

(* Nobody but the queue starts what is queued, and nothing leaves its cgroup. *)
Undisturbed ==
    /\ "start" \notin Requests
    /\ Roams = {}
    /\ \A s \in DOMAIN Activates : Activates[s] \notin Queue

(* A handle is dropped only when its process is gone.                        *)
LEMMA NoChildHolds ==
    ASSUME NEW u \in Units, NEW r \in Record, Held(u, r), r.child # "in"
    PROVE  Held(u, NoChild(r))
<1>1. r.child \notin Live
  BY DEF Held, Live
<1>2. NoChild(r).others = r.others /\ NoChild(r).child = "none"
      /\ NoChild(r).emptied = r.emptied
  BY <1>1, NoChildBacks
<1> QED BY <1>2 DEF Held

LEMMA HeldByFields ==
    ASSUME NEW u, NEW r, NEW s, Held(u, r),
           s.child = r.child, s.others = r.others, s.emptied = r.emptied
    PROVE  Held(u, s)
  BY DEF Held

LEMMA ArmedHolds ==
    ASSUME NEW u, NEW r \in Record, NEW k \in Alarm, Held(u, r)
    PROVE  Held(u, Armed(r, k))
  BY ArmedBacks, HeldByFields

LEMMA StartHolds ==
    ASSUME NEW u \in Units, NEW r \in Record, NEW ok, Held(u, r), r.child = "none"
    PROVE  Held(u, StartUnit(u, r, ok))
<1> DEFINE n == NoChild(r)
           a == EnteredActivating(r)
           f == FailedToStart(r)
           e == EnteredActive(r)
<1>1. n \in Record /\ Held(u, n)
  BY NoChildFacts, NoChildHolds
<1>2. /\ f \in Record /\ a \in Record /\ e \in Record
      /\ f.child = n.child /\ f.others = n.others /\ f.emptied = n.emptied
      /\ a.child = "in" /\ a.others = n.others /\ a.emptied = n.emptied
      /\ e.child = r.child /\ e.others = r.others /\ e.emptied = r.emptied
  BY <1>1, EnteredFacts DEF FailedToStart, EnteredActivating, EnteredActive, Record
<1>3. "StartTimeout" \in Alarm /\ "TimerElapsed" \in Alarm
  BY DEF Alarm
<1> HIDE DEF n, a, f, e
<1>4. Held(u, f) /\ Held(u, e)
  BY <1>1, <1>2, HeldByFields
<1>5. CASE u \notin Services
  <2>1. Kind[u] \in {"target", "socket", "timer"}
    BY <1>5, UnitsAssumption DEF Services, UnitKind
  <2>2. StartUnit(u, r, ok) = e \/ StartUnit(u, r, ok) = Armed(e, "TimerElapsed")
    BY <2>1 DEF StartUnit, e
  <2> QED BY <1>2, <1>3, <1>4, <2>2, ArmedHolds
<1>6. CASE u \in Services
  <2>1. Held(u, a)
    BY <1>1, <1>2, <1>6 DEF Held
  <2>2. Kind[u] \in ServiceType
    BY <1>6 DEF Services
  <2>3. /\ EnteredActive(a).child = a.child /\ EnteredActive(a).others = a.others
        /\ EnteredActive(a).emptied = a.emptied
    BY <1>2 DEF EnteredActive, Record
  <2>4. Held(u, EnteredActive(a)) /\ Held(u, Armed(a, "StartTimeout"))
    BY <1>2, <1>3, <2>1, <2>3, HeldByFields, ArmedHolds
  <2>5. StartUnit(u, r, ok) \in {f, EnteredActive(a), Armed(a, "StartTimeout")}
    BY <2>2 DEF StartUnit, ServiceType, a, f
  <2> QED BY <1>4, <2>4, <2>5
<1> QED BY <1>5, <1>6

LEMMA EndHolds ==
    ASSUME NEW u \in Units, NEW r \in Record, NEW policy, NEW oneshot \in BOOLEAN,
           NEW exit \in Exit, Held(u, r), r.child # "in"
    PROVE  /\ Held(u, Deactivated(r, policy))
           /\ Held(u, OnExit(r, policy, oneshot, exit))
<1> DEFINE n == NoChild(r)
<1>1. n \in Record /\ Held(u, n)
  BY NoChildFacts, NoChildHolds
<1>2. \A x \in Record : \A p, h :
         /\ ScheduleRestart(x, p, h).child = x.child
         /\ ScheduleRestart(x, p, h).others = x.others
         /\ ScheduleRestart(x, p, h).emptied = x.emptied
  BY DEF ScheduleRestart, Record
<1>3. Held(u, Deactivated(r, policy))
  <2> DEFINE d == [n EXCEPT !.killed = FALSE, !.cause = "None"]
             e == [d EXCEPT !.state = IF r.killed THEN "Failed" ELSE "Inactive"]
  <2>1. /\ d \in Record /\ d.child = n.child /\ d.others = n.others
        /\ d.emptied = n.emptied
    <3> HIDE DEF n
    <3> QED BY <1>1 DEF Record
  <2>2. Deactivated(r, policy) =
          IF r.cause = "Watchdog" THEN ScheduleRestart(d, policy, "Abnormal") ELSE e
    BY DEF Deactivated
  <2>3. e.child = d.child /\ e.others = d.others /\ e.emptied = d.emptied
    <3> HIDE DEF d
    <3> QED BY <2>1 DEF Record
  <2> HIDE DEF d, e, n
  <2>4. Held(u, d)
    BY <1>1, <2>1, HeldByFields
  <2> QED BY <1>2, <2>1, <2>2, <2>3, <2>4, HeldByFields
<1>4. Held(u, OnExit(r, policy, oneshot, exit))
  <2> DEFINE done == oneshot /\ r.state = "Activating" /\ exit = "Clean"
             d    == [n EXCEPT !.reached = @ \/ done]
  <2>1. /\ d \in Record /\ d.child = n.child /\ d.others = n.others
        /\ d.emptied = n.emptied
    <3> HIDE DEF n
    <3>1. (n.reached \/ done) \in BOOLEAN
      OBVIOUS
    <3> QED BY <1>1, <3>1 DEF Record
  <2>2. OnExit(r, policy, oneshot, exit) =
          IF r.state = "Deactivating" THEN n ELSE ScheduleRestart(d, policy, exit)
    BY DEF OnExit
  <2> HIDE DEF d, n
  <2>3. Held(u, d)
    BY <1>1, <2>1, HeldByFields
  <2> QED BY <1>1, <1>2, <2>1, <2>2, <2>3, HeldByFields
<1> QED BY <1>3, <1>4

LEMMA CancelHolds ==
    ASSUME NEW u \in Units, NEW r \in Record, Held(u, r), r.child # "in"
    PROVE  Held(u, CancelRestart(r)) /\ Held(u, RestartOrCancel(r))
<1> DEFINE n == NoChild(r)
           c == [n EXCEPT !.state = "Inactive"]
<1>1. n \in Record /\ Held(u, n)
  BY NoChildFacts, NoChildHolds
<1>2. c.child = n.child /\ c.others = n.others /\ c.emptied = n.emptied
  <2> HIDE DEF n
  <2> QED BY <1>1 DEF Record
<1>3. CancelRestart(r) = IF r.state = "Restarting" THEN c ELSE r
  BY DEF CancelRestart
<1> HIDE DEF n, c
<1>4. Held(u, CancelRestart(r))
  BY <1>1, <1>2, <1>3, HeldByFields
<1>5. "Restart" \in Alarm
  BY DEF Alarm
<1> QED BY <1>4, <1>5, ArmedHolds DEF RestartOrCancel

LEMMA StopHolds ==
    ASSUME NEW u \in Units, NEW r \in Record, NEW cause \in StopCause, Held(u, r),
           u \in Services => Tended(u, r)
    PROVE  Held(u, StopUnit(u, r, cause))
<1> DEFINE d == EnteredDeactivating(r, cause)
<1>1. d \in Record /\ Held(u, d) /\ d.child = r.child
  <2>1. d \in Record /\ d.child = r.child /\ d.others = r.others /\ d.emptied = r.emptied
    BY DeactivatingFacts DEF EnteredDeactivating, Record
  <2> HIDE DEF d
  <2> QED BY <2>1, HeldByFields
<1>2. "StopTimeout" \in Alarm /\ TRUE \in BOOLEAN /\ "Clean" \in Exit
  BY DEF Alarm, Exit
<1>3. r.state = "Restarting" \/ u \notin Services => r.child # "in"
  BY DEF Held, Tended
<1>4. Kind[u] \notin ServiceType => u \notin Services
  BY DEF Services
<1> HIDE DEF d
<1>5. Held(u, Armed(d, "StopTimeout"))
  BY <1>1, <1>2, ArmedHolds
<1>6. r.child # "in" => Held(u, CancelRestart(r)) /\ Held(u, Deactivated(d, "No"))
  BY <1>1, <1>2, CancelHolds, EndHolds
<1> QED BY <1>3, <1>4, <1>5, <1>6 DEF StopUnit, d

Sole == AllHeld(inst) /\ \A v \in pending : v \in Queue /\ Idle(inst[v])

LEMMA SetSole ==
    ASSUME TypeOK, Sole, NEW u \in Units, NEW r, inst' = [inst EXCEPT ![u] = r],
           Held(u, r), pending' \subseteq pending, u \in pending' => Idle(r)
    PROVE  Sole'
<1>1. inst'[u] = r /\ \A v \in Units \ {u} : inst'[v] = inst[v]
  BY DEF TypeOK
<1>2. \A v \in Units : Held(v, inst'[v])
  BY <1>1 DEF Sole, AllHeld
<1>3. \A v \in pending' : v \in Queue /\ Idle(inst'[v])
  BY <1>1 DEF Sole, TypeOK
<1> QED BY <1>2, <1>3 DEF Sole, AllHeld, Held, Queue

(* Records that differ from inst in one unit's alarms, or not at all.        *)
LEMMA SameSole ==
    ASSUME TypeOK, Sole, pending' \subseteq pending, AllHeld(inst'),
           \A v \in pending' : inst'[v].state = inst[v].state
    PROVE  Sole'
<1>1. \A v \in Units : Held(v, inst'[v])
  BY DEF AllHeld
<1>2. \A v \in pending' : v \in Queue /\ Idle(inst'[v])
  BY DEF Sole, Idle
<1> QED BY <1>1, <1>2 DEF Sole, AllHeld, Held, Queue

LEMMA StartedHolds ==
    ASSUME NEW I \in [Units -> Record], NEW u \in Units, NEW ok,
           AllHeld(I), AllBackedBut(I, u), I[u].child = "none"
    PROVE  /\ AllHeld(Started(I, u, ok))
           /\ \A v \in Units \ {u} : Idle(I[v]) => Started(I, u, ok)[v] = I[v]
<1>1. CASE ShuttingDown
  BY <1>1 DEF Started
<1>2. CASE ~ShuttingDown
  <2> DEFINE J == Launched(I, u, ok)
  <2>1. "Requested" \in StopCause
    BY DEF StopCause
  <2>2. ASSUME NEW v \in Units
        PROVE  J[v] = IF v = u THEN StartUnit(u, I[u], ok)
                      ELSE IF v \in Excluded(I, u) THEN StopUnit(v, I[v], "Requested")
                      ELSE I[v]
    BY DEF Launched
  <2>3. Started(I, u, ok) = J
    BY <1>2 DEF Started
  <2> HIDE DEF J
  <2>4. Held(u, StartUnit(u, I[u], ok))
    BY StartHolds DEF AllHeld
  <2>5. ASSUME NEW v \in Units \ {u} PROVE Held(v, StopUnit(v, I[v], "Requested"))
    BY <2>1, StopHolds DEF AllHeld, AllBackedBut, Backed
  <2>6. \A v \in Units : Held(v, J[v])
    BY <2>2, <2>4, <2>5 DEF AllHeld
  <2>7. \A v \in Units \ {u} : Idle(I[v]) => J[v] = I[v]
    BY <2>2 DEF Excluded
  <2> QED BY <2>3, <2>6, <2>7 DEF AllHeld
<1> QED BY <1>1, <1>2

LEMMA StartSole ==
    ASSUME TypeOK, Sole, NEW I \in [Units -> Record], NEW u \in Units,
           AllHeld(I), AllBackedBut(I, u), I[u].child = "none",
           \A v \in Units \ {u} : Idle(inst[v]) => Idle(I[v]),
           \E ok \in StartOutcome(u) : inst' = Started(I, u, ok),
           pending' \subseteq pending, u \notin pending'
    PROVE  Sole'
<1>1. AllHeld(inst') /\ \A v \in Units \ {u} : Idle(I[v]) => inst'[v] = I[v]
  BY StartedHolds
<1>2. \A v \in pending' : v \in Queue /\ Idle(inst'[v])
  BY <1>1 DEF Sole, TypeOK
<1>3. \A v \in Units : Held(v, inst'[v])
  BY <1>1 DEF AllHeld
<1> QED BY <1>2, <1>3 DEF Sole, AllHeld, Held, Queue

(* What is idle has no process.                                              *)
LEMMA IdleHasNoChild ==
    ASSUME AllBacked(inst), Sole, NEW u \in Units,
           Idle(inst[u]) \/ inst[u].state = "Restarting"
    PROVE  inst[u].child = "none"
  BY DEF AllBacked, Backed, Tended, Sole, AllHeld, Held, Idle

LEMMA FinishSole ==
    ASSUME TypeOK, Sole, AllBacked(inst), NEW u \in Units, NEW r \in Record,
           Held(u, r), r.child # "in", u \notin pending,
           FinishDeactivation([inst EXCEPT ![u] = r], u)
    PROVE  Sole'
<1> DEFINE I == [inst EXCEPT ![u] = r]
           d == Deactivated(r, Policy[u])
           e == RestartOrCancel(d)
           J == [I EXCEPT ![u] = e]
<1>1. I \in [Units -> Record] /\ I[u] = r /\ \A v \in Units \ {u} : I[v] = inst[v]
  BY DEF TypeOK
<1>2. /\ d \in Record /\ d.child = "none" /\ d.state \in Halted \cup {"Restarting"}
      /\ Held(u, d)
  <2>1. TRUE \in BOOLEAN /\ "Clean" \in Exit
    BY DEF Exit
  <2> QED BY <2>1, DeactivatedFacts, DeactivatedHasNoChild, EndHolds DEF Down, Halted
<1>3. e \in Record /\ Held(u, e) /\ e.child = "none"
  <2> HIDE DEF d
  <2>1. e \in Record /\ Held(u, e)
    BY <1>2, RestartOrCancelFacts, CancelHolds
  <2>2. "Restart" \in Alarm
    BY DEF Alarm
  <2>3. CancelRestart(d).child = "none"
    BY <1>2, NoChildFacts, NoChildBacks DEF CancelRestart, Record
  <2>4. e.child = "none"
    BY <1>2, <2>2, <2>3, ArmedBacks DEF RestartOrCancel
  <2> QED BY <2>1, <2>4
<1>4. IF u \in pendingRestart
      THEN /\ \E ok \in StartOutcome(u) : inst' = Started(J, u, ok)
           /\ pending' = StillQueued(J, u)
      ELSE inst' = J /\ pending' = pending
  BY <1>1 DEF FinishDeactivation
<1> HIDE DEF e, I
<1>5. /\ J \in [Units -> Record] /\ J[u] = e
      /\ \A v \in Units \ {u} : J[v] = inst[v]
  BY <1>1, <1>3
<1> HIDE DEF J
<1>6. AllHeld(J) /\ AllBackedBut(J, u)
  BY <1>3, <1>5 DEF Sole, AllHeld, AllBacked, AllBackedBut, Services
<1>7. CASE u \in pendingRestart
  <2>1. pending' \subseteq pending /\ u \notin pending'
    BY <1>4, <1>7 DEF StillQueued
  <2> QED BY <1>3, <1>4, <1>5, <1>6, <1>7, <2>1, StartSole
<1>8. CASE u \notin pendingRestart
  <2>1. \A v \in pending' : inst'[v].state = inst[v].state
    BY <1>4, <1>5, <1>8 DEF TypeOK
  <2> QED BY <1>4, <1>6, <1>8, <2>1, SameSole
<1> QED BY <1>7, <1>8

LEMMA OnSigchldSole ==
    ASSUME TypeOK, Sole, AllBacked(inst), NEW u \in Units, OnSigchld(u)
    PROVE  Sole'
<1> DEFINE r == inst[u]
           oneshot == Kind[u] = "oneshot"
           exited == OnExit(r, Policy[u], oneshot, r.child)
<1>1. /\ r \in Record /\ r.child \in Exit /\ r.child # "in" /\ r.child # "none"
      /\ oneshot \in BOOLEAN /\ Held(u, r)
  BY DEF TypeOK, OnSigchld, Exit, Sole, AllHeld
<1>2. u \notin pending
  BY <1>1, IdleHasNoChild DEF Sole
<1>3. exited \in Record /\ Held(u, exited) /\ exited.child = "none"
  <2> HIDE DEF oneshot, r
  <2>1. OnExit(r, Policy[u], oneshot, r.child) \in Record
        /\ OnExit(r, Policy[u], oneshot, r.child).child = "none"
    BY <1>1, OnExitFacts, ExitedHasNoChild
  <2>2. Held(u, OnExit(r, Policy[u], oneshot, r.child))
    BY <1>1, EndHolds
  <2> QED BY <2>1, <2>2
<1>4. Held(u, ForkingParentExited(u, r))
  <2> DEFINE n == NoChild(r)
             a == EnteredActive(n)
             f == [n EXCEPT !.state = "Failed"]
  <2>1. n \in Record /\ Held(u, n)
    BY <1>1, NoChildFacts, NoChildHolds
  <2>2. ForkingParentExited(u, r) = a \/ ForkingParentExited(u, r) = f
    BY DEF ForkingParentExited, ForkedAway, FailedToStart
  <2>3. /\ a.child = n.child /\ a.others = n.others /\ a.emptied = n.emptied
        /\ f.child = n.child /\ f.others = n.others /\ f.emptied = n.emptied
    <3> HIDE DEF n
    <3> QED BY <2>1 DEF EnteredActive, Record
  <2> HIDE DEF a, f, n
  <2> QED BY <2>1, <2>2, <2>3, HeldByFields
<1>5. \/ /\ inst' = [inst EXCEPT ![u] = ForkingParentExited(u, r)]
         /\ UNCHANGED pending
      \/ FinishDeactivation([inst EXCEPT ![u] = exited], u)
      \/ /\ inst' = [inst EXCEPT ![u] = RestartOrCancel(exited)]
         /\ UNCHANGED pending
  BY DEF OnSigchld
<1> HIDE DEF exited, r
<1>6. Held(u, RestartOrCancel(exited))
  BY <1>3, CancelHolds
<1>7. CASE FinishDeactivation([inst EXCEPT ![u] = exited], u)
  BY <1>2, <1>3, <1>7, FinishSole
<1> QED BY <1>2, <1>4, <1>5, <1>6, <1>7, SetSole

LEMMA OnCgroupSole ==
    ASSUME TypeOK, Sole, AllBacked(inst), NEW u \in Units, OnCgroup(u)
    PROVE  Sole'
<1> DEFINE r    == [inst[u] EXCEPT !.emptied = FALSE]
           gone == OnExit(r, Policy[u], FALSE, "Abnormal")
           e    == IF gone.state = "Restarting" THEN Armed(gone, "Restart") ELSE gone
<1>1. /\ inst[u] \in Record /\ inst[u].emptied /\ Held(u, inst[u])
      /\ "Abnormal" \in Exit /\ FALSE \in BOOLEAN /\ "Restart" \in Alarm
  BY DEF TypeOK, OnCgroup, Sole, AllHeld, Exit, Alarm
<1>2. /\ r \in Record /\ r.emptied = FALSE
      /\ r.state = inst[u].state /\ r.child = inst[u].child /\ r.others = inst[u].others
  BY <1>1 DEF Record
<1>3. \/ /\ ~Populated(u, r) /\ r.state = "Deactivating"
         /\ FinishDeactivation([inst EXCEPT ![u] = r], u)
      \/ /\ r.state = "Active" /\ r.child = "none" /\ inst' = [inst EXCEPT ![u] = e]
         /\ UNCHANGED pending
      \/ inst' = [inst EXCEPT ![u] = r] /\ UNCHANGED pending
  BY DEF OnCgroup
<1> HIDE DEF r
<1>4. u \in pending => Idle(r)
  BY <1>2 DEF Sole, Idle
<1>5. Held(u, r)
  BY <1>1, <1>2 DEF Held
<1>6. CASE ~Populated(u, r) /\ r.state = "Deactivating"
           /\ FinishDeactivation([inst EXCEPT ![u] = r], u)
  <2>1. r.child # "in"
    BY <1>1, <1>6 DEF Held, Populated
  <2>2. u \notin pending
    BY <1>4, <1>6 DEF Idle
  <2> QED BY <1>2, <1>5, <1>6, <2>1, <2>2, FinishSole
<1>7. CASE /\ r.state = "Active" /\ r.child = "none" /\ inst' = [inst EXCEPT ![u] = e]
           /\ UNCHANGED pending
  <2>1. u \notin pending
    BY <1>4, <1>7 DEF Idle
  <2>2. gone \in Record /\ Held(u, gone)
    BY <1>1, <1>2, <1>5, <1>7, OnExitFacts, EndHolds
  <2> HIDE DEF gone
  <2>3. Held(u, e)
    BY <1>1, <2>2, ArmedHolds
  <2> HIDE DEF e
  <2> QED BY <1>7, <2>1, <2>3, SetSole
<1>8. CASE inst' = [inst EXCEPT ![u] = r] /\ UNCHANGED pending
  BY <1>4, <1>5, <1>8, SetSole
<1> QED BY <1>3, <1>6, <1>7, <1>8

LEMMA OnNotifySole ==
    ASSUME TypeOK, Sole, NEW u \in Units, OnNotify(u)
    PROVE  Sole'
<1> DEFINE r  == [inst[u] EXCEPT !.ready = FALSE]
           up == EnteredActive(r)
           n  == IF r.state # "Activating" THEN r
                 ELSE IF u \in Watched THEN Armed(up, "WatchdogCheck") ELSE up
<1>1. inst' = [inst EXCEPT ![u] = n] /\ pending' = pending
  BY DEF OnNotify
<1>2. /\ r \in Record /\ "WatchdogCheck" \in Alarm /\ Held(u, inst[u])
      /\ r.state = inst[u].state /\ r.child = inst[u].child /\ r.others = inst[u].others
      /\ r.emptied = inst[u].emptied
  BY DEF TypeOK, Record, Alarm, Sole, AllHeld
<1> HIDE DEF r
<1>3. Held(u, r) /\ up \in Record
  BY <1>2, HeldByFields, EnteredFacts
<1>4. up.child = r.child /\ up.others = r.others /\ up.emptied = r.emptied
  BY <1>2 DEF EnteredActive, Record
<1> HIDE DEF up
<1>5. Held(u, n)
  BY <1>2, <1>3, <1>4, HeldByFields, ArmedHolds
<1>6. u \in pending => Idle(n)
  BY <1>2 DEF Sole, Idle
<1> HIDE DEF n
<1> QED BY <1>1, <1>5, <1>6, SetSole

LEMMA PoppedHolds ==
    ASSUME TypeOK, Sole, AllBacked(inst), NEW u \in Units, NEW k \in Alarm,
           NEW I \in Popped(k, u)
    PROVE  /\ I \in [Units -> Record] /\ AllHeld(I) /\ AllBackedBut(I, u)
           /\ u \in Services => Tended(u, I[u])
           /\ \A v \in Units : I[v].state = inst[v].state /\ I[v].child = inst[v].child
<1>1. /\ I \in [Units -> Record] /\ AllBackedBut(I, u)
      /\ u \in Services => Tended(u, I[u])
      /\ I[u].state = inst[u].state /\ I[u].child = inst[u].child
      /\ I[u].others = inst[u].others /\ I[u].emptied = inst[u].emptied
  BY PoppedBacks
<1>2. \A v \in Units \ {u} : I[v] = inst[v]
  BY DEF Popped, TypeOK
<1>3. \A v \in Units : Held(v, I[v])
  BY <1>1, <1>2, HeldByFields DEF Sole, AllHeld
<1> QED BY <1>1, <1>2, <1>3 DEF AllHeld

LEMMA AlarmSole ==
    ASSUME TypeOK, Sole, AllBacked(inst), NEW u \in Units,
           \/ OnRestart(u) \/ StartTimedOut(u) \/ StopTimeoutElapsed(u)
           \/ CheckWatchdog(u)
    PROVE  Sole'
<1>1. \A k \in {"Restart", "StartTimeout", "StopTimeout", "WatchdogCheck"} : k \in Alarm
  BY DEF Alarm
<1>2. "Watchdog" \in StopCause
  BY DEF StopCause
<1>3. ASSUME NEW k \in Alarm, NEW I \in Popped(k, u), NEW r \in Record,
             r.state = I[u].state, Held(u, r), inst' = [I EXCEPT ![u] = r],
             pending' = pending
      PROVE  Sole'
  <2>1. I \in [Units -> Record] /\ AllHeld(I) /\ \A v \in Units : I[v].state = inst[v].state
    BY PoppedHolds
  <2>2. inst'[u] = r /\ \A v \in Units \ {u} : inst'[v] = I[v]
    BY <1>3, <2>1
  <2>3. AllHeld(inst') /\ \A v \in Units : inst'[v].state = inst[v].state
    BY <1>3, <2>1, <2>2 DEF AllHeld
  <2> QED BY <1>3, <2>3, SameSole DEF TypeOK
<1>4. ASSUME NEW k \in Alarm, NEW I \in Popped(k, u), inst' = I, pending' = pending
      PROVE  Sole'
  BY <1>4, PoppedHolds, SameSole DEF TypeOK
<1>5. ASSUME NEW k \in Alarm, NEW I \in Popped(k, u), pending' = pending \ {u},
             inst' = [I EXCEPT ![u] = StopUnit(u, I[u], "Watchdog")]
      PROVE  Sole'
  <2>1. /\ I \in [Units -> Record] /\ AllHeld(I)
        /\ u \in Services => Tended(u, I[u])
        /\ \A v \in Units : I[v].state = inst[v].state
    BY PoppedHolds
  <2>2. Held(u, StopUnit(u, I[u], "Watchdog"))
    BY <1>2, <2>1, StopHolds DEF AllHeld
  <2>3. inst'[u] = StopUnit(u, I[u], "Watchdog") /\ \A v \in Units \ {u} : inst'[v] = I[v]
    BY <1>5, <2>1
  <2>4. AllHeld(inst') /\ \A v \in pending' : inst'[v].state = inst[v].state
    BY <1>5, <2>1, <2>2, <2>3 DEF AllHeld, TypeOK
  <2> QED BY <1>5, <2>4, SameSole
<1>6. CASE OnRestart(u)
  <2>1. PICK I \in Popped("Restart", u) :
           IF StillRestarting(I[u])
           THEN /\ \E ok \in StartOutcome(u) : inst' = Started(I, u, ok)
                /\ pending' = StillQueued(I, u)
           ELSE inst' = I /\ UNCHANGED pending
    BY <1>6 DEF OnRestart
  <2>2. /\ I \in [Units -> Record] /\ AllHeld(I) /\ AllBackedBut(I, u)
        /\ \A v \in Units : I[v].state = inst[v].state /\ I[v].child = inst[v].child
    BY <1>1, PoppedHolds
  <2>3. CASE I[u].state = "Restarting"
    <3>1. I[u].child = "none"
      BY <2>2, <2>3, IdleHasNoChild
    <3>2. u \notin pending
      BY <2>2, <2>3 DEF Sole, Idle
    <3>3. pending' \subseteq pending /\ u \notin pending'
          /\ \E ok \in StartOutcome(u) : inst' = Started(I, u, ok)
      BY <2>1, <2>3, <3>2 DEF StillRestarting, StillQueued
    <3>4. \A v \in Units \ {u} : Idle(inst[v]) => Idle(I[v])
      BY <2>2 DEF Idle
    <3> QED BY <2>2, <3>1, <3>3, <3>4, StartSole
  <2>4. CASE I[u].state # "Restarting"
    BY <1>1, <1>4, <2>1, <2>4 DEF StillRestarting
  <2> QED BY <2>3, <2>4
<1>7. CASE StartTimedOut(u)
  BY <1>1, <1>4, <1>5, <1>7 DEF StartTimedOut
<1>8. CASE StopTimeoutElapsed(u)
  <2>1. PICK I \in Popped("StopTimeout", u) :
           inst' = IF I[u].state = "Deactivating"
                   THEN [I EXCEPT ![u] = StopTimedOut(I[u])] ELSE I
    BY <1>8 DEF StopTimeoutElapsed
  <2> DEFINE s == StopTimedOut(I[u])
  <2>2. pending' = pending
    BY <1>8 DEF StopTimeoutElapsed
  <2>3. I[u] \in Record /\ Held(u, I[u])
    BY <1>1, PoppedHolds DEF AllHeld
  <2>4. /\ s \in Record /\ s.state = I[u].state /\ s.child = I[u].child
        /\ s.others = I[u].others /\ s.emptied = I[u].emptied
    BY <2>3 DEF StopTimedOut, Record
  <2>5. Held(u, s)
    BY <2>3, <2>4, HeldByFields
  <2> HIDE DEF s
  <2>6. inst' = [I EXCEPT ![u] = s] \/ inst' = I
    BY <2>1 DEF s
  <2> QED BY <1>1, <1>3, <1>4, <2>2, <2>4, <2>5, <2>6
<1>9. CASE CheckWatchdog(u)
  <2>1. PICK I \in Popped("WatchdogCheck", u) :
           \/ inst' = [I EXCEPT ![u] = Armed(I[u], "WatchdogCheck")] /\ UNCHANGED pending
           \/ /\ inst' = [I EXCEPT ![u] = StopUnit(u, I[u], "Watchdog")]
              /\ pending' = pending \ {u}
           \/ inst' = I /\ UNCHANGED pending
    BY <1>9 DEF CheckWatchdog, CheckedAgain
  <2>2. I[u] \in Record /\ Held(u, I[u])
    BY <1>1, PoppedHolds DEF AllHeld
  <2> DEFINE a == Armed(I[u], "WatchdogCheck")
  <2>3. a \in Record /\ a.state = I[u].state /\ Held(u, a)
    BY <1>1, <2>2, ArmedFacts, ArmedHolds
  <2>4. CASE inst' = [I EXCEPT ![u] = a] /\ UNCHANGED pending
    <3> HIDE DEF a
    <3> QED BY <1>1, <1>3, <2>3, <2>4
  <2> QED BY <1>1, <1>4, <1>5, <2>1, <2>4
<1> QED BY <1>6, <1>7, <1>8, <1>9

LEMMA ActivationSole ==
    ASSUME TypeOK, Sole, AllBacked(inst), Undisturbed,
           \/ \E t \in DOMAIN Activates \ Sockets : TimerElapsed(t)
           \/ \E s \in Sockets : OnSocket(s)
    PROVE  Sole'
<1>1. CASE \E s \in Sockets : OnSocket(s)
  <2>1. PICK s \in Sockets : OnSocket(s)
    BY <1>1
  <2> DEFINE u == Activates[s]
  <2>2. u \in Units /\ inst \in [Units -> Record] /\ u \notin pending
    BY UnitsAssumption DEF Sockets, Services, TypeOK, Undisturbed, Sole
  <2>3. CASE Idle(inst[u])
    <3>1. /\ \E ok \in StartOutcome(u) : inst' = Started(inst, u, ok)
          /\ pending' = StillQueued(inst, u)
      BY <2>1, <2>3 DEF OnSocket
    <3> HIDE DEF u
    <3>2. inst[u].child = "none"
      BY <2>2, <2>3, IdleHasNoChild
    <3>3. pending' \subseteq pending
      BY <3>1 DEF StillQueued
    <3>4. AllHeld(inst) /\ AllBackedBut(inst, u)
      BY DEF Sole, AllBacked, AllBackedBut
    <3> QED BY <2>2, <3>1, <3>2, <3>3, <3>4, StartSole
  <2>4. CASE ~Idle(inst[u])
    <3>1. inst' = inst /\ pending' = pending
      BY <2>1, <2>4 DEF OnSocket
    <3> QED BY <3>1, SameSole DEF Sole
  <2> QED BY <2>3, <2>4
<1>2. CASE \E t \in DOMAIN Activates \ Sockets : TimerElapsed(t)
  <2>1. PICK t \in DOMAIN Activates \ Sockets : TimerElapsed(t)
    BY <1>2
  <2> DEFINE u == Activates[t]
  <2>2. /\ t \in Units /\ t \notin Services /\ u \in Units /\ "TimerElapsed" \in Alarm
        /\ u \notin pending
    BY UnitsAssumption DEF Services, ServiceType, Sockets, Alarm, Undisturbed, Sole
  <2>3. PICK I \in Popped("TimerElapsed", t), again \in BOOLEAN :
           LET J == [I EXCEPT ![t] = IF again THEN Armed(I[t], "TimerElapsed") ELSE I[t]]
           IN  IF ShuttingDown THEN inst' = I /\ UNCHANGED pending
               ELSE IF ~Idle(J[u]) THEN inst' = J /\ UNCHANGED pending
               ELSE /\ \E ok \in StartOutcome(u) : inst' = Started(J, u, ok)
                    /\ pending' = StillQueued(J, u)
    BY <2>1 DEF TimerElapsed
  <2> DEFINE a == IF again THEN Armed(I[t], "TimerElapsed") ELSE I[t]
             J == [I EXCEPT ![t] = a]
  <2>4. /\ I \in [Units -> Record] /\ AllHeld(I) /\ AllBackedBut(I, t)
        /\ \A v \in Units : I[v].state = inst[v].state /\ I[v].child = inst[v].child
    BY <2>2, PoppedHolds
  <2>5. a \in Record /\ a.state = I[t].state /\ a.child = I[t].child /\ Held(t, a)
    BY <2>2, <2>4, ArmedFacts, ArmedBacks, ArmedHolds DEF AllHeld
  <2>6. \/ (inst' = I \/ inst' = J) /\ pending' = pending
        \/ /\ Idle(J[u])
           /\ \E ok \in StartOutcome(u) : inst' = Started(J, u, ok)
           /\ pending' = StillQueued(J, u)
    BY <2>3
  <2> HIDE DEF a, u
  <2>7. J[t] = a /\ \A v \in Units \ {t} : J[v] = I[v]
    BY <2>2, <2>4, <2>5
  <2>8. J \in [Units -> Record]
    BY <2>4, <2>5
  <2> HIDE DEF J
  <2>9. \A v \in Units : J[v].state = inst[v].state /\ J[v].child = inst[v].child
    BY <2>2, <2>4, <2>5, <2>7
  <2>10. AllHeld(J) /\ AllBackedBut(J, u)
    BY <2>2, <2>4, <2>5, <2>7 DEF AllHeld, AllBackedBut, Services
  <2>11. CASE (inst' = I \/ inst' = J) /\ pending' = pending
    BY <2>4, <2>9, <2>10, <2>11, SameSole DEF TypeOK
  <2>12. CASE /\ Idle(J[u])
              /\ \E ok \in StartOutcome(u) : inst' = Started(J, u, ok)
              /\ pending' = StillQueued(J, u)
    <3>1. J[u].child = "none"
      BY <2>2, <2>9, <2>12, IdleHasNoChild DEF Idle
    <3>2. pending' \subseteq pending
      BY <2>12 DEF StillQueued
    <3>3. \A v \in Units \ {u} : Idle(inst[v]) => Idle(J[v])
      BY <2>9 DEF Idle
    <3> QED BY <2>2, <2>8, <2>10, <2>12, <3>1, <3>2, <3>3, StartSole
  <2> QED BY <2>6, <2>11, <2>12
<1> QED BY <1>1, <1>2

(* A stop requested of a unit leaves it stopping, or down with no process.   *)
LEMMA RequestSole ==
    ASSUME TypeOK, Sole, AllBacked(inst), NEW u \in Units,
           HandleStop(u) \/ HandleRestart(u)
    PROVE  Sole'
<1> DEFINE s == StopUnit(u, inst[u], "Requested")
           J == [inst EXCEPT ![u] = s]
<1>1. /\ AllBacked(J) /\ s \in Record /\ inst \in [Units -> Record]
  <2>1. "Requested" \in StopCause /\ inst[u] \in Record
    BY DEF StopCause, TypeOK
  <2> QED BY <2>1, StopRequestBacks, StopUnitFacts DEF TypeOK
<1>2. Held(u, s)
  <2>1. "Requested" \in StopCause /\ inst[u] \in Record
    BY DEF StopCause, TypeOK
  <2> QED BY <2>1, StopHolds DEF Sole, AllHeld, AllBacked, Backed
<1>3. \/ inst' = J /\ pending' = pending \ {u}
      \/ /\ Idle(J[u])
         /\ \E ok \in StartOutcome(u) : inst' = Started(J, u, ok)
         /\ pending' = StillQueued(J, u) \ {u}
  BY DEF HandleStop, HandleRestart
<1> HIDE DEF s
<1>4. J[u] = s /\ J \in [Units -> Record] /\ \A v \in Units \ {u} : J[v] = inst[v]
  BY <1>1
<1>5. CASE inst' = J /\ pending' = pending \ {u}
  BY <1>2, <1>5, SetSole
<1>6. CASE /\ Idle(J[u])
           /\ \E ok \in StartOutcome(u) : inst' = Started(J, u, ok)
           /\ pending' = StillQueued(J, u) \ {u}
  <2> HIDE DEF J
  <2>1. AllHeld(J) /\ AllBackedBut(J, u)
    BY <1>1, <1>2, <1>4 DEF Sole, AllHeld, AllBacked, AllBackedBut
  <2>2. J[u].child = "none"
    BY <1>1, <1>2, <1>4, <1>6 DEF AllBacked, Backed, Tended, Held, Idle
  <2>3. pending' \subseteq pending /\ u \notin pending'
    BY <1>6 DEF StillQueued
  <2> QED BY <1>4, <1>6, <2>1, <2>2, <2>3, StartSole
<1> QED BY <1>3, <1>5, <1>6

LEMMA PumpOneSole ==
    ASSUME TypeOK, Sole, AllBacked(inst), PumpOne
    PROVE  Sole'
<1>1. PICK i \in DOMAIN Order :
         /\ Order[i] \in pending
         /\ \/ /\ inst' = [inst EXCEPT ![Order[i]] = FailedToStart(inst[Order[i]])]
               /\ pending' = pending \ {Order[i]}
            \/ /\ \E ok \in StartOutcome(Order[i]) : inst' = Started(inst, Order[i], ok)
               /\ pending' = StillQueued(inst, Order[i]) \ {Order[i]}
  BY DEF PumpOne, NextStartable
<1> DEFINE u == Order[i]
           n == NoChild(inst[u])
           f == FailedToStart(inst[u])
<1>2. u \in Units /\ u \in pending /\ inst \in [Units -> Record]
  BY <1>1, OrderedUnit DEF TypeOK
<1>3. \/ inst' = [inst EXCEPT ![u] = f] /\ pending' = pending \ {u}
      \/ /\ \E ok \in StartOutcome(u) : inst' = Started(inst, u, ok)
         /\ pending' = StillQueued(inst, u) \ {u}
  BY <1>1
<1> HIDE DEF u
<1>4. inst[u].child = "none" /\ Held(u, inst[u]) /\ inst[u] \in Record
  BY <1>2, IdleHasNoChild DEF Sole, AllHeld
<1>5. n \in Record /\ Held(u, n)
  BY <1>2, <1>4, NoChildFacts, NoChildHolds
<1>6. f.child = n.child /\ f.others = n.others /\ f.emptied = n.emptied
  BY <1>5 DEF FailedToStart, Record
<1> HIDE DEF n, f
<1>7. Held(u, f)
  BY <1>5, <1>6, HeldByFields
<1>8. CASE inst' = [inst EXCEPT ![u] = f] /\ pending' = pending \ {u}
  BY <1>2, <1>7, <1>8, SetSole
<1>9. CASE /\ \E ok \in StartOutcome(u) : inst' = Started(inst, u, ok)
           /\ pending' = StillQueued(inst, u) \ {u}
  <2>1. pending' \subseteq pending /\ u \notin pending'
    BY <1>9 DEF StillQueued
  <2>2. AllHeld(inst) /\ AllBackedBut(inst, u)
    BY DEF Sole, AllBacked, AllBackedBut
  <2> QED BY <1>2, <1>4, <1>9, <2>1, <2>2, StartSole
<1> QED BY <1>3, <1>8, <1>9

LEMMA BeginShutdownSole ==
    ASSUME TypeOK, Sole, AllBacked(inst), NEW a \in Actions, BeginShutdown(a)
    PROVE  Sole'
<1>1. inst' = [u \in Units |-> StopUnit(u, inst[u], "Requested")] /\ pending' = {}
  BY DEF BeginShutdown
<1>2. ASSUME NEW u \in Units
      PROVE  Held(u, StopUnit(u, inst[u], "Requested"))
  <2>1. "Requested" \in StopCause /\ inst[u] \in Record
    BY DEF StopCause, TypeOK
  <2> QED BY <2>1, StopHolds DEF Sole, AllHeld, AllBacked, Backed
<1>3. AllHeld(inst')
  BY <1>1, <1>2 DEF AllHeld
<1> QED BY <1>1, <1>3, SameSole

LEMMA MovesSole ==
    ASSUME TypeOK, Sole, NEW u \in Units, NEW r \in Record, Moves(u, r), Held(u, r),
           r.state = inst[u].state
    PROVE  Sole'
<1> DEFINE d == Departed(u, r)
<1>1. inst' = [inst EXCEPT ![u] = d] /\ pending' = pending
  BY DEF Moves
<1>2. /\ d.state = r.state /\ d.child = r.child /\ d.others = r.others
      /\ d.emptied = (r.emptied \/ (Populated(u, inst[u]) /\ ~Populated(u, r)))
  BY DEF Departed, Record
<1> HIDE DEF d
<1>3. Held(u, d)
  BY <1>2 DEF Held, Populated
<1>4. u \in pending => Idle(d)
  BY <1>2 DEF Sole, Idle
<1> QED BY <1>1, <1>3, <1>4, SetSole

LEMMA ProcessSole ==
    ASSUME TypeOK, Sole, Undisturbed, NEW u \in Units,
           \/ MainExits(u) \/ OtherExits(u) \/ MainIsKilled(u) \/ OthersAreKilled(u)
           \/ MainForks(u) \/ MainRoams(u) \/ SendsReady(u)
    PROVE  Sole'
<1> DEFINE old == inst[u]
<1>1. old \in Record /\ Held(u, old)
  BY DEF TypeOK, Sole, AllHeld
<1>2. ASSUME NEW c \in Exit, old.child \in Live, Moves(u, [old EXCEPT !.child = c])
      PROVE  Sole'
  <2> DEFINE r == [old EXCEPT !.child = c]
  <2>1. /\ r \in Record /\ r.child = c /\ r.others = old.others
        /\ r.emptied = old.emptied /\ r.state = old.state
    BY <1>1, <1>2 DEF Record, Child
  <2>2. c # "away" /\ old.child # "none"
    BY <1>2 DEF Exit, Live
  <2> HIDE DEF r
  <2>3. Held(u, r)
    BY <1>1, <2>1, <2>2 DEF Held
  <2> QED BY <1>2, <2>1, <2>3, MovesSole DEF r
<1>3. ASSUME NEW p \in SUBSET (old.others \cup {"kid"}), Moves(u, [old EXCEPT !.others = p])
      PROVE  Sole'
  <2> DEFINE r == [old EXCEPT !.others = p]
  <2>1. /\ r \in Record /\ r.child = old.child /\ r.others = p
        /\ r.emptied = old.emptied /\ r.state = old.state
    BY <1>1, <1>3 DEF Record, Other
  <2> HIDE DEF r
  <2>2. Held(u, r)
    BY <1>1, <2>1 DEF Held
  <2> QED BY <1>3, <2>1, <2>2, MovesSole DEF r
<1>4. ASSUME Moves(u, [old EXCEPT !.ready = TRUE])
      PROVE  Sole'
  <2> DEFINE r == [old EXCEPT !.ready = TRUE]
  <2>1. /\ r \in Record /\ r.child = old.child /\ r.others = old.others
        /\ r.emptied = old.emptied /\ r.state = old.state
    BY <1>1 DEF Record
  <2> HIDE DEF r
  <2>2. Held(u, r)
    BY <1>1, <2>1 DEF Held
  <2> QED BY <1>4, <2>1, <2>2, MovesSole DEF r
<1>5. Outcomes[u] \subseteq Exit /\ "Abnormal" \in Exit
  BY UnitsAssumption DEF Exit
<1>6. CASE MainExits(u)
  <2>1. PICK how \in Outcomes[u] : Moves(u, [old EXCEPT !.child = how])
    BY <1>6 DEF MainExits, Killed
  <2> QED BY <1>2, <1>5, <1>6, <2>1 DEF MainExits
<1>7. CASE OtherExits(u)
  <2>1. PICK p \in old.others : Moves(u, [old EXCEPT !.others = old.others \ {p}])
    BY <1>7 DEF OtherExits
  <2> QED BY <2>1, <1>3
<1>8. CASE MainIsKilled(u)
  BY <1>2, <1>5, <1>8 DEF MainIsKilled
<1>9. CASE OthersAreKilled(u)
  <2>1. old.others \cap {"away"} \in SUBSET (old.others \cup {"kid"})
    OBVIOUS
  <2> QED BY <1>3, <1>9, <2>1 DEF OthersAreKilled
<1>10. CASE MainForks(u)
  BY <1>3, <1>10 DEF MainForks
<1>11. CASE MainRoams(u)
  BY <1>11 DEF MainRoams, Undisturbed
<1>12. CASE SendsReady(u)
  BY <1>4, <1>12 DEF SendsReady
<1> QED BY <1>6, <1>7, <1>8, <1>9, <1>10, <1>11, <1>12

LEMMA StepSole ==
    ASSUME TypeOK, Sole, AllBacked(inst), Undisturbed, [Next]_vars
    PROVE  Sole'
<1>1. CASE \E u \in Units : OnSigchld(u) \/ OnNotify(u) \/ OnCgroup(u)
  BY <1>1, OnSigchldSole, OnNotifySole, OnCgroupSole
<1>2. CASE \E u \in Units : \/ OnRestart(u) \/ StartTimedOut(u)
                            \/ StopTimeoutElapsed(u) \/ CheckWatchdog(u)
  BY <1>2, AlarmSole
<1>3. CASE \/ \E t \in DOMAIN Activates \ Sockets : TimerElapsed(t)
           \/ \E s \in Sockets : OnSocket(s)
  BY <1>3, ActivationSole
<1>4. CASE \E a \in Actions : BeginShutdown(a)
  BY <1>4, BeginShutdownSole
<1>5. CASE Control
  BY <1>5, RequestSole DEF Control, HandleStart, Request, Undisturbed
<1>6. CASE PumpOne
  BY <1>6, PumpOneSole
<1>7. CASE \E u \in Units :
              \/ MainExits(u) \/ OtherExits(u) \/ MainIsKilled(u)
              \/ OthersAreKilled(u) \/ MainForks(u) \/ MainRoams(u) \/ SendsReady(u)
  BY <1>7, ProcessSole
<1>8. CASE \/ EndTurn \/ DeadlinePasses \/ UNCHANGED vars
           \/ \E s \in Sockets : Connects(s) \/ Accepts(s)
  <2>1. inst' = inst /\ pending' \subseteq pending
    BY <1>8 DEF EndTurn, DeadlinePasses, Connects, Accepts, vars
  <2> QED BY <2>1, SameSole DEF Sole
<1> QED BY <1>1, <1>2, <1>3, <1>4, <1>5, <1>6, <1>7, <1>8
        DEF Next, Handler, Environment

(* No start forks a main process beside one that still runs, if oxctl does   *)
(* not start what is up, no main process leaves its cgroup and what a socket *)
(* or timer starts is not also in the start queue: those are the ways two    *)
(* processes of one unit come about (start, is_idle, pump_pending).          *)
THEOREM OneMainProcess ==
    ASSUME Undisturbed
    PROVE  Spec => []OneProcess
<1>1. Init => Sole
  <2> SUFFICES ASSUME Init PROVE Sole
    OBVIOUS
  <2>1. \A u \in Units : Held(u, New) /\ Idle(New)
    BY DEF New, Held, Idle
  <2>2. Queue \subseteq Units
    BY OrderedUnit DEF Queue
  <2> QED BY <2>1, <2>2 DEF Init, Sole, AllHeld, Queue
<1>2. TypeOK /\ AllBacked(inst) /\ Sole /\ [Next]_vars => Sole'
  BY StepSole
<1>3. Sole => OneProcess
  BY DEF Sole, AllHeld, Held, OneProcess
<1> QED BY <1>1, <1>2, <1>3, TypeCorrect, EveryServiceBacked, PTL DEF Spec

-------------------------------------------------------------------------------
(* What a stop means.  What is being stopped is off the start queue, so      *)
(* nothing but an oxctl start brings it back before its end, and its end     *)
(* says whether it stays down.                                               *)

(* What is being stopped was taken off the start queue (stop).               *)
Dequeued == \A u \in Units : inst[u].state = "Deactivating" => u \notin pending

(* What a step may do to units that are being stopped: one goes on, or ends, *)
(* and then its restart is forgotten and, if it was asked for and nobody     *)
(* wants it back, the unit is down; one that begins is off the queue.        *)
StopGoesOn(v) ==
    inst[v].state = "Deactivating" =>
        \/ inst'[v].state = "Deactivating"
        \/ /\ v \notin pendingRestart'
           /\ inst[v].cause = "Requested" => v \in pendingRestart \/ inst'[v].state \in Down

KeepsStops ==
    /\ \A v \in pendingRestart' \ pendingRestart :
          v \in Services /\ inst'[v].state = "Deactivating"
    /\ \A v \in Services : StopGoesOn(v)

TakesOff ==
    /\ pending' \subseteq pending
    /\ \A v \in Units : inst'[v].state = "Deactivating" =>
                           inst[v].state = "Deactivating" \/ v \notin pending'

LEMMA StopUnitEnds ==
    ASSUME NEW u \in Units, NEW r \in Record, NEW cause \in StopCause
    PROVE  /\ ~Idle(StopUnit(u, r, cause)) =>
                 u \in Services /\ StopUnit(u, r, cause).state = "Deactivating"
           /\ u \in Services /\ r.state = "Deactivating" => StopUnit(u, r, cause) = r
<1> DEFINE s == StopUnit(u, r, cause)
           d == EnteredDeactivating(r, cause)
<1>1. s \in Record /\ s.state \in Halted
  BY StopUnitFacts
<1>2. CASE u \in Services
  BY <1>1, <1>2 DEF Idle, Halted, StopUnit, Services
<1>3. CASE u \notin Services
  <2>1. Kind[u] \notin ServiceType
    BY <1>3 DEF Services
  <2>2. d \in Record
    BY DeactivatingFacts
  <2> HIDE DEF d
  <2>3. Deactivated(d, "No").state \in Down
    BY <2>2, DeactivatedFacts
  <2>4. CASE r.state = "Restarting"
    <3>1. s.state = "Inactive"
      BY <2>4, CancelRestartFacts DEF StopUnit
    <3> QED BY <1>3, <3>1 DEF Idle
  <2>5. CASE r.state # "Restarting"
    <3>1. s = Deactivated(d, "No")
      BY <2>1, <2>5 DEF StopUnit, d
    <3> QED BY <1>3, <2>3, <3>1 DEF Idle, Down
  <2> QED BY <2>4, <2>5
<1> QED BY <1>2, <1>3

(* A start stops what it excludes, which it takes off the queue, and leaves  *)
(* every other stop in progress as it is.                                    *)
LEMMA StartedStops ==
    ASSUME NEW I \in [Units -> Record], NEW u \in Units, NEW ok
    PROVE  /\ \A v \in Services \ {u} :
                 I[v].state = "Deactivating" => Started(I, u, ok)[v] = I[v]
           /\ \A v \in Units : Started(I, u, ok)[v].state = "Deactivating" =>
                 I[v].state = "Deactivating" \/ v \notin StillQueued(I, u)
<1>1. CASE ShuttingDown
  BY <1>1 DEF Started
<1>2. CASE ~ShuttingDown
  <2> DEFINE J == Launched(I, u, ok)
  <2>1. "Requested" \in StopCause /\ Services \subseteq Units
    BY DEF StopCause, Services
  <2>2. ASSUME NEW v \in Units
        PROVE  J[v] = IF v = u THEN StartUnit(u, I[u], ok)
                      ELSE IF v \in Excluded(I, u) THEN StopUnit(v, I[v], "Requested")
                      ELSE I[v]
    BY DEF Launched
  <2>3. StillQueued(I, u) = pending \ Excluded(I, u) /\ Started(I, u, ok) = J
    BY <1>2 DEF StillQueued, Started
  <2> HIDE DEF J
  <2>4. StartUnit(u, I[u], ok).state # "Deactivating"
    <3>1. EnteredActivating(I[u]) \in Record /\ EnteredActive(I[u]) \in Record
      BY EnteredFacts
    <3>2. "StartTimeout" \in Alarm /\ "TimerElapsed" \in Alarm
      BY DEF Alarm
    <3>3. /\ EnteredActive(I[u]).state = "Active"
          /\ EnteredActive(EnteredActivating(I[u])).state = "Active"
          /\ Armed(EnteredActive(I[u]), "TimerElapsed").state = "Active"
          /\ Armed(EnteredActivating(I[u]), "StartTimeout").state = "Activating"
          /\ FailedToStart(I[u]).state = "Failed"
      BY <3>1, <3>2, EnteredFacts, ArmedFacts
    <3> QED BY <3>3 DEF StartUnit
  <2>5. ASSUME NEW v \in Services \ {u}, I[v].state = "Deactivating"
        PROVE  J[v] = I[v]
    BY <2>1, <2>2, <2>5, StopUnitEnds
  <2>6. ASSUME NEW v \in Units, J[v].state = "Deactivating"
        PROVE  I[v].state = "Deactivating" \/ v \notin pending \ Excluded(I, u)
    BY <2>2, <2>4, <2>6
  <2> QED BY <2>3, <2>5, <2>6
<1> QED BY <1>1, <1>2

LEMMA OutcomeStops ==
    ASSUME NEW I \in [Units -> Record], NEW u \in Units,
           \E ok \in StartOutcome(u) : inst' = Started(I, u, ok)
    PROVE  /\ \A v \in Services \ {u} : I[v].state = "Deactivating" => inst'[v] = I[v]
           /\ \A v \in Units : inst'[v].state = "Deactivating" =>
                 I[v].state = "Deactivating" \/ v \notin StillQueued(I, u)
           /\ StillQueued(I, u) \subseteq pending
<1>1. StillQueued(I, u) \subseteq pending
  BY DEF StillQueued
<1> QED BY <1>1, StartedStops

(* A stop that was asked for ends down.                                      *)
LEMMA DeactivatedStop ==
    ASSUME NEW r \in Record, NEW policy, r.cause = "Requested"
    PROVE  Deactivated(r, policy).state \in Down
<1> DEFINE d == [NoChild(r) EXCEPT !.killed = FALSE, !.cause = "None"]
<1>1. d \in Record
  <2>1. NoChild(r) \in Record
    BY NoChildFacts
  <2> QED BY <2>1 DEF Record
<1>2. Deactivated(r, policy) = [d EXCEPT !.state = IF r.killed THEN "Failed" ELSE "Inactive"]
  BY DEF Deactivated
<1> HIDE DEF d
<1> QED BY <1>1, <1>2 DEF Record, Down

(* finish_deactivation, with the start an oxctl restart is owed.             *)
LEMMA FinishStops ==
    ASSUME TypeOK, NEW u \in Units, NEW r \in Record,
           inst[u].state = "Deactivating", r.cause = inst[u].cause,
           FinishDeactivation([inst EXCEPT ![u] = r], u)
    PROVE  KeepsStops /\ TakesOff
<1> DEFINE I == [inst EXCEPT ![u] = r]
           d == Deactivated(r, Policy[u])
           e == RestartOrCancel(d)
           J == [I EXCEPT ![u] = e]
<1>1. inst \in [Units -> Record] /\ Services \subseteq Units
  BY DEF TypeOK, Services
<1>2. /\ I \in [Units -> Record] /\ I[u] = r
      /\ \A v \in Units \ {u} : I[v] = inst[v]
  BY <1>1
<1>3. d \in Record /\ d.state \in Halted \cup {"Restarting"}
      /\ (r.cause = "Requested" => d.state \in Down)
  BY DeactivatedFacts, DeactivatedStop DEF Down, Halted
<1>4. e \in Record /\ (r.cause = "Requested" => e.state \in Down)
  <2> HIDE DEF d
  <2> QED BY <1>3, RestartOrCancelFacts DEF RestartOrCancel, Down
<1>5. /\ pendingRestart' = pendingRestart \ {u}
      /\ IF u \in pendingRestart
         THEN /\ \E ok \in StartOutcome(u) : inst' = Started(J, u, ok)
              /\ pending' = StillQueued(J, u)
         ELSE inst' = J /\ pending' = pending
  BY <1>2 DEF FinishDeactivation, Forgotten
<1> HIDE DEF e, I
<1>6. /\ J \in [Units -> Record] /\ J[u] = e
      /\ \A v \in Units \ {u} : J[v] = inst[v]
  BY <1>2, <1>4
<1> HIDE DEF J
<1>7. CASE u \in pendingRestart
  <2>1. /\ \A v \in Services \ {u} : J[v].state = "Deactivating" => inst'[v] = J[v]
        /\ \A v \in Units : inst'[v].state = "Deactivating" =>
              J[v].state = "Deactivating" \/ v \notin pending'
        /\ pending' \subseteq pending
    BY <1>5, <1>6, <1>7, OutcomeStops
  <2> QED BY <1>1, <1>5, <1>6, <1>7, <2>1 DEF KeepsStops, StopGoesOn, TakesOff
<1>8. CASE u \notin pendingRestart
  BY <1>1, <1>2, <1>4, <1>5, <1>6, <1>8 DEF KeepsStops, StopGoesOn, TakesOff
<1> QED BY <1>7, <1>8

(* Steps that end no stop.                                                   *)
LEMMA NoStopEnds ==
    ASSUME pendingRestart' \subseteq pendingRestart, pending' \subseteq pending,
           \A v \in Services : inst[v].state = "Deactivating" =>
                                  inst'[v].state = "Deactivating",
           \A v \in Units : inst'[v].state = "Deactivating" =>
                               inst[v].state = "Deactivating" \/ v \notin pending'
    PROVE  KeepsStops /\ TakesOff
  BY DEF KeepsStops, StopGoesOn, TakesOff

LEMMA OneUnitStops ==
    ASSUME TypeOK, NEW u \in Units, NEW r, inst' = [inst EXCEPT ![u] = r],
           pendingRestart' = pendingRestart, pending' \subseteq pending,
           u \in Services /\ inst[u].state = "Deactivating" => r.state = "Deactivating",
           r.state = "Deactivating" => inst[u].state = "Deactivating" \/ u \notin pending'
    PROVE  KeepsStops /\ TakesOff
<1>1. inst'[u] = r /\ \A v \in Units \ {u} : inst'[v] = inst[v]
  BY DEF TypeOK
<1> QED BY <1>1, NoStopEnds DEF Services

(* A start of a unit that is not being stopped, from records in which every  *)
(* unit has the state it had.                                                *)
LEMMA StartingStops ==
    ASSUME TypeOK, NEW u \in Units, NEW I \in [Units -> Record],
           \A v \in Units : I[v].state = inst[v].state,
           inst[u].state # "Deactivating",
           \E ok \in StartOutcome(u) : inst' = Started(I, u, ok),
           pendingRestart' = pendingRestart, pending' \subseteq StillQueued(I, u)
    PROVE  KeepsStops /\ TakesOff
<1>1. /\ \A v \in Services \ {u} : I[v].state = "Deactivating" => inst'[v] = I[v]
      /\ \A v \in Units : inst'[v].state = "Deactivating" =>
            I[v].state = "Deactivating" \/ v \notin StillQueued(I, u)
      /\ StillQueued(I, u) \subseteq pending
  BY OutcomeStops
<1>2. \A v \in Services : inst[v].state = "Deactivating" => inst'[v].state = "Deactivating"
  BY <1>1 DEF Services
<1>3. \A v \in Units : inst'[v].state = "Deactivating" =>
                          inst[v].state = "Deactivating" \/ v \notin pending'
  BY <1>1
<1> QED BY <1>1, <1>2, <1>3, NoStopEnds

LEMMA EventStops ==
    ASSUME TypeOK, NEW u \in Units, OnSigchld(u) \/ OnNotify(u) \/ OnCgroup(u)
    PROVE  KeepsStops /\ TakesOff
<1>1. inst \in [Units -> Record] /\ inst[u] \in Record
  BY DEF TypeOK
<1>2. ASSUME NEW r \in Record, r.state \in Halted \cup {"Restarting"},
             r.state = "Deactivating" => inst[u].state = "Deactivating"
      PROVE  /\ RestartOrCancel(r).state = "Deactivating" => inst[u].state = "Deactivating"
             /\ r.state = "Deactivating" => RestartOrCancel(r) = r
  <2>1. "Restart" \in Alarm
    BY DEF Alarm
  <2> QED BY <1>2, <2>1, ArmedFacts, CancelRestartFacts DEF RestartOrCancel
<1>3. CASE OnSigchld(u)
  <2> DEFINE r == inst[u]
             oneshot == Kind[u] = "oneshot"
             exited == OnExit(r, Policy[u], oneshot, r.child)
  <2>1. r.child \in Exit /\ oneshot \in BOOLEAN
    BY <1>3 DEF OnSigchld
  <2>2. /\ exited \in Record
        /\ r.state = "Deactivating" =>
              exited.state = "Deactivating" /\ exited.cause = r.cause
        /\ r.state # "Deactivating" => exited.state \in Down \cup {"Restarting"}
    <3> HIDE DEF oneshot, r
    <3>1. r \in Record
      BY <1>1 DEF r
    <3>2. r.state = "Deactivating" =>
            OnExit(r, Policy[u], oneshot, r.child) = NoChild(r)
      BY <2>1, <3>1, ExitedHasNoChild
    <3> QED BY <2>1, <3>1, <3>2, OnExitFacts, NoChildBacks
  <2>3. \/ /\ r.state = "Activating"
           /\ inst' = [inst EXCEPT ![u] = ForkingParentExited(u, r)]
           /\ UNCHANGED <<pending, pendingRestart>>
        \/ /\ exited.state = "Deactivating"
           /\ FinishDeactivation([inst EXCEPT ![u] = exited], u)
        \/ /\ inst' = [inst EXCEPT ![u] = RestartOrCancel(exited)]
           /\ UNCHANGED <<pending, pendingRestart>>
    BY <1>3 DEF OnSigchld, ExitEndsStop
  <2> HIDE DEF exited
  <2>4. CASE r.state = "Activating"
             /\ inst' = [inst EXCEPT ![u] = ForkingParentExited(u, r)]
             /\ UNCHANGED <<pending, pendingRestart>>
    <3>1. ForkingParentExited(u, r).state # "Deactivating"
      BY <1>1, EnteredFacts DEF ForkingParentExited
    <3> QED BY <2>4, <3>1, OneUnitStops
  <2>5. CASE exited.state = "Deactivating"
             /\ FinishDeactivation([inst EXCEPT ![u] = exited], u)
    BY <2>2, <2>5, FinishStops DEF Down
  <2>6. CASE inst' = [inst EXCEPT ![u] = RestartOrCancel(exited)]
             /\ UNCHANGED <<pending, pendingRestart>>
    <3>1. /\ RestartOrCancel(exited).state = "Deactivating" => r.state = "Deactivating"
          /\ r.state = "Deactivating" => RestartOrCancel(exited).state = "Deactivating"
      BY <1>2, <2>2 DEF Down, Halted
    <3> QED BY <2>6, <3>1, OneUnitStops
  <2> QED BY <2>3, <2>4, <2>5, <2>6
<1>4. CASE OnNotify(u)
  <2> DEFINE r  == [inst[u] EXCEPT !.ready = FALSE]
             up == EnteredActive(r)
             n  == IF r.state # "Activating" THEN r
                   ELSE IF u \in Watched THEN Armed(up, "WatchdogCheck") ELSE up
  <2>1. inst' = [inst EXCEPT ![u] = n] /\ UNCHANGED <<pending, pendingRestart>>
    BY <1>4 DEF OnNotify
  <2>2. r \in Record /\ r.state = inst[u].state /\ "WatchdogCheck" \in Alarm
    BY <1>1 DEF Record, Alarm
  <2> HIDE DEF r
  <2>3. n.state = "Deactivating" <=> inst[u].state = "Deactivating"
    BY <2>2, EnteredFacts, ArmedFacts
  <2> HIDE DEF n
  <2> QED BY <2>1, <2>3, OneUnitStops
<1>5. CASE OnCgroup(u)
  <2> DEFINE r    == [inst[u] EXCEPT !.emptied = FALSE]
             gone == OnExit(r, Policy[u], FALSE, "Abnormal")
             e    == IF gone.state = "Restarting" THEN Armed(gone, "Restart") ELSE gone
  <2>1. r \in Record /\ r.state = inst[u].state /\ r.cause = inst[u].cause
    BY <1>1 DEF Record
  <2>2. \/ r.state = "Deactivating" /\ FinishDeactivation([inst EXCEPT ![u] = r], u)
        \/ /\ r.state = "Active" /\ inst' = [inst EXCEPT ![u] = e]
           /\ UNCHANGED <<pending, pendingRestart>>
        \/ inst' = [inst EXCEPT ![u] = r] /\ UNCHANGED <<pending, pendingRestart>>
    BY <1>5 DEF OnCgroup
  <2> HIDE DEF r
  <2>3. CASE r.state = "Deactivating" /\ FinishDeactivation([inst EXCEPT ![u] = r], u)
    BY <2>1, <2>3, FinishStops
  <2>4. CASE /\ r.state = "Active" /\ inst' = [inst EXCEPT ![u] = e]
             /\ UNCHANGED <<pending, pendingRestart>>
    <3>1. "Abnormal" \in Exit /\ FALSE \in BOOLEAN /\ "Restart" \in Alarm
      BY DEF Exit, Alarm
    <3>2. gone \in Record /\ gone.state \in Down \cup {"Restarting"}
      BY <2>1, <2>4, <3>1, OnExitFacts
    <3> HIDE DEF gone
    <3>3. e.state # "Deactivating"
      BY <3>1, <3>2, ArmedFacts DEF Down
    <3> HIDE DEF e
    <3> QED BY <2>1, <2>4, <3>3, OneUnitStops
  <2>5. CASE inst' = [inst EXCEPT ![u] = r] /\ UNCHANGED <<pending, pendingRestart>>
    BY <2>1, <2>5, OneUnitStops
  <2> QED BY <2>2, <2>3, <2>4, <2>5
<1> QED BY <1>3, <1>4, <1>5

LEMMA AlarmStops ==
    ASSUME TypeOK, NEW u \in Units,
           \/ OnRestart(u) \/ StartTimedOut(u) \/ StopTimeoutElapsed(u)
           \/ CheckWatchdog(u)
    PROVE  KeepsStops /\ TakesOff
<1>1. \A k \in {"Restart", "StartTimeout", "StopTimeout", "WatchdogCheck"} : k \in Alarm
  BY DEF Alarm
<1>2. "Watchdog" \in StopCause /\ Services \subseteq Units
  BY DEF StopCause, Services
<1>3. ASSUME NEW k \in Alarm, NEW I \in Popped(k, u)
      PROVE  I \in [Units -> Record] /\ \A v \in Units : I[v].state = inst[v].state
  BY PoppedSteady DEF TypeOK, Steady
<1>4. ASSUME NEW k \in Alarm, NEW I \in Popped(k, u), inst' = I,
             UNCHANGED <<pending, pendingRestart>>
      PROVE  KeepsStops /\ TakesOff
  BY <1>2, <1>3, <1>4, NoStopEnds
<1>5. ASSUME NEW k \in Alarm, NEW I \in Popped(k, u),
             inst' = [I EXCEPT ![u] = StopUnit(u, I[u], "Watchdog")],
             pending' = pending \ {u}, UNCHANGED pendingRestart
      PROVE  KeepsStops /\ TakesOff
  <2>1. I \in [Units -> Record] /\ \A v \in Units : I[v].state = inst[v].state
    BY <1>3
  <2>2. /\ inst'[u] = StopUnit(u, I[u], "Watchdog")
        /\ \A v \in Units \ {u} : inst'[v] = I[v]
    BY <1>5, <2>1
  <2>3. u \in Services /\ I[u].state = "Deactivating" => inst'[u] = I[u]
    BY <1>2, <2>1, <2>2, StopUnitEnds
  <2> QED BY <1>2, <1>5, <2>1, <2>2, <2>3, NoStopEnds
<1>6. CASE OnRestart(u)
  <2>1. PICK I \in Popped("Restart", u) :
           IF StillRestarting(I[u])
           THEN /\ \E ok \in StartOutcome(u) : inst' = Started(I, u, ok)
                /\ pending' = StillQueued(I, u)
           ELSE inst' = I /\ UNCHANGED pending
    BY <1>6 DEF OnRestart
  <2>2. pendingRestart' = pendingRestart
    BY <1>6 DEF OnRestart
  <2>3. I \in [Units -> Record] /\ \A v \in Units : I[v].state = inst[v].state
    BY <1>1, <1>3
  <2> QED BY <1>1, <1>4, <2>1, <2>2, <2>3, StartingStops DEF StillRestarting
<1>7. CASE StartTimedOut(u)
  BY <1>1, <1>4, <1>5, <1>7 DEF StartTimedOut
<1>8. CASE StopTimeoutElapsed(u)
  <2>1. PICK I \in Popped("StopTimeout", u) :
           inst' = IF I[u].state = "Deactivating"
                   THEN [I EXCEPT ![u] = StopTimedOut(I[u])] ELSE I
    BY <1>8 DEF StopTimeoutElapsed
  <2>2. UNCHANGED <<pending, pendingRestart>>
    BY <1>8 DEF StopTimeoutElapsed
  <2>3. I \in [Units -> Record] /\ \A v \in Units : I[v].state = inst[v].state
    BY <1>1, <1>3
  <2>4. StopTimedOut(I[u]).state = I[u].state
    BY <2>3 DEF StopTimedOut, Record
  <2>5. \A v \in Units : inst'[v].state = inst[v].state
    BY <2>1, <2>3, <2>4
  <2> QED BY <1>2, <2>2, <2>5, NoStopEnds
<1>9. CASE CheckWatchdog(u)
  <2>1. PICK I \in Popped("WatchdogCheck", u) :
           IF I[u].state = "Active"
           THEN \/ /\ inst' = [I EXCEPT ![u] = CheckedAgain(I[u])]
                   /\ UNCHANGED pending
                \/ /\ inst' = [I EXCEPT ![u] = StopUnit(u, I[u], "Watchdog")]
                   /\ pending' = pending \ {u}
           ELSE inst' = I /\ UNCHANGED pending
    BY <1>9 DEF CheckWatchdog
  <2>2. UNCHANGED pendingRestart
    BY <1>9 DEF CheckWatchdog
  <2>3. I \in [Units -> Record] /\ \A v \in Units : I[v].state = inst[v].state
    BY <1>1, <1>3
  <2>4. CASE inst' = [I EXCEPT ![u] = CheckedAgain(I[u])] /\ UNCHANGED pending
    <3>1. CheckedAgain(I[u]).state = I[u].state
      BY <1>1, <2>3, ArmedFacts DEF CheckedAgain
    <3>2. \A v \in Units : inst'[v].state = inst[v].state
      BY <2>3, <2>4, <3>1
    <3> QED BY <1>2, <2>2, <2>4, <3>2, NoStopEnds
  <2> QED BY <1>1, <1>4, <1>5, <2>1, <2>2, <2>4
<1> QED BY <1>6, <1>7, <1>8, <1>9

LEMMA ActivationStops ==
    ASSUME TypeOK,
           \/ \E t \in DOMAIN Activates \ Sockets : TimerElapsed(t)
           \/ \E s \in Sockets : OnSocket(s)
    PROVE  KeepsStops /\ TakesOff
<1>1. CASE \E s \in Sockets : OnSocket(s)
  <2>1. PICK s \in Sockets : OnSocket(s)
    BY <1>1
  <2> DEFINE u == Activates[s]
  <2>2. u \in Units /\ inst \in [Units -> Record]
    BY UnitsAssumption DEF Sockets, Services, TypeOK
  <2>3. CASE Idle(inst[u])
    <3>1. /\ \E ok \in StartOutcome(u) : inst' = Started(inst, u, ok)
          /\ pending' = StillQueued(inst, u) /\ pendingRestart' = pendingRestart
          /\ inst[u].state # "Deactivating"
      BY <2>1, <2>3 DEF OnSocket, Idle
    <3> HIDE DEF u
    <3> QED BY <2>2, <3>1, StartingStops
  <2>4. CASE ~Idle(inst[u])
    <3>1. UNCHANGED <<inst, pending, pendingRestart>>
      BY <2>1, <2>4 DEF OnSocket
    <3> QED BY <3>1, NoStopEnds
  <2> QED BY <2>3, <2>4
<1>2. CASE \E t \in DOMAIN Activates \ Sockets : TimerElapsed(t)
  <2>1. PICK t \in DOMAIN Activates \ Sockets : TimerElapsed(t)
    BY <1>2
  <2> DEFINE u == Activates[t]
  <2>2. t \in Units /\ u \in Units /\ "TimerElapsed" \in Alarm /\ Services \subseteq Units
    BY UnitsAssumption DEF Services, Alarm
  <2>3. PICK I \in Popped("TimerElapsed", t), again \in BOOLEAN :
           LET J == [I EXCEPT ![t] = IF again THEN Armed(I[t], "TimerElapsed") ELSE I[t]]
           IN  IF ShuttingDown THEN inst' = I /\ UNCHANGED pending
               ELSE IF ~Idle(J[u]) THEN inst' = J /\ UNCHANGED pending
               ELSE /\ \E ok \in StartOutcome(u) : inst' = Started(J, u, ok)
                    /\ pending' = StillQueued(J, u)
    BY <2>1 DEF TimerElapsed
  <2>4. pendingRestart' = pendingRestart
    BY <2>1 DEF TimerElapsed
  <2> DEFINE a == IF again THEN Armed(I[t], "TimerElapsed") ELSE I[t]
             J == [I EXCEPT ![t] = a]
  <2>5. I \in [Units -> Record] /\ \A v \in Units : I[v].state = inst[v].state
    BY <2>2, PoppedSteady DEF TypeOK, Steady
  <2>6. a \in Record /\ a.state = I[t].state
    BY <2>2, <2>5, ArmedFacts
  <2>7. \/ (inst' = I \/ inst' = J) /\ UNCHANGED pending
        \/ /\ Idle(J[u])
           /\ \E ok \in StartOutcome(u) : inst' = Started(J, u, ok)
           /\ pending' = StillQueued(J, u)
    BY <2>3
  <2> HIDE DEF a, u
  <2>8. J \in [Units -> Record] /\ \A v \in Units : J[v].state = inst[v].state
    BY <2>5, <2>6
  <2> HIDE DEF J
  <2>9. CASE (inst' = I \/ inst' = J) /\ UNCHANGED pending
    BY <2>2, <2>4, <2>5, <2>8, <2>9, NoStopEnds
  <2>10. CASE /\ Idle(J[u])
              /\ \E ok \in StartOutcome(u) : inst' = Started(J, u, ok)
              /\ pending' = StillQueued(J, u)
    BY <2>2, <2>4, <2>8, <2>10, StartingStops DEF Idle
  <2> QED BY <2>7, <2>9, <2>10
<1> QED BY <1>1, <1>2

LEMMA StopRequestStops ==
    ASSUME TypeOK, NEW u \in Units
    PROVE  LET s == StopUnit(u, inst[u], "Requested")
           IN  /\ s \in Record
               /\ ~Idle(s) => u \in Services /\ s.state = "Deactivating"
               /\ u \in Services /\ inst[u].state = "Deactivating" => s = inst[u]
<1>1. "Requested" \in StopCause /\ inst[u] \in Record
  BY DEF StopCause, TypeOK
<1> QED BY <1>1, StopUnitFacts, StopUnitEnds

LEMMA HandleStopStops ==
    ASSUME TypeOK, NEW u \in Units, HandleStop(u)
    PROVE  KeepsStops /\ TakesOff
<1> DEFINE s == StopUnit(u, inst[u], "Requested")
<1>1. /\ inst' = [inst EXCEPT ![u] = s]
      /\ pending' = pending \ {u} /\ pendingRestart' = pendingRestart
  BY DEF HandleStop
<1>2. u \in Services /\ inst[u].state = "Deactivating" => s.state = "Deactivating"
  BY StopRequestStops
<1> HIDE DEF s
<1> QED BY <1>1, <1>2, OneUnitStops

LEMMA HandleStartTakesOff ==
    ASSUME TypeOK, NEW u \in Units, HandleStart(u)
    PROVE  TakesOff
  BY OutcomeStops DEF HandleStart, TakesOff, TypeOK

(* A restart of a unit that stops at once starts it; of one that takes its   *)
(* time, is remembered with the stop in progress.                            *)
LEMMA HandleRestartStops ==
    ASSUME TypeOK, NEW u \in Units, HandleRestart(u)
    PROVE  KeepsStops /\ TakesOff
<1> DEFINE s == StopUnit(u, inst[u], "Requested")
           J == [inst EXCEPT ![u] = s]
<1>1. /\ s \in Record
      /\ ~Idle(s) => u \in Services /\ s.state = "Deactivating"
      /\ u \in Services /\ inst[u].state = "Deactivating" => s = inst[u]
  BY StopRequestStops
<1>2. inst \in [Units -> Record] /\ Services \subseteq Units
  BY DEF TypeOK, Services
<1>3. IF Idle(J[u])
      THEN /\ \E ok \in StartOutcome(u) : inst' = Started(J, u, ok)
           /\ pending' = StillQueued(J, u) \ {u}
           /\ UNCHANGED pendingRestart
      ELSE /\ inst' = J
           /\ pending' = pending \ {u}
           /\ pendingRestart' = pendingRestart \cup {u}
  BY DEF HandleRestart
<1> HIDE DEF s
<1>4. /\ J \in [Units -> Record] /\ J[u] = s
      /\ \A v \in Units \ {u} : J[v] = inst[v]
  BY <1>1, <1>2
<1> HIDE DEF J
<1>5. CASE Idle(s)
  <2>1. /\ \A v \in Services \ {u} : J[v].state = "Deactivating" => inst'[v] = J[v]
        /\ \A v \in Units : inst'[v].state = "Deactivating" =>
              J[v].state = "Deactivating" \/ v \notin StillQueued(J, u)
        /\ StillQueued(J, u) \subseteq pending
    BY <1>3, <1>4, <1>5, OutcomeStops
  <2>2. u \in Services => inst[u].state # "Deactivating"
    BY <1>1, <1>5 DEF Idle
  <2>3. /\ pendingRestart' = pendingRestart /\ pending' = StillQueued(J, u) \ {u}
    BY <1>3, <1>4, <1>5
  <2>4. KeepsStops
    BY <1>2, <1>4, <2>1, <2>2, <2>3 DEF KeepsStops, StopGoesOn
  <2>5. TakesOff
    BY <1>4, <2>1, <2>3 DEF TakesOff
  <2> QED BY <2>4, <2>5
<1>6. CASE ~Idle(s)
  <2>1. /\ inst' = J /\ pending' = pending \ {u}
        /\ pendingRestart' = pendingRestart \cup {u}
    BY <1>3, <1>4, <1>6
  <2>2. KeepsStops
    BY <1>1, <1>2, <1>4, <1>6, <2>1 DEF KeepsStops, StopGoesOn
  <2>3. TakesOff
    BY <1>4, <2>1 DEF TakesOff
  <2> QED BY <2>2, <2>3
<1> QED BY <1>5, <1>6

LEMMA PumpOneStops ==
    ASSUME TypeOK, Dequeued, PumpOne
    PROVE  KeepsStops /\ TakesOff
<1>1. PICK i \in DOMAIN Order :
         /\ Order[i] \in pending
         /\ \/ /\ inst' = [inst EXCEPT ![Order[i]] = FailedToStart(inst[Order[i]])]
               /\ pending' = pending \ {Order[i]}
            \/ /\ \E ok \in StartOutcome(Order[i]) : inst' = Started(inst, Order[i], ok)
               /\ pending' = StillQueued(inst, Order[i]) \ {Order[i]}
  BY DEF PumpOne, NextStartable
<1> DEFINE u == Order[i]
<1>2. u \in Units /\ inst \in [Units -> Record] /\ pendingRestart' = pendingRestart
  BY OrderedUnit DEF TypeOK, PumpOne
<1>3. inst[u].state # "Deactivating"
  BY <1>1, <1>2 DEF Dequeued
<1>4. u \in pending
      /\ \/ /\ inst' = [inst EXCEPT ![u] = FailedToStart(inst[u])]
            /\ pending' = pending \ {u}
         \/ /\ \E ok \in StartOutcome(u) : inst' = Started(inst, u, ok)
            /\ pending' = StillQueued(inst, u) \ {u}
  BY <1>1
<1> HIDE DEF u
<1>5. FailedToStart(inst[u]).state = "Failed"
  BY <1>2, EnteredFacts
<1> QED BY <1>2, <1>3, <1>4, <1>5, OneUnitStops, StartingStops

LEMMA OtherStops ==
    ASSUME TypeOK,
           \/ \E a \in Actions : BeginShutdown(a)
           \/ \E u \in Units :
                 \/ MainExits(u) \/ OtherExits(u) \/ MainIsKilled(u)
                 \/ OthersAreKilled(u) \/ MainForks(u) \/ MainRoams(u) \/ SendsReady(u)
           \/ EndTurn \/ DeadlinePasses \/ UNCHANGED vars
           \/ \E s \in Sockets : Connects(s) \/ Accepts(s)
    PROVE  KeepsStops /\ TakesOff
<1>1. inst \in [Units -> Record] /\ Services \subseteq Units
  BY DEF TypeOK, Services
<1>2. CASE \E a \in Actions : BeginShutdown(a)
  <2>1. /\ inst' = [u \in Units |-> StopUnit(u, inst[u], "Requested")]
        /\ pending' = {} /\ pendingRestart' = pendingRestart
    BY <1>2 DEF BeginShutdown
  <2>2. \A v \in Services : inst[v].state = "Deactivating" => inst'[v].state = "Deactivating"
    BY <1>1, <2>1, StopRequestStops
  <2> QED BY <2>1, <2>2, NoStopEnds
<1>3. ASSUME NEW u \in Units, NEW r, Moves(u, r), r.state = inst[u].state
      PROVE  KeepsStops /\ TakesOff
  <2> DEFINE d == Departed(u, r)
  <2>1. /\ inst' = [inst EXCEPT ![u] = d]
        /\ pending' = pending /\ pendingRestart' = pendingRestart
    BY <1>3 DEF Moves
  <2>2. d.state = inst[u].state
    BY <1>3 DEF Departed
  <2> HIDE DEF d
  <2> QED BY <2>1, <2>2, OneUnitStops
<1>4. CASE \E u \in Units :
                 \/ MainExits(u) \/ OtherExits(u) \/ MainIsKilled(u)
                 \/ OthersAreKilled(u) \/ MainForks(u) \/ MainRoams(u) \/ SendsReady(u)
  <2>1. PICK u \in Units :
                 \/ MainExits(u) \/ OtherExits(u) \/ MainIsKilled(u)
                 \/ OthersAreKilled(u) \/ MainForks(u) \/ MainRoams(u) \/ SendsReady(u)
    BY <1>4
  <2>2. \/ \E c : Moves(u, [inst[u] EXCEPT !.child = c])
        \/ \E p : Moves(u, [inst[u] EXCEPT !.others = p])
        \/ Moves(u, [inst[u] EXCEPT !.ready = TRUE])
    BY <2>1 DEF MainExits, OtherExits, MainIsKilled, OthersAreKilled, MainForks,
                MainRoams, SendsReady
  <2>3. /\ \A c : [inst[u] EXCEPT !.child = c].state = inst[u].state
        /\ \A p : [inst[u] EXCEPT !.others = p].state = inst[u].state
        /\ [inst[u] EXCEPT !.ready = TRUE].state = inst[u].state
    BY <1>1 DEF Record
  <2> QED BY <1>3, <2>2, <2>3
<1>5. CASE EndTurn
  BY <1>1, <1>5, NoStopEnds DEF EndTurn
<1>6. CASE DeadlinePasses \/ UNCHANGED vars \/ \E s \in Sockets : Connects(s) \/ Accepts(s)
  <2>1. UNCHANGED <<inst, pending, pendingRestart>>
    BY <1>6 DEF DeadlinePasses, Connects, Accepts, vars
  <2> QED BY <1>1, <2>1, NoStopEnds
<1> QED BY <1>2, <1>4, <1>5, <1>6

LEMMA StepStops ==
    ASSUME TypeOK, Dequeued, [Next]_vars
    PROVE  /\ TakesOff
           /\ KeepsStops \/ \E u \in Units : HandleStart(u)
<1>1. CASE \E u \in Units : OnSigchld(u) \/ OnNotify(u) \/ OnCgroup(u)
  BY <1>1, EventStops
<1>2. CASE \E u \in Units : \/ OnRestart(u) \/ StartTimedOut(u)
                            \/ StopTimeoutElapsed(u) \/ CheckWatchdog(u)
  BY <1>2, AlarmStops
<1>3. CASE \/ \E t \in DOMAIN Activates \ Sockets : TimerElapsed(t)
           \/ \E s \in Sockets : OnSocket(s)
  BY <1>3, ActivationStops
<1>4. CASE \E u \in Units : HandleStart(u)
  BY <1>4, HandleStartTakesOff
<1>5. CASE \E u \in Units : HandleStop(u) \/ HandleRestart(u)
  BY <1>5, HandleStopStops, HandleRestartStops
<1>6. CASE PumpOne
  BY <1>6, PumpOneStops
<1>7. CASE \/ \E a \in Actions : BeginShutdown(a)
           \/ \E u \in Units :
                 \/ MainExits(u) \/ OtherExits(u) \/ MainIsKilled(u)
                 \/ OthersAreKilled(u) \/ MainForks(u) \/ MainRoams(u) \/ SendsReady(u)
           \/ EndTurn \/ DeadlinePasses \/ UNCHANGED vars
           \/ \E s \in Sockets : Connects(s) \/ Accepts(s)
  BY <1>7, OtherStops
<1> QED BY <1>1, <1>2, <1>3, <1>4, <1>5, <1>6, <1>7
        DEF Next, Handler, Control, Environment

LEMMA StoppedIsDequeued == Spec => []Dequeued
<1>1. Init => Dequeued
  BY DEF Init, Dequeued, New
<1>2. TypeOK /\ Dequeued /\ [Next]_vars => Dequeued'
  <2> SUFFICES ASSUME TypeOK, Dequeued, [Next]_vars PROVE Dequeued'
    OBVIOUS
  <2>1. TakesOff
    BY StepStops
  <2> QED BY <2>1 DEF TakesOff, Dequeued
<1> QED BY <1>1, <1>2, TypeCorrect, PTL DEF Spec

(* A remembered restart always belongs to a stop in progress of a service,   *)
(* so a later stop is never turned into a start; only an oxctl start of a    *)
(* unit that is being stopped can part the two (restart_when_stopped).       *)
THEOREM RestartsPending ==
    ASSUME "start" \notin Requests
    PROVE  Spec => []RestartPending
<1> DEFINE Inv == \A u \in pendingRestart : u \in Services /\ inst[u].state = "Deactivating"
<1>1. Init => Inv
  BY DEF Init
<1>2. TypeOK /\ Dequeued /\ Inv /\ [Next]_vars => Inv'
  <2> SUFFICES ASSUME TypeOK, Dequeued, Inv, [Next]_vars PROVE Inv'
    OBVIOUS
  <2>1. KeepsStops
    BY StepStops DEF HandleStart, Request
  <2> QED BY <2>1 DEF KeepsStops, StopGoesOn
<1>3. Inv => RestartPending
  BY DEF RestartPending
<1> HIDE DEF Inv
<1> QED BY <1>1, <1>2, <1>3, TypeCorrect, StoppedIsDequeued, PTL DEF Spec

(* A requested stop ends down, whatever the restart policy, or in the start  *)
(* an oxctl restart is owed; only an oxctl start of a unit that is being     *)
(* stopped can end it otherwise (deactivated, finish_deactivation).          *)
THEOREM StopsOverridePolicy ==
    ASSUME "start" \notin Requests
    PROVE  Spec => StopOverridesPolicy
<1> DEFINE Ends == \A u \in Services :
              inst[u].state = "Deactivating" /\ inst[u].cause = "Requested" =>
                 \/ inst'[u].state \in {"Deactivating", "Inactive", "Failed"}
                 \/ u \in pendingRestart /\ u \notin pendingRestart'
<1>1. TypeOK /\ Dequeued /\ [Next]_vars => Ends
  <2> SUFFICES ASSUME TypeOK, Dequeued, [Next]_vars PROVE Ends
    OBVIOUS
  <2>1. KeepsStops
    BY StepStops DEF HandleStart, Request
  <2> QED BY <2>1 DEF KeepsStops, StopGoesOn, Down
<1>2. TypeOK /\ Dequeued /\ [Next]_vars => [Ends]_vars
  BY <1>1
<1> HIDE DEF Ends
<1>3. Spec => [][Ends]_vars
  BY <1>2, TypeCorrect, StoppedIsDequeued, PTL DEF Spec
<1> QED BY <1>3 DEF StopOverridesPolicy, Ends
=============================================================================
