------------------------------- MODULE Instance -------------------------------
(***************************************************************************)
(* One unit's runtime state and the pure transitions on it: the state      *)
(* machine and restart policy of crates/oxinit-service/src/lib.rs.         *)
(*                                                                         *)
(* A unit is one record.  Five fields are the Instance struct; the others  *)
(* are what the rest of the system holds about that unit, kept beside them *)
(* so that a handler is one function from records to records:              *)
(*   state, child, cause, killed, reached   the Instance struct            *)
(*   others    live processes of the unit that no Child handle names       *)
(*   alarms    how many deadlines of each kind are in the timer heap       *)
(*   ready     a READY=1 from the tracked child waits on the notify socket *)
(*   emptied   the cgroup emptied and cgroup.events was not read since     *)
(*                                                                         *)
(* The backoff numbers (restarts, backoff, active_since), last_ping and    *)
(* status are left out: they decide how long a wait is and what is printed,*)
(* never which state comes next.                                           *)
(***************************************************************************)
EXTENDS Naturals

State == {"Inactive", "Activating", "Active", "Deactivating", "Failed", "Restarting"}

Exit == {"Clean", "Code", "Abnormal"}

Restart == {"No", "Always", "OnFailure", "OnAbnormal"}

StopCause == {"Requested", "Watchdog"}

\* Option<Child>: "none", a live process in its cgroup, one that moved out of
\* it, or one that exited this way and was not reaped yet.
Child == {"none", "in", "away"} \cup Exit

Live == {"in", "away"}

\* A worker or daemon the service forked, a main process whose handle was
\* dropped while it ran in the cgroup, and one dropped after it left the cgroup.
Other == {"kid", "lost", "away"}

Alarm == {"Restart", "StartTimeout", "StopTimeout", "WatchdogCheck", "TimerElapsed"}

Record ==
    [state : State, child : Child, others : SUBSET Other,
     cause : StopCause \cup {"None"}, killed : BOOLEAN, reached : BOOLEAN,
     alarms : [Alarm -> 0..2], ready : BOOLEAN, emptied : BOOLEAN]

New ==
    [state |-> "Inactive", child |-> "none", others |-> {}, cause |-> "None",
     killed |-> FALSE, reached |-> FALSE, alarms |-> [k \in Alarm |-> 0],
     ready |-> FALSE, emptied |-> FALSE]

Idle(r) == r.state \in {"Inactive", "Failed"}

\* Faulty variants: a start without start-sec, a stop without stop-sec.
Armed_NoStart(r, k) ==
    IF k = "StartTimeout" THEN r ELSE [r EXCEPT !.alarms[k] = IF @ = 0 THEN 1 ELSE 2]
Armed_NoStop(r, k) ==
    IF k = "StopTimeout" THEN r ELSE [r EXCEPT !.alarms[k] = IF @ = 0 THEN 1 ELSE 2]

\* The heap holds two alarms of a kind when one was armed while an older one
\* was still there; 2 stands for two or more.
Armed(r, k) == [r EXCEPT !.alarms[k] = IF @ = 0 THEN 1 ELSE 2]

-------------------------------------------------------------------------------
(* Transitions.  Dropping a Child handle does not end its process, and a    *)
(* READY=1 from a process that is no longer the child is not attributed.    *)

NoChild(r) ==
    [r EXCEPT !.child = "none", !.ready = FALSE,
              !.others = @ \cup (CASE r.child = "in"   -> {"lost"}
                                   [] r.child = "away" -> {"away"}
                                   [] OTHER            -> {})]

EnteredActivating(r) == [NoChild(r) EXCEPT !.child = "in", !.state = "Activating"]

FailedToStart(r) == [NoChild(r) EXCEPT !.state = "Failed"]

EnteredActive(r) == [r EXCEPT !.reached = TRUE, !.state = "Active"]

ForkedAway(r) == EnteredActive(NoChild(r))

EnteredDeactivating(r, cause) ==
    [r EXCEPT !.cause = cause, !.killed = FALSE, !.state = "Deactivating"]

StopTimedOut(r) == [r EXCEPT !.killed = TRUE]

CancelRestart(r) ==
    IF r.state = "Restarting" THEN [NoChild(r) EXCEPT !.state = "Inactive"] ELSE r

ShouldRestart(policy, exit) ==
    \/ policy = "Always"
    \/ policy = "OnFailure"  /\ exit # "Clean"
    \/ policy = "OnAbnormal" /\ exit = "Abnormal"

\* The state says whether the code returned a delay: Restarting, or not.
ScheduleRestart(r, policy, exit) ==
    [r EXCEPT !.state = IF ShouldRestart(policy, exit) THEN "Restarting"
                        ELSE IF exit = "Clean" THEN "Inactive" ELSE "Failed"]

\* Faulty variant: the policy applies whatever asked for the stop.
Deactivated_Policy(r, policy) ==
    ScheduleRestart([NoChild(r) EXCEPT !.killed = FALSE, !.cause = "None"],
                    policy, "Abnormal")

Deactivated(r, policy) ==
    LET d == [NoChild(r) EXCEPT !.killed = FALSE, !.cause = "None"]
    IN  IF r.cause = "Watchdog"
        THEN ScheduleRestart(d, policy, "Abnormal")
        ELSE [d EXCEPT !.state = IF r.killed THEN "Failed" ELSE "Inactive"]

\* Faulty variant: the handle of the exited process is kept.
OnExit_KeepsChild(r, policy, oneshot, exit) ==
    IF r.state = "Deactivating" THEN r ELSE ScheduleRestart(r, policy, exit)

OnExit(r, policy, oneshot, exit) ==
    LET d    == NoChild(r)
        done == oneshot /\ r.state = "Activating" /\ exit = "Clean"
    IN  IF r.state = "Deactivating"
        THEN d
        ELSE ScheduleRestart([d EXCEPT !.reached = @ \/ done], policy, exit)
===============================================================================
