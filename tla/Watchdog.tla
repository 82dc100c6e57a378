------------------------------- MODULE Watchdog -------------------------------
(***************************************************************************)
(* When to feed the hardware watchdog and when to stop: the settings and   *)
(* the Policy of crates/oxinit-watchdog/src/lib.rs, as operators.          *)
(*                                                                         *)
(* Two ticks are a second, so that half a timeout is a whole number of     *)
(* ticks.  An option is a set with at most one element.                    *)
(***************************************************************************)
EXTENDS Integers

CONSTANTS
    MaxTimeout,     \* the longest timeout the settings may ask for
    UnknownInterval \* how often to feed a device that hides its timeout

ASSUME WatchdogAssumption == MaxTimeout \in Nat /\ UnknownInterval \in Nat \ {0}

Least(S) == {x \in S : \A y \in S : x <= y}

-------------------------------------------------------------------------------
(* Settings: a file or the command line, key by key.  A source that does    *)
(* not parse, or that holds an unknown key, is Broken.                      *)

Broken == [broken |-> TRUE]

Unsaid == [broken |-> FALSE, timeout |-> {}, unit |-> FALSE, boot |-> {}]

\* The command line wins key by key.
Over(s, base) ==
    [broken |-> FALSE,
     timeout |-> IF s.timeout # {} THEN s.timeout ELSE base.timeout,
     unit |-> s.unit \/ base.unit,
     boot |-> IF s.boot # {} THEN s.boot ELSE base.boot]

\* The file under /etc replaces the vendor's whole; a broken source is an error.
Load(etc, vendor, cmdline) ==
    LET file == IF etc # {} THEN etc ELSE IF vendor # {} THEN vendor ELSE {Unsaid}
    IN  {IF s.broken \/ cmdline.broken THEN Broken ELSE Over(cmdline, s) : s \in file}

\* The policy to run: {} for no watchdog, and for a configuration in error.
Resolve(s) ==
    IF s.broken THEN {}
    ELSE LET deadline == s.boot \ {0}
         IN  {[timeout |-> t, boot |-> deadline] :
                 t \in {x \in s.timeout :
                          /\ x # 0 /\ x % 2 = 0 /\ x <= MaxTimeout
                          /\ deadline # {} => s.unit
                          /\ s.unit => s.boot # {}}}

-------------------------------------------------------------------------------
(* Policy                                                                   *)

BootState == {"Confirmed", "Pending", "Overdue"}

PetInterval(timeout) == timeout \div 2

NewPolicy(c) ==
    [config |-> c, boot |-> IF c.boot = {} THEN "Confirmed" ELSE "Pending",
     open |-> FALSE, interval |-> PetInterval(c.timeout),
     lastPet |-> {}, lastTry |-> {}, shuttingDown |-> FALSE]

\* applied is what the driver settled on, if it says.
Opened(p, now, applied) ==
    [p EXCEPT !.open = TRUE, !.lastPet = {now},
              !.interval = IF \E a \in applied : a > 0
                           THEN CHOOSE i \in {PetInterval(a) : a \in applied} : TRUE
                           ELSE UnknownInterval]

OpenFailed(p, now) == [p EXCEPT !.lastTry = {now}]

\* Faulty variant: the deadline is asked before the unit.
UpdateBoot_DeadlineFirst(p, now, booted) ==
    IF p.boot # "Pending" THEN p
    ELSE IF ~p.shuttingDown /\ \A d \in p.config.boot : now >= d
    THEN [p EXCEPT !.boot = "Overdue"]
    ELSE IF booted THEN [p EXCEPT !.boot = "Confirmed"] ELSE p

\* A unit that came up in the wake-up of the deadline came up in time.
UpdateBoot(p, now, booted) ==
    IF p.boot # "Pending" THEN p
    ELSE IF booted THEN [p EXCEPT !.boot = "Confirmed"]
    ELSE IF ~p.shuttingDown /\ \A d \in p.config.boot : now >= d
    THEN [p EXCEPT !.boot = "Overdue"]
    ELSE p

IsDue(p, last, now) == \A l \in last : now - l >= p.interval

\* Faulty variant: a starved device is fed again once its boot is over.
Action_FedAnyway(p, now) ==
    CASE ~p.open /\ IsDue(p, p.lastTry, now) -> "Open"
      [] p.open /\ IsDue(p, p.lastPet, now) -> "Pet"
      [] OTHER -> "Nothing"

\* What tick decides, for a policy whose boot is up to date.
Action(p, now) ==
    CASE ~p.open /\ IsDue(p, p.lastTry, now) -> "Open"
      [] p.open /\ p.boot # "Overdue" /\ IsDue(p, p.lastPet, now) -> "Pet"
      [] OTHER -> "Nothing"

\* tick records its decision as done.
Ticked(p, now) ==
    CASE Action(p, now) = "Open" -> [p EXCEPT !.lastTry = {now}]
      [] Action(p, now) = "Pet"  -> [p EXCEPT !.lastPet = {now}]
      [] OTHER -> p

\* Faulty variant: the device is no reason to wake.
NextWake_BootOnly(p, now) ==
    IF p.boot = "Pending" /\ ~p.shuttingDown THEN Least(p.config.boot) ELSE {}

\* The moment tick next has something to do, if it ever has.
NextWake(p, now) ==
    LET Interval(last) == IF last = {} THEN {now} ELSE {l + p.interval : l \in last}
    IN  Least((IF ~p.open THEN Interval(p.lastTry)
               ELSE IF p.boot # "Overdue" THEN Interval(p.lastPet) ELSE {})
              \cup (IF p.boot = "Pending" /\ ~p.shuttingDown THEN p.config.boot ELSE {}))

\* At the end of a shutdown: off is off, and a reboot is to be finished.
Release(reboot) == IF reboot THEN "KeepRunning" ELSE "Disarm"
===============================================================================
