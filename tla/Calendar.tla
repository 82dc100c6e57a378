------------------------------- MODULE Calendar -------------------------------
(***************************************************************************)
(* When a timer unit next elapses: crates/oxinit-timer/src/lib.rs.         *)
(*                                                                         *)
(* Moments are whole seconds since the epoch and delays whole seconds.  An *)
(* option is a set with at most one element.  The lengths of an hour and a *)
(* day are constants, so that a small instance has several of each.        *)
(***************************************************************************)
EXTENDS Integers

CONSTANTS Hour, Day

ASSUME CalendarAssumption ==
    /\ Hour \in Nat \ {0}
    /\ Day \in Nat \ {0}
    /\ Day % Hour = 0

Option(S) == {o \in SUBSET S : \A x, y \in o : x = y}

Week == 7 * Day

\* What parse accepts: three words, or a time of day that exists.
Calendars == [every : {"hourly", "daily", "weekly", "at"}, offset : 0..(Day - 1)]

RoundUp(now, step) == IF now % step = 0 THEN now ELSE now + (step - (now % step))

\* Faulty variant: the weeks of the epoch begin on the day it began.
WeekShift_None == 0

\* The epoch was a Thursday: a week that starts on Monday starts 4 days on.
WeekShift == Week - 4 * Day

\* The first moment at or after now that the calendar names.
NextAt(c, now) ==
    CASE c.every = "hourly" -> RoundUp(now, Hour)
      [] c.every = "daily"  -> RoundUp(now, Day)
      [] c.every = "weekly" -> RoundUp(now + WeekShift, Week) - WeekShift
      [] OTHER ->
            LET midnight == now - (now % Day)
            IN  IF midnight + c.offset >= now
                THEN midnight + c.offset ELSE midnight + Day + c.offset

-------------------------------------------------------------------------------
(* A schedule has a delay for the first firing, one for the others, and a   *)
(* calendar, each of them optional.  Its next firing is a delay on the      *)
(* monotonic clock or a moment on the wall clock.                           *)

Schedules ==
    [onBoot : Option(Nat), interval : Option(Nat), calendar : Option(Calendars)]

After(d) == [clock |-> "mono", when |-> d]

At(m) == [clock |-> "wall", when |-> m]

\* The moments strictly after now: one that has just fired is not named again.
CalendarAt(s, now) == {NextAt(c, now + 1) : c \in s.calendar}

\* Whichever comes first, on the clock it belongs to; the delay on a tie.
Sooner(delay, at, now) ==
    {After(d) : d \in {e \in delay : \A m \in at : now + e <= m}}
        \cup {At(m) : m \in {n \in at : \A d \in delay : now + d > n}}

FirstFiring(s, now) ==
    Sooner(IF s.onBoot # {} THEN s.onBoot ELSE s.interval, CalendarAt(s, now), now)

NextFiring(s, now) == Sooner(s.interval, CalendarAt(s, now), now)

\* A schedule that never runs out.
Repeats(s) == s.interval # {} \/ s.calendar # {}

-------------------------------------------------------------------------------
\* What the words mean, said without arithmetic on the result: Thursday is
\* day 4 of the epoch's first week and Monday is day 1.
Names(c, m) ==
    CASE c.every = "hourly" -> m % Hour = 0
      [] c.every = "daily"  -> m % Day = 0
      [] c.every = "weekly" -> m % Day = 0 /\ (m \div Day + 4) % 7 = 1
      [] OTHER              -> m % Day = c.offset
===============================================================================
