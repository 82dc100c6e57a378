------------------------------ MODULE AlarmClock ------------------------------
(***************************************************************************)
(* What the deadlines of PID 1 promise, without timerfds, heaps or a loop: *)
(* a set of alarms, each for a moment of one of two clocks.  An alarm goes *)
(* off at its moment or later, once, and never before.  A clock set that   *)
(* nobody has been told of yet may cost an alarm of the wall clock, or let *)
(* it go off by the clock as it was; nothing else loses one.               *)
(***************************************************************************)
EXTENDS Integers

CONSTANT Alarms \* the alarms there can be: records with a clock and a moment

VARIABLES
    alarms,  \* the alarms that are set
    ringing, \* the alarms that have gone off and wait for their handler
    now,     \* the monotonic clock
    wall,    \* the wall clock
    unseen   \* the wall clock was set and nobody has been told

alarmVars == <<alarms, ringing, now, wall, unseen>>

Due(a) ==
    IF a.clock = "mono" THEN a.at <= now ELSE a.at <= wall \/ unseen

Init ==
    /\ alarms = {}
    /\ ringing = {}
    /\ now \in Nat
    /\ wall \in Nat
    /\ unseen = FALSE

TimePasses ==
    /\ now' = now + 1
    /\ wall' = wall + 1
    /\ UNCHANGED <<alarms, ringing, unseen>>

SetClock ==
    /\ wall' \in Nat \ {wall}
    /\ unseen' \in {unseen, TRUE}
    /\ UNCHANGED <<alarms, ringing, now>>

Notice == unseen' = FALSE /\ UNCHANGED <<alarms, ringing, now, wall>>

\* Due alarms leave the set for good.
GoOff ==
    /\ alarms' \subseteq alarms
    /\ \A a \in alarms \ alarms' : Due(a)
    /\ ringing' = ringing \cup (alarms \ alarms')
    /\ UNCHANGED <<now, wall, unseen>>

\* An alarm is set, by anything or by the handler of one that went off.
Set ==
    /\ alarms \subseteq alarms'
    /\ alarms' \subseteq Alarms
    /\ ringing' \subseteq ringing
    /\ unseen' \in {unseen, FALSE}
    /\ UNCHANGED <<now, wall>>

Lose ==
    /\ unseen
    /\ unseen' = FALSE
    /\ alarms' \subseteq alarms
    /\ \A a \in alarms \ alarms' : a.clock = "wall"
    /\ UNCHANGED <<ringing, now, wall>>

Next == TimePasses \/ SetClock \/ Notice \/ GoOff \/ Set \/ Lose

Spec == Init /\ [][Next]_alarmVars
===============================================================================
