------------------------------- MODULE MCMainLoop -----------------------------
(***************************************************************************)
(* A machine with a watchdog of four ticks that may be there late, a boot  *)
(* deadline, and settings layered from files and the command line; and one *)
(* with two timer units, one of them on both clocks, and an alarm that is  *)
(* due at once.  An hour is two ticks and a day four; the clock starts     *)
(* shortly before a Monday.                                                *)
(***************************************************************************)
EXTENDS MainLoop

mcAt(offset) == {[every |-> "at", offset |-> offset]}

mcWord(word) == {[every |-> word, offset |-> 0]}

mcTimers == {"backup", "scrub"}

mcSchedule ==
    [backup |-> [onBoot |-> {}, interval |-> {}, calendar |-> mcAt(3)],
     scrub  |-> [onBoot |-> {1}, interval |-> {3}, calendar |-> mcWord("daily")]]

mcJobs == {"kill"}

mcJobDelay == [kill |-> 0]

mcFile == [broken |-> FALSE, timeout |-> {4}, unit |-> TRUE, boot |-> {3}]

mcEtcFiles == {{}, {mcFile}}

mcVendorFiles == {{}, {[Unsaid EXCEPT !.timeout = {4}]}}

mcCommandLines ==
    {Unsaid, Broken, [Unsaid EXCEPT !.timeout = {0}], [Unsaid EXCEPT !.boot = {0}],
     [Unsaid EXCEPT !.timeout = {3}]}

mcReplies == {[says |-> {4}, is |-> 4], [says |-> {6}, is |-> 6], [says |-> {}, is |-> 4]}

mcLeftRunning == {3}

mcActions == {"PowerOff", "Reboot"}

\* The two halves share the loop and the clock; one machine has one of them.
MCInit ==
    /\ Init
    /\ loaded = IF dog = {} /\ ~container THEN Owners ELSE {}
    /\ loaded # {} => asked = "PowerOff"

MCSpec == MCInit /\ [][Next]_vars
===============================================================================
