------------------------------- MODULE MCSupOne -------------------------------
(***************************************************************************)
(* One simple service and the clients that ask for it.  "stopped" remembers *)
(* the units whose last accepted request was a stop; nothing else starts a *)
(* unit here, no socket, timer or queue.                                   *)
(***************************************************************************)
EXTENDS Supervisor

VARIABLE stopped

mcUnits == {"svc"}

mcKind == [svc |-> "simple"]

mcPolicy == [svc |-> "No"]

mcOrder == <<"svc">>

mcNone == [svc |-> {}]

mcActivates == [u \in {} |-> "svc"]

mcOutcomes == [svc |-> {"Clean"}]

Asked(u) == HandleStart(u) \/ HandleRestart(u)

AskedInit == Init /\ stopped = {}

AskedNext ==
    \/ \E u \in Units : HandleStop(u) /\ stopped' = stopped \cup {u}
    \/ \E u \in Units : Asked(u) /\ stopped' = stopped \ {u}
    \/ (Handler \/ PumpOne \/ EndTurn \/ Environment) /\ UNCHANGED stopped

AskedSpec == AskedInit /\ [][AskedNext]_<<vars, stopped>>

(* "An explicit stop stops the unit regardless of policy"                    *)
(* (docs/UNIT_FORMAT.md): a unit whose last request was a stop does not come *)
(* up again on its own.                                                      *)
StopHolds ==
    \A u \in stopped :
        inst[u].state \in {"Inactive", "Failed", "Deactivating"}
===============================================================================
