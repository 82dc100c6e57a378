------------------------------- MODULE MCSupLive ------------------------------
(***************************************************************************)
(* Progress: a notify service that may never become ready, may move out of *)
(* its cgroup and may survive a SIGKILL, a socket queued behind it, and    *)
(* the oneshot that socket activates, whose stop ends with its cgroup.     *)
(***************************************************************************)
EXTENDS Supervisor

mcUnits == {"db", "sock", "web"}

mcKind == [db |-> "notify", sock |-> "socket", web |-> "oneshot"]

mcPolicy == [db |-> "No", sock |-> "No", web |-> "OnFailure"]

mcOrder == <<"db", "sock">>

mcAfter == [db |-> {}, sock |-> {"db"}, web |-> {}]

mcNone == [u \in mcUnits |-> {}]

mcActivates == [sock |-> "web"]

mcOutcomes == [db |-> {}, sock |-> {}, web |-> {"Clean", "Code"}]
===============================================================================
