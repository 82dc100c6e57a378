----------------------------- MODULE MCSupControl -----------------------------
(***************************************************************************)
(* Clients and conflicts: a socket that activates a forking service, which *)
(* forks and may be the only thing its cgroup tracks, and a simple service *)
(* that always restarts and that the forking one excludes.                 *)
(***************************************************************************)
EXTENDS Supervisor

mcUnits == {"sock", "web", "old"}

mcKind == [sock |-> "socket", web |-> "forking", old |-> "simple"]

mcPolicy == [sock |-> "No", web |-> "OnAbnormal", old |-> "Always"]

mcOrder == <<"sock", "old">>

mcNone == [u \in mcUnits |-> {}]

mcConflicts == [sock |-> {}, web |-> {"old"}, old |-> {}]

mcActivates == [sock |-> "web"]

mcOutcomes == [sock |-> {}, web |-> {"Clean", "Abnormal"}, old |-> {"Clean"}]
===============================================================================
