------------------------------ MODULE MCSupBoot -------------------------------
(***************************************************************************)
(* A boot: a target, a database that must signal readiness and is watched, *)
(* a service ordered after it and requiring it, whose cgroup could not be  *)
(* made, and a timer unit that starts that service, queued or not.         *)
(***************************************************************************)
EXTENDS Supervisor

mcUnits == {"base", "db", "app", "tick"}

mcKind == [base |-> "target", db |-> "notify", app |-> "simple", tick |-> "timer"]

mcPolicy == [base |-> "No", db |-> "OnFailure", app |-> "OnAbnormal", tick |-> "No"]

mcOrder == <<"base", "db", "app", "tick">>

mcAfter == [base |-> {}, db |-> {"base"}, app |-> {"db"}, tick |-> {"base"}]

mcRequires == [base |-> {}, db |-> {}, app |-> {"db"}, tick |-> {}]

mcConflicts == [u \in mcUnits |-> {}]

mcActivates == [tick |-> "app"]

mcOutcomes ==
    [base |-> {}, db |-> {"Code"}, app |-> {"Clean", "Abnormal"}, tick |-> {}]

\* The same boot with nothing but the queue to start the service.
mcQueueOnly == <<"base", "db", "app">>

(* "requires = [b] and after = [b]: b is started, must succeed, and must     *)
(* finish first" (docs/UNIT_FORMAT.md): the queue starts a unit only once    *)
(* what it requires and is ordered after has come up.                        *)
RequiredFirst ==
    \A u \in Units :
        inst[u].state \in {"Activating", "Active"} =>
            \A d \in Requires[u] \cap After[u] : inst[d].reached
===============================================================================
