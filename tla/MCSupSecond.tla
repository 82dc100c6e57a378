------------------------------ MODULE MCSupSecond -----------------------------
(***************************************************************************)
(* A service that is both queued behind a slow one and activated by a      *)
(* socket.  No client asks for anything.                                   *)
(***************************************************************************)
EXTENDS Supervisor

mcUnits == {"db", "sock", "web"}

mcKind == [db |-> "notify", sock |-> "socket", web |-> "simple"]

mcPolicy == [u \in mcUnits |-> "No"]

mcOrder == <<"sock", "db", "web">>

mcAfter == [db |-> {}, sock |-> {}, web |-> {"db"}]

mcNone == [u \in mcUnits |-> {}]

mcActivates == [sock |-> "web"]

mcOutcomes == [db |-> {"Code"}, sock |-> {}, web |-> {"Clean"}]
===============================================================================
