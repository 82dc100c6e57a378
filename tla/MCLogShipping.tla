--------------------------- MODULE MCLogShipping ----------------------------
(* One service, two starts of it, and its output; oxlogd, which may die    *)
(* once; and one oddity more: another oxlogd run by hand, a registration   *)
(* or a write that fails, with output that stops at OddPieces.  A process  *)
(* of the first start may write beside the second, up to BesidePieces.     *)
EXTENDS LogShipping

CONSTANTS
    OddPieces,      \* bound: pieces written where something odd happens
    BesidePieces    \* bound: pieces written where starts overlap

MCNext ==
    /\ Next
    /\ odd' # "none" => \A u \in Units : sent'[u] <= OddPieces
    /\ \A u \in overlapped' : sent'[u] <= BesidePieces \/ sent'[u] = sent[u]

MCSpec ==
    /\ Init
    /\ [][MCNext]_vars
    /\ Fairness
=============================================================================
