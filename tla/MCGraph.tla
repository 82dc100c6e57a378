-------------------------------- MODULE MCGraph -------------------------------
(***************************************************************************)
(* Every after relation over three units, with what makes it interesting   *)
(* added: an ordering stated by before, the implicit edge of a socket, a   *)
(* conflict, a unit that is not installed (the root may be it), and the    *)
(* ways of pulling a unit in.  The root is neither the first nor the last  *)
(* of the names.                                                           *)
(***************************************************************************)
EXTENDS Graph

mcNames == 1..3

mcNone == [n \in mcNames |-> {}]

mcPair(a, b) == [mcNone EXCEPT ![a] = {b}]

mcBefore == {mcNone} \cup {mcPair(a, b) : a \in {2, 3}, b \in mcNames}

\* requires and wants: all from the root, a chain, and a wanted unit that may
\* not be installed.
mcPulls ==
    {<<[mcNone EXCEPT ![2] = {1, 3}], mcNone>>, <<mcPair(2, 1), mcPair(1, 3)>>,
     <<mcPair(1, 3), mcPair(2, 1)>>}

\* conflicts, and what the socket 3 activates.
mcExtras == {<<mcNone, mcNone>>, <<mcPair(3, 1), mcNone>>, <<mcNone, mcPair(3, 1)>>}

mcUnitSets ==
    {[units |-> units, services |-> {1}, requires |-> pulls[1], wants |-> pulls[2],
      after |-> after, before |-> before, conflicts |-> extra[1],
      activates |-> extra[2]] :
        units \in {1..3, {1, 2}, {1, 3}}, pulls \in mcPulls, extra \in mcExtras,
        after \in [mcNames -> SUBSET mcNames], before \in mcBefore}
===============================================================================
