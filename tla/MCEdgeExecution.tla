-------------------------- MODULE MCEdgeExecution ----------------------------
(***************************************************************************)
(* EdgeExecution for TLC: a chain of three blocks, and one that is not.    *)
(***************************************************************************)
EXTENDS EdgeExecution, TLC

CONSTANTS p1, p2, p3,  \* three blocks of the chain,
          f2,          \* and a block of a diverged node, after the first
          a, x         \* nodes; x has diverged

\* The second block changes the epoch.
MCParent == p1 :> Zero @@ p2 :> p1 @@ p3 :> p2 @@ f2 :> p1
MCEpochAfter == Zero :> 0 @@ p1 :> 0 @@ p2 :> 1 @@ p3 :> 1 @@ f2 :> 0

\* This node follows the chain until the epoch changes, with which the diverged one
\* leaves the committee and it joins it.
MCCommittees ==
    [d \in Digests \cup {Zero} |-> IF d \in {p2, p3} THEN {a, Self} ELSE {a, x}]

\* The diverged node broadcasts a block of its own, the last block of the first epoch
\* under the second and the first of the second epoch under the first.
MCForged ==
    {[digest |-> m[1], from |-> x, epoch |-> m[2]] :
        m \in {<<f2, 0>>, <<p2, 1>>, <<p3, 0>>}}
=============================================================================
