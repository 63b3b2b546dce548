---------------------------- MODULE MCBeaconNode -----------------------------
(***************************************************************************)
(* BeaconNode for TLC: all nodes are genesis nodes and on the first        *)
(* committee.                                                              *)
(***************************************************************************)
EXTENDS BeaconNode

\* No number of slashes within the bounds takes a node below the minimum of 1.
AmpleStake == [n \in GenesisNodes |-> 9]
=============================================================================
