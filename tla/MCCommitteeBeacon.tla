-------------------------- MODULE MCCommitteeBeacon --------------------------
(***************************************************************************)
(* CommitteeBeacon for TLC, with and without staking transactions.         *)
(***************************************************************************)
EXTENDS CommitteeBeacon, FiniteSetsExt, TLC

CONSTANTS Rich,      \* genesis nodes that a slash does not take below the minimum
          MaxRound,  \* rounds of the beacon explored in an epoch
          MaxEpoch   \* epochs explored

Bound == phase.round <= MaxRound /\ epoch <= MaxEpoch

\* Without staking transactions: only slashing changes the stakes.
BeaconSpec == Init /\ [][BeaconStep]_vars

\* The first slash takes a node below the minimum of 3, or the second.
MCStake == [n \in GenesisNodes |-> IF n \in Rich THEN 5 ELSE 4]

\* Nodes of the same stake are interchangeable.
NodeSymmetry == Permutations(Rich) \cup Permutations(Nodes \ Rich)

-----------------------------------------------------------------------------
\* FLK held by accounts, staked and locked.
Supply ==
    MapThenSumSet(LAMBDA o : flk_balance[o], Owners)
      + MapThenSumSet(LAMBDA n : IF Registered(n)
                                 THEN node_info[n].staked + node_info[n].locked
                                 ELSE 0, Nodes)

\* No transaction creates FLK, and what disappears was slashed: at most the
\* slash amount for each node that committed and did not reveal.
SupplyOnlySlashed ==
    [][/\ Supply' <= Supply
       /\ Supply' < Supply =>
            /\ phase.kind = "reveal" /\ phase'.kind = "commit"
            /\ Supply - Supply' <= SlashAmount * Cardinality(Unrevealed)]_vars
=============================================================================
