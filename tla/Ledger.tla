------------------------------- MODULE Ledger -------------------------------
(***************************************************************************)
(* The token tables of the state executor beside staking: the bridge       *)
(* (mints, deposits, withdrawals), transfers, the proofs of delivery that  *)
(* earn revenue, and the rewards of the epoch change.                      *)
(*                                                                         *)
(* Abstractions: an amount is a natural number of smallest units, and one  *)
(* is Unit of them; FLK, stables and ratios have the same precision; one   *)
(* service; the beacon's part of the epoch change is in CommitteeBeacon.   *)
(***************************************************************************)
EXTENDS Staking, FiniteSetsExt, Functions

CONSTANTS Unit,             \* 10^18
          Receipts,         \* transactions of the Ethereum bridge
          BlockOf,          \* the Ethereum block of each of them
          BridgeAmount,     \* what each of them moves
          Revenues,         \* revenue of one proof of delivery
          MaxInflation, EpochsPerYear, NodeShare, ServiceBuilderShare,
          ProtocolShare, MaxBoost, \* protocol parameters, in percent or a factor
          TotalSupply,      \* of the genesis file
          ServiceOwner, ProtocolFund,
          MaxTx,            \* transactions explored
          LastLedgerEpoch

ASSUME LedgerAssumption ==
    /\ Unit \in Nat \ {0}
    /\ BlockOf \in [Receipts -> Nat]
    /\ NodeShare + ServiceBuilderShare + ProtocolShare <= 100
    /\ EpochsPerYear \in Nat \ {0} /\ MaxStakeLockTime # 0
    /\ {ServiceOwner, ProtocolFund} \subseteq Owners

VARIABLES stables,            \* account_info[o].stables_balance
          mints,              \* bridge transactions minted and not cleared
          withdraws,          \* withdraw id -> [token, amount]
          withdraw_id,
          served,             \* current_epoch_served: node -> its stables_revenue
          reward_pool,        \* total_served[epoch].reward_pool
          service_revenue,
          total_supply, supply_year_start,
          bridged,            \* FLK that came in less FLK that left
          credited,           \* times each bridge transaction was credited
          cleared_to,         \* the highest block number of clear_mints
          txs

ledgerVars == <<stakingVars, stables, mints, withdraws, withdraw_id, served,
                reward_pool, service_revenue, total_supply, supply_year_start,
                bridged, credited, cleared_to, txs>>

tables == <<node_info, served, reward_pool, service_revenue, total_supply,
            supply_year_start>>

mul(a, b) == (a * b) \div Unit
div(a, b) == (a * Unit) \div b

LedgerInit ==
    /\ StakingInit
    /\ \A n, m \in GenesisNodes : n # m => node_info[n].owner # node_info[m].owner
    /\ stables = [o \in Owners |-> 0]
    /\ mints = {} /\ withdraws = <<>> /\ withdraw_id = 0
    /\ served = <<>> /\ reward_pool = 0 /\ service_revenue = 0
    /\ total_supply = TotalSupply /\ supply_year_start = TotalSupply
    /\ bridged = 0
    /\ credited = [r \in Receipts |-> 0]
    /\ cleared_to = 0
    /\ txs = 0

-----------------------------------------------------------------------------
(* The bridge.  Governance submits what the bridge saw, more than once if  *)
(* it is not sure.                                                         *)

Mint(o, token, r) ==
    /\ r \notin mints
    /\ mints' = mints \cup {r}
    /\ credited' = [credited EXCEPT ![r] = @ + 1]
    /\ IF token = "FLK"
       THEN /\ flk_balance' = [flk_balance EXCEPT ![o] = @ + BridgeAmount]
            /\ bridged' = bridged + BridgeAmount
            /\ UNCHANGED stables
       ELSE /\ stables' = [stables EXCEPT ![o] = @ + BridgeAmount]
            /\ UNCHANGED <<flk_balance, bridged>>
    /\ UNCHANGED <<epoch, tables, withdraws, withdraw_id, cleared_to>>

\* Mutation: the block itself is cleared as well.
ClearedInclusive(block) == {r \in mints : BlockOf[r] <= block}

Cleared(block) == {r \in mints : BlockOf[r] < block}

ClearMints(block) ==
    /\ mints' = mints \ Cleared(block)
    /\ cleared_to' = IF block > cleared_to THEN block ELSE cleared_to
    /\ UNCHANGED <<stakingVars, tables, stables, withdraws, withdraw_id, bridged, credited>>

\* The proof of a deposit is always accepted; stables are credited as bandwidth,
\* which is not a balance of this module.
Deposit(o, amount) ==
    /\ flk_balance' = [flk_balance EXCEPT ![o] = @ + amount]
    /\ bridged' = bridged + amount
    /\ UNCHANGED <<epoch, tables, stables, mints, withdraws, withdraw_id, credited,
                   cleared_to>>

Withdraw(o, token, amount) ==
    /\ IF token = "FLK"
       THEN /\ flk_balance[o] >= amount
            /\ flk_balance' = [flk_balance EXCEPT ![o] = @ - amount]
            /\ bridged' = bridged - amount
            /\ UNCHANGED stables
       ELSE /\ stables[o] >= amount
            /\ stables' = [stables EXCEPT ![o] = @ - amount]
            /\ UNCHANGED <<flk_balance, bridged>>
    /\ withdraws' = [i \in DOMAIN withdraws \cup {withdraw_id} |->
                       IF i = withdraw_id THEN [token |-> token, amount |-> amount]
                       ELSE withdraws[i]]
    /\ withdraw_id' = withdraw_id + 1
    /\ UNCHANGED <<epoch, tables, mints, credited, cleared_to>>

ClearWithdraws(id) ==
    /\ withdraws' = Restrict(withdraws, {i \in DOMAIN withdraws : i >= id})
    /\ UNCHANGED <<stakingVars, tables, stables, mints, withdraw_id, bridged, credited,
                   cleared_to>>

\* Mutation: an account may send to itself.
TransferToAnyone(o, to, amount) ==
    /\ flk_balance[o] >= amount
    /\ flk_balance' = [flk_balance EXCEPT ![to] = @ + amount,
                                          ![o] = flk_balance[o] - amount]
    /\ UNCHANGED <<epoch, tables, stables, mints, withdraws, withdraw_id, bridged,
                   credited, cleared_to>>

\* The executor compares the accounts and not the addresses: one account is
\* refused, and so are two that have the same values in every field, the nonce
\* included.  The receiver is written first, the sender over it.
Transfer(o, to, amount) ==
    /\ o # to
    /\ flk_balance[o] >= amount
    /\ flk_balance' = [flk_balance EXCEPT ![to] = @ + amount,
                                          ![o] = flk_balance[o] - amount]
    /\ UNCHANGED <<epoch, tables, stables, mints, withdraws, withdraw_id, bridged,
                   credited, cleared_to>>

-----------------------------------------------------------------------------
SubmitPod(n, revenue) ==
    /\ only_node_with_sufficient_stake_and_participating(n)
    /\ LET before == IF n \in DOMAIN served THEN served[n] ELSE 0
       IN served' = [m \in DOMAIN served \cup {n} |->
                       IF m = n THEN before + revenue ELSE served[m]]
    /\ reward_pool' = reward_pool + revenue
    /\ service_revenue' = service_revenue + revenue
    /\ UNCHANGED <<stakingVars, total_supply, supply_year_start, stables, mints,
                   withdraws, withdraw_id, bridged, credited, cleared_to>>

calculate_emissions ==
    mul((MaxInflation * Unit) \div 100, supply_year_start) \div EpochsPerYear

get_boost(n) ==
    LET until == node_info[n].stake_locked_until
        period == IF until > epoch THEN until - epoch ELSE 0
        boost == Unit + mul((MaxBoost - 1) * Unit, div(period, MaxStakeLockTime))
    IN IF boost < MaxBoost * Unit THEN boost ELSE MaxBoost * Unit

Share(percent) == (percent * Unit) \div 100

\* The part of a node in the emissions, weighted by its boost.
LocalShare(n) == mul(div(served[n], reward_pool), get_boost(n))

\* Mutation: the boost is not part of the total.
UnboostedShare == MapThenSumSet(LAMBDA n : div(served[n], reward_pool), DOMAIN served)

TotalRewardShare == MapThenSumSet(LocalShare, DOMAIN served)

NodeFlk(n) ==
    mul(div(mul(calculate_emissions, Share(NodeShare)), TotalRewardShare), LocalShare(n))
NodeStables(n) == mul(served[n], Share(NodeShare))

ServiceFlk ==
    mul(mul(calculate_emissions, Share(ServiceBuilderShare)),
        div(service_revenue, reward_pool))
ServiceStables ==
    mul(mul(reward_pool, Share(ServiceBuilderShare)), div(service_revenue, reward_pool))

ProtocolFlk == mul(calculate_emissions, Share(ProtocolShare))
ProtocolStables == mul(reward_pool, Share(ProtocolShare))

\* The FLK and the stables an account receives from its nodes, its services and
\* the protocol.
NodesOf(o) == {n \in DOMAIN served : node_info[n].owner = o}
ReceivedFlk(o) ==
    MapThenSumSet(NodeFlk, NodesOf(o))
      + (IF o = ServiceOwner THEN ServiceFlk ELSE 0)
      + (IF o = ProtocolFund THEN ProtocolFlk ELSE 0)
ReceivedStables(o) ==
    MapThenSumSet(NodeStables, NodesOf(o))
      + (IF o = ServiceOwner THEN ServiceStables ELSE 0)
      + (IF o = ProtocolFund THEN ProtocolStables ELSE 0)

Minted == MapThenSumSet(ReceivedFlk, Owners)

\* Mutation: what the nodes served is not removed.
DistributeAgain ==
    /\ UNCHANGED served
    /\ IF reward_pool = 0
       THEN UNCHANGED <<flk_balance, stables, service_revenue, total_supply,
                        supply_year_start>>
       ELSE LET supply == total_supply + Minted
            IN /\ flk_balance' = [o \in Owners |->
                    flk_balance[o] + ReceivedFlk(o)]
               /\ UNCHANGED stables
               /\ service_revenue' = 0
               /\ total_supply' = supply
               /\ UNCHANGED supply_year_start

distribute_rewards ==
    IF reward_pool = 0
    THEN UNCHANGED <<flk_balance, stables, served, service_revenue, total_supply,
                     supply_year_start>>
    ELSE LET supply == total_supply + Minted
         IN /\ flk_balance' = [o \in Owners |->
                 flk_balance[o] + ReceivedFlk(o)]
            /\ stables' = [o \in Owners |->
                 stables[o] + ReceivedStables(o)]
            /\ served' = <<>>
            /\ service_revenue' = 0
            /\ total_supply' = supply
            /\ supply_year_start' = IF (epoch + 1) % EpochsPerYear = 0
                                    THEN supply ELSE supply_year_start

Settled(info) ==
    [info EXCEPT !.participation = CASE @ = "OptedIn" -> "True"
                                     [] @ = "OptedOut" -> "False"
                                     [] OTHER -> @]

LedgerEpochChange ==
    /\ epoch < LastLedgerEpoch
    /\ distribute_rewards
    /\ node_info' = [n \in Nodes |-> IF Registered(n) THEN Settled(node_info[n])
                                     ELSE NoNode]
    /\ reward_pool' = 0
    /\ epoch' = epoch + 1
    /\ UNCHANGED <<mints, withdraws, withdraw_id, bridged, credited, cleared_to, txs>>

LedgerTx ==
    \/ \E o \in Owners, t \in {"FLK", "USDC"}, r \in Receipts : Mint(o, t, r)
    \/ \E r \in Receipts : ClearMints(BlockOf[r])
    \/ \E o \in Owners, a \in Amounts : Deposit(o, a)
    \/ \E o \in Owners, t \in {"FLK", "USDC"}, a \in Amounts : Withdraw(o, t, a)
    \/ ClearWithdraws(withdraw_id)
    \/ \E o, to \in Owners, a \in Amounts : Transfer(o, to, a)
    \/ \E n \in Nodes, v \in Revenues : SubmitPod(n, v)
    \/ /\ StakingStep
       /\ UNCHANGED <<stables, mints, withdraws, withdraw_id, served, reward_pool,
                      service_revenue, total_supply, supply_year_start, bridged,
                      credited, cleared_to>>

LedgerNext ==
    \/ txs < MaxTx /\ txs' = txs + 1 /\ LedgerTx
    \/ LedgerEpochChange

LedgerSpec == LedgerInit /\ [][LedgerNext]_ledgerVars

-----------------------------------------------------------------------------
LedgerTypeOK ==
    /\ StakingTypeOK
    /\ stables \in [Owners -> Nat]
    /\ mints \subseteq Receipts
    /\ DOMAIN withdraws \subseteq 0 .. withdraw_id - 1
    /\ DOMAIN served \subseteq {n \in Nodes : Registered(n)}

\* The FLK the accounts and nodes hold is what genesis gave, what the rewards
\* added to TotalSupply and what the bridge brought: no transaction and no
\* rounding of the rewards creates or loses a unit.
FlkAccounted ==
    MapThenSumSet(LAMBDA o : flk_balance[o], Owners)
      + MapThenSumSet(LAMBDA n : IF Registered(n)
                                 THEN node_info[n].staked + node_info[n].locked
                                 ELSE 0, Nodes)
    = GenesisBalance * Cardinality(Owners)
      + MapThenSumSet(GenesisNodeStake, GenesisNodes)
      + (total_supply - TotalSupply) + bridged

\* The proportions the rewards are divided by add up: what the nodes and the
\* service earned in this epoch is the reward pool of this epoch.
PoolIsRevenue ==
    /\ MapThenSumSet(LAMBDA n : served[n], DOMAIN served) = reward_pool
    /\ service_revenue = reward_pool

\* An epoch change mints no more FLK than the emission of the epoch, whatever
\* the boosts, and pays no more stables than were earned.
RewardsWithinEmissions ==
    [][epoch' # epoch =>
         /\ total_supply' - total_supply <= calculate_emissions
         /\ MapThenSumSet(LAMBDA o : stables'[o] - stables[o], Owners) <= reward_pool]_ledgerVars

\* A bridge transaction is credited a second time only when its block is below
\* one that governance has cleared.
MintedOnceUnlessCleared ==
    \A r \in Receipts : credited[r] > 1 => BlockOf[r] < cleared_to

\* The tokens add up: the FLK of accounts and nodes, the epoch's revenue, and each
\* bridge transaction credited once.
LedgerInv == LedgerTypeOK /\ FlkAccounted /\ PoolIsRevenue /\ MintedOnceUnlessCleared
=============================================================================
