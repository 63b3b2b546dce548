------------------------------- MODULE Staking -------------------------------
(***************************************************************************)
(* The staking half of the application state: the FLK accounts and the     *)
(* node table (`account_info` and `node_info` of the state executor), and  *)
(* the transactions that move FLK between them or change a node's          *)
(* participation.  One action is one successful transaction; a transaction *)
(* whose guard fails reverts and changes none of this state.               *)
(*                                                                         *)
(* Abstractions: amounts are naturals (the code's HpUfixed<18> values are  *)
(* unsigned and checked before every subtraction); keys, domains and ports *)
(* are dropped; protocol parameters are fixed by the CONSTANTS.            *)
(***************************************************************************)
EXTENDS Naturals, FiniteSets

CONSTANTS Nodes,             \* node public keys, registered or not
          Owners,            \* account owners (Ethereum addresses)
          GenesisNodes,      \* the nodes the genesis block registers
          GenesisStake,      \* the stake the genesis file gives to each of them
          GenesisBalance,    \* the FLK balance of each account at genesis
          MinStake,          \* ProtocolParamKey::MinimumNodeStake
          LockTime,          \* ProtocolParamKey::LockTime, in epochs
          MaxStakeLockTime,  \* ProtocolParamKey::MaxStakeLockTime, in epochs
          Amounts,           \* the amounts a transaction may name
          NoNode             \* the node table has no entry

ASSUME StakingAssumption ==
    /\ IsFiniteSet(Nodes)
    /\ GenesisNodes \subseteq Nodes
    /\ GenesisStake \in [GenesisNodes -> Nat]
    /\ GenesisBalance \in Nat
    /\ MinStake \in Nat
    /\ LockTime \in Nat
    /\ MaxStakeLockTime \in Nat
    /\ Amounts \subseteq Nat

VARIABLES epoch,        \* Metadata::Epoch
          flk_balance,  \* account_info[o].flk_balance
          node_info     \* the node table

stakingVars == <<epoch, flk_balance, node_info>>

Participation == {"True", "False", "OptedIn", "OptedOut"}

\* NodeInfo with the fields that staking reads and writes.
NodeInfo ==
    [owner : Owners, staked : Nat, locked : Nat, locked_until : Nat,
     stake_locked_until : Nat, participation : Participation]

-----------------------------------------------------------------------------
Registered(n) == node_info[n] # NoNode

\* Unlocked and locked stake together reach the minimum.
has_sufficient_stake(info) == info.staked + info.locked >= MinStake

has_sufficient_unlocked_stake(info) == info.staked >= MinStake

is_participating(info) == info.participation \in {"OptedOut", "True"}

only_node_with_sufficient_stake(n) ==
    Registered(n) /\ has_sufficient_stake(node_info[n])

only_node_with_sufficient_stake_and_participating(n) ==
    /\ only_node_with_sufficient_stake(n)
    /\ is_participating(node_info[n])

\* Despite its name, the executor's guard for opting in counts locked stake.
only_node_with_sufficient_unlocked_stake(n) ==
    Registered(n) /\ has_sufficient_stake(node_info[n])

\* The nodes a committee may be drawn from, before the participation filter.
get_node_registry(info) ==
    {n \in Nodes : info[n] # NoNode /\ info[n].staked > 0}

-----------------------------------------------------------------------------
\* The genesis block raises a smaller stake to the minimum.
GenesisNodeStake(n) ==
    IF GenesisStake[n] >= MinStake THEN GenesisStake[n] ELSE MinStake

StakingInit ==
    /\ epoch = 0
    /\ flk_balance = [o \in Owners |-> GenesisBalance]
    /\ node_info \in
         [Nodes -> {NoNode} \cup
            [owner : Owners, staked : {GenesisNodeStake(n) : n \in GenesisNodes},
             locked : {0}, locked_until : {0}, stake_locked_until : {0},
             participation : {"True"}]]
    /\ \A n \in Nodes : Registered(n) <=> n \in GenesisNodes
    /\ \A n \in GenesisNodes : node_info[n].staked = GenesisNodeStake(n)

AddStake(info, amount) == [info EXCEPT !.staked = @ + amount]

\* Stake transaction of account o for node n.  Any account may add to the stake
\* of an existing node; an unknown node is created, owned by the sender and not
\* participating.
Stake(o, n, amount) ==
    /\ flk_balance[o] >= amount
    /\ node_info' = [node_info EXCEPT ![n] =
         IF Registered(n)
         THEN AddStake(node_info[n], amount)
         ELSE [owner |-> o, staked |-> amount, locked |-> 0,
               locked_until |-> 0, stake_locked_until |-> 0,
               participation |-> "False"]]
    /\ flk_balance' = [flk_balance EXCEPT ![o] = @ - amount]
    /\ UNCHANGED epoch

\* Epochs of stake lock that are still to run.
CurrentLock(info) ==
    IF info.stake_locked_until > epoch THEN info.stake_locked_until - epoch ELSE 0

StakeLock(o, n, locked_for) ==
    /\ Registered(n)
    /\ node_info[n].owner = o
    /\ node_info[n].staked # 0
    /\ CurrentLock(node_info[n]) + locked_for <= MaxStakeLockTime
    /\ node_info' = [node_info EXCEPT ![n].stake_locked_until = @ + locked_for]
    /\ UNCHANGED <<epoch, flk_balance>>

\* A node whose stake moved below the minimum leaves at the next epoch.
OptOutIfBelowMinimum(info) ==
    IF ~has_sufficient_unlocked_stake(info) /\ is_participating(info)
    THEN [info EXCEPT !.participation = "OptedOut"]
    ELSE info

\* Mutation: the unstaked tokens stay staked as well.
LockWithoutUnstaking(info, amount) ==
    [info EXCEPT !.locked = @ + amount, !.locked_until = epoch + LockTime]

\* The unstaked tokens stay with the node until the lock time has passed; a
\* second unstaking restarts the lock of the first.
MoveToLocked(info, amount) ==
    [info EXCEPT !.staked = @ - amount,
                 !.locked = @ + amount,
                 !.locked_until = epoch + LockTime]

Unstake(o, n, amount) ==
    /\ Registered(n)
    /\ node_info[n].owner = o
    /\ node_info[n].stake_locked_until <= epoch
    /\ node_info[n].staked >= amount
    /\ node_info' = [node_info EXCEPT ![n] =
         OptOutIfBelowMinimum(MoveToLocked(node_info[n], amount))]
    /\ UNCHANGED <<epoch, flk_balance>>

\* Without a recipient the owner receives the tokens.
WithdrawUnstaked(o, n, recipient) ==
    /\ Registered(n)
    /\ node_info[n].owner = o
    /\ node_info[n].locked # 0
    /\ node_info[n].locked_until <= epoch
    /\ flk_balance' = [flk_balance EXCEPT ![recipient] = @ + node_info[n].locked]
    /\ node_info' = [node_info EXCEPT ![n].locked = 0]
    /\ UNCHANGED epoch

OptIn(n) ==
    /\ only_node_with_sufficient_unlocked_stake(n)
    /\ node_info' = [node_info EXCEPT ![n].participation = "OptedIn"]
    /\ UNCHANGED <<epoch, flk_balance>>

OptOut(n) ==
    /\ only_node_with_sufficient_stake_and_participating(n)
    /\ node_info' = [node_info EXCEPT ![n].participation = "OptedOut"]
    /\ UNCHANGED <<epoch, flk_balance>>

StakingStep ==
    \/ \E o \in Owners, n \in Nodes, a \in Amounts : Stake(o, n, a)
    \/ \E o \in Owners, n \in Nodes, t \in 1 .. MaxStakeLockTime : StakeLock(o, n, t)
    \/ \E o \in Owners, n \in Nodes, a \in Amounts : Unstake(o, n, a)
    \/ \E o \in Owners, n \in Nodes, r \in Owners : WithdrawUnstaked(o, n, r)
    \/ \E n \in Nodes : OptIn(n)
    \/ \E n \in Nodes : OptOut(n)

-----------------------------------------------------------------------------
StakingTypeOK ==
    /\ epoch \in Nat
    /\ flk_balance \in [Owners -> Nat]
    /\ node_info \in [Nodes -> NodeInfo \cup {NoNode}]
=============================================================================
