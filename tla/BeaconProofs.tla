---------------------------- MODULE BeaconProofs ----------------------------
(***************************************************************************)
(* Proofs about CommitteeBeacon for every set of nodes, every parameter    *)
(* and any number of epochs and rounds, and about BeaconNode: the          *)
(* committee nodes can open every commit they made and open none too       *)
(* early, with crashes at any point. The latter rests on what is proved of *)
(* the executor: its invariant holds there too, although a node's queue    *)
(* may bring commits of other rounds and epochs to the chain, and the      *)
(* phase moves as BeaconProcess says.                                      *)
(***************************************************************************)
EXTENDS BeaconNode, FiniteSetTheorems, TLAPS

-----------------------------------------------------------------------------
(* Facts about sets of nodes and their quorums.                            *)

\* Every set of nodes is finite.
LEMMA NodeSets ==
    ASSUME NEW S \in SUBSET Nodes
    PROVE  IsFiniteSet(S) /\ Cardinality(S) \in Nat
BY FS_Subset, FS_CardinalityType, StakingAssumption DEF StakingAssumption

\* A quorum is at least one signal.
LEMMA ThresholdType ==
    ASSUME NEW S \in SUBSET Nodes
    PROVE  Threshold(S) \in Nat /\ Threshold(S) > 0
<1>1. Cardinality(S) \in Nat
    BY NodeSets
<1> QED
    BY <1>1 DEF Threshold

\* A smaller committee needs no larger quorum.
LEMMA ThresholdMonotone ==
    ASSUME NEW S \in SUBSET Nodes, NEW T \in SUBSET S
    PROVE  Threshold(T) <= Threshold(S)
<1>1. /\ Cardinality(S) \in Nat
      /\ Cardinality(T) \in Nat
      /\ Cardinality(T) <= Cardinality(S)
    BY NodeSets, FS_Subset
<1> QED
    BY <1>1 DEF Threshold

\* The executor's test for enough commits, with its rounding division, is the
\* exact quorum of two thirds.
LEMMA EnoughCommits ==
    ASSUME TypeOK, SufficientParticipation
    PROVE  QuorumCommitted
<1>1. ParticipatingMembers \in SUBSET Nodes /\ Committed \in SUBSET Nodes
    BY DEF TypeOK, Committee, ParticipatingMembers, Committed
<1>2. /\ Cardinality(Committed \cap ParticipatingMembers) \in Nat
      /\ Cardinality(ParticipatingMembers) \in Nat
    BY <1>1, NodeSets
<1> QED
    BY <1>2 DEF SufficientParticipation, QuorumCommitted, ParticipatingMembers

\* A signal of a node that has not signalled adds one to the list.
LEMMA AddSignal ==
    ASSUME NEW S \in SUBSET Nodes, NEW n \in Nodes, n \notin S
    PROVE  /\ S \cup {n} \in SUBSET Nodes
           /\ Cardinality(S \cup {n}) = Cardinality(S) + 1
           /\ Cardinality(S \cup {n}) \in Nat
BY NodeSets, FS_AddElement

LEMMA NoSignals == Cardinality({}) = 0
BY FS_EmptySet

-----------------------------------------------------------------------------
(* Type correctness.                                                       *)

\* The genesis state is well typed.
LEMMA InitType == Init => TypeOK
<1> SUFFICES ASSUME Init PROVE TypeOK
    OBVIOUS
<1>1. \A n \in GenesisNodes : GenesisNodeStake(n) \in Nat
    BY StakingAssumption DEF StakingAssumption, GenesisNodeStake
<1>2. StakingTypeOK
    BY <1>1, StakingAssumption
    DEF Init, StakingInit, StakingAssumption, StakingTypeOK, NodeInfo, Participation
<1>3. committee \in Committee
    BY StakingAssumption, BeaconAssumption
    DEF Init, StakingAssumption, BeaconAssumption, NewCommittee, Committee
<1> QED
    BY <1>2, <1>3 DEF Init, TypeOK, NoPhase, Phase

\* A node's entry stays well typed when its stakes are replaced by naturals.
LEMMA UpdateNodeInfo ==
    ASSUME NEW info \in NodeInfo, NEW s \in Nat, NEW l \in Nat, NEW u \in Nat
    PROVE  /\ [info EXCEPT !.staked = s, !.locked = l] \in NodeInfo
           /\ [info EXCEPT !.staked = s, !.locked = l, !.locked_until = u] \in NodeInfo
BY DEF NodeInfo

\* Replacing one node's entry by another entry keeps the table well typed and
\* removes no node.
LEMMA ReplaceNodeInfo ==
    ASSUME StakingTypeOK, NEW n \in Nodes, NEW info \in NodeInfo,
           node_info' = [node_info EXCEPT ![n] = info]
    PROVE  /\ node_info' \in [Nodes -> NodeInfo \cup {NoNode}]
           /\ \A m \in Nodes : Registered(m) => Registered(m)'
BY BeaconAssumption DEF StakingTypeOK, Registered, BeaconAssumption

\* Staking transactions keep the account and node tables well typed, remove no
\* node and leave the epoch alone.
LEMMA StakingStepType ==
    ASSUME StakingTypeOK, StakingStep
    PROVE  /\ StakingTypeOK'
           /\ epoch' = epoch
           /\ \A m \in Nodes : Registered(m) => Registered(m)'
<1> DEFINE Goal == /\ StakingTypeOK'
                   /\ epoch' = epoch
                   /\ \A m \in Nodes : Registered(m) => Registered(m)'
<1>0. \A n \in Nodes : Registered(n) => node_info[n] \in NodeInfo
    BY DEF StakingTypeOK, Registered
<1>1. ASSUME NEW o \in Owners, NEW n \in Nodes, NEW a \in Amounts, Stake(o, n, a)
      PROVE  Goal
  <2>1. a \in Nat /\ flk_balance' \in [Owners -> Nat]
    BY <1>1, StakingAssumption DEF Stake, StakingTypeOK, StakingAssumption
  <2>2. CASE Registered(n)
    <3>1. AddStake(node_info[n], a) \in NodeInfo
      BY <1>0, <2>1, <2>2 DEF AddStake, NodeInfo
    <3> QED
      BY <1>1, <2>1, <2>2, <3>1, ReplaceNodeInfo DEF Stake, StakingTypeOK
  <2>3. CASE ~Registered(n)
    <3>1. [owner |-> o, staked |-> a, locked |-> 0, locked_until |-> 0,
           stake_locked_until |-> 0, participation |-> "False"] \in NodeInfo
      BY <2>1 DEF NodeInfo, Participation
    <3> QED
      BY <1>1, <2>1, <2>3, <3>1, ReplaceNodeInfo DEF Stake, StakingTypeOK
  <2> QED
    BY <2>2, <2>3
<1>2. ASSUME NEW o \in Owners, NEW n \in Nodes, NEW t \in 1 .. MaxStakeLockTime,
             StakeLock(o, n, t)
      PROVE  Goal
  <2>1. /\ node_info' = [node_info EXCEPT ![n] =
             [node_info[n] EXCEPT
                !.stake_locked_until = node_info[n].stake_locked_until + t]]
        /\ UNCHANGED <<epoch, flk_balance>>
        /\ Registered(n)
    BY <1>2 DEF StakeLock
  <2>2. [node_info[n] EXCEPT
           !.stake_locked_until = node_info[n].stake_locked_until + t] \in NodeInfo
    BY <1>0, <2>1, StakingAssumption DEF NodeInfo, StakingAssumption
  <2> QED
    BY <2>1, <2>2, ReplaceNodeInfo DEF StakingTypeOK
<1>3. ASSUME NEW o \in Owners, NEW n \in Nodes, NEW a \in Amounts, Unstake(o, n, a)
      PROVE  Goal
  <2>1. node_info[n] \in NodeInfo /\ node_info[n].staked >= a
    BY <1>0, <1>3 DEF Unstake
  <2>2. MoveToLocked(node_info[n], a) \in NodeInfo
    <3>1. /\ node_info[n].staked - a \in Nat
          /\ node_info[n].locked + a \in Nat
          /\ epoch + LockTime \in Nat
      BY <2>1, StakingAssumption DEF NodeInfo, StakingAssumption, StakingTypeOK
    <3> QED
      BY <2>1, <3>1, UpdateNodeInfo DEF MoveToLocked
  <2>3. OptOutIfBelowMinimum(MoveToLocked(node_info[n], a)) \in NodeInfo
    BY <2>2 DEF OptOutIfBelowMinimum, NodeInfo, Participation
  <2> QED
    BY <1>3, <2>3, ReplaceNodeInfo DEF Unstake, StakingTypeOK
<1>4. ASSUME NEW o \in Owners, NEW n \in Nodes, NEW r \in Owners,
             WithdrawUnstaked(o, n, r)
      PROVE  Goal
  <2>1. node_info[n] \in NodeInfo
    BY <1>0, <1>4 DEF WithdrawUnstaked
  <2>2. /\ [node_info[n] EXCEPT !.locked = 0] \in NodeInfo
        /\ node_info' = [node_info EXCEPT ![n] = [node_info[n] EXCEPT !.locked = 0]]
    BY <1>4, <2>1 DEF NodeInfo, WithdrawUnstaked
  <2>3. flk_balance' \in [Owners -> Nat]
    BY <1>4, <2>1 DEF WithdrawUnstaked, NodeInfo, StakingTypeOK
  <2> QED
    BY <1>4, <2>2, <2>3, ReplaceNodeInfo DEF WithdrawUnstaked, StakingTypeOK
<1>5. ASSUME NEW n \in Nodes, OptIn(n) \/ OptOut(n)
      PROVE  Goal
  <2>1. node_info[n] \in NodeInfo
    BY <1>0, <1>5 DEF OptIn, OptOut, only_node_with_sufficient_unlocked_stake,
                      only_node_with_sufficient_stake_and_participating,
                      only_node_with_sufficient_stake
  <2>2. PICK p \in Participation :
          node_info' = [node_info EXCEPT ![n] = [node_info[n] EXCEPT !.participation = p]]
    BY <1>5 DEF OptIn, OptOut, Participation
  <2>3. [node_info[n] EXCEPT !.participation = p] \in NodeInfo
    BY <2>1 DEF NodeInfo
  <2> QED
    BY <1>5, <2>2, <2>3, ReplaceNodeInfo DEF OptIn, OptOut, StakingTypeOK
<1> QED
    BY <1>1, <1>2, <1>3, <1>4, <1>5 DEF StakingStep

\* Slashing leaves natural stakes.
LEMMA SlashType ==
    ASSUME NEW info \in NodeInfo
    PROVE  Slash(info) \in NodeInfo
<1> DEFINE remaining == IF info.staked >= SlashAmount
                        THEN 0 ELSE SlashAmount - info.staked
<1>1. info.staked \in Nat /\ info.locked \in Nat /\ SlashAmount \in Nat
    BY BeaconAssumption DEF BeaconAssumption, NodeInfo
<1>2. remaining \in Nat
    BY <1>1
<1>3. (IF info.staked >= SlashAmount THEN info.staked - SlashAmount ELSE 0) \in Nat
    BY <1>1
<1>4. (IF info.locked >= remaining THEN info.locked - remaining ELSE 0) \in Nat
    BY <1>1, <1>2
<1> QED
    BY <1>3, <1>4, UpdateNodeInfo DEF Slash

\* The epoch change leaves a well-typed node table and a committee of nodes
\* that has signalled nothing.
LEMMA EpochChangeType ==
    ASSUME TypeOK, execute_epoch_change
    PROVE  /\ StakingTypeOK'
           /\ epoch' = epoch + 1
           /\ \E members \in SUBSET Nodes : \E active \in SUBSET Nodes :
                committee' = NewCommittee(members, active)
<1>1. PICK low \in SUBSET Nodes :
        LET info == SettleParticipation(node_info, low)
            candidates == {n \in get_node_registry(info) :
                             info[n].participation = "True"}
        IN  /\ node_info' = info
            /\ \E active \in settle_auction(candidates, info) :
                 \E members \in choose_new_committee(active) :
                   committee' = NewCommittee(members, active)
            /\ epoch' = epoch + 1
            /\ UNCHANGED flk_balance
    BY DEF execute_epoch_change
<1> DEFINE info == SettleParticipation(node_info, low)
           candidates == {n \in get_node_registry(info) :
                            info[n].participation = "True"}
<1>2. info \in [Nodes -> NodeInfo \cup {NoNode}]
    BY DEF TypeOK, StakingTypeOK, SettleParticipation, NodeInfo, Participation
<1>3. candidates \subseteq Nodes
    BY DEF get_node_registry
<1>4. PICK active \in settle_auction(candidates, info) :
             \E members \in choose_new_committee(active) :
               committee' = NewCommittee(members, active)
    BY <1>1
<1>7. PICK members \in choose_new_committee(active) :
             committee' = NewCommittee(members, active)
    BY <1>4
<1>5. active \subseteq Nodes
    BY <1>3, <1>4 DEF settle_auction
<1>6. members \subseteq Nodes
    BY <1>5, <1>7 DEF choose_new_committee
<1> QED
    BY <1>1, <1>2, <1>5, <1>6, <1>7 DEF TypeOK, StakingTypeOK

LEMMA SubmittedType == TypeOK => SubmittedCommits \subseteq Commit
BY DEF TypeOK, SubmittedCommits, build, Commit, StakingTypeOK, Phase

\* A commit for any round, of this epoch or another.
LEMMA BeaconCommitType ==
    ASSUME TypeOK, NEW n \in Nodes, NEW c \in Commit, BeaconCommit(n, c)
    PROVE  TypeOK'
BY DEF TypeOK, BeaconCommit, Beacon, stakingVars, StakingTypeOK

\* The transactions of the beacon keep the state well typed.
LEMMA BeaconStepType ==
    ASSUME TypeOK, BeaconsOfEligibleMembers, BeaconStep
    PROVE  TypeOK'
<1> USE DEF TypeOK
<1>1. ASSUME NEW n \in Nodes, ChangeEpoch(n, epoch)
      PROVE  TypeOK'
    BY <1>1 DEF ChangeEpoch, stakingVars, StakingTypeOK, Committee, Phase, CommitPhase
<1>2. ASSUME NEW n \in Nodes, NEW c \in SubmittedCommits, BeaconCommit(n, c)
      PROVE  TypeOK'
    BY <1>2, SubmittedType, BeaconCommitType
<1>3. ASSUME NEW n \in Nodes, NEW v \in Values, BeaconReveal(n, v)
      PROVE  TypeOK'
    BY <1>3 DEF BeaconReveal, RevealGuard, Beacon, stakingVars, StakingTypeOK
<1>4. ASSUME NEW n \in Nodes, CommitTimeoutSignal(n, phase.epoch, phase.round)
      PROVE  TypeOK'
    BY <1>4 DEF CommitTimeoutSignal, stakingVars, StakingTypeOK, Committee
<1>5. ASSUME NEW n \in Nodes, CommitTimeoutQuorum(n, phase.epoch, phase.round)
      PROVE  TypeOK'
  <2> DEFINE signalled == committee.signalled_commit_phase_timeout \cup {n}
             recorded == [committee EXCEPT !.signalled_commit_phase_timeout = signalled]
  <2>1. recorded \in Committee
    BY DEF Committee
  <2>2. clear_committee_selection_beacon_timeouts(recorded) \in Committee
    BY <2>1 DEF clear_committee_selection_beacon_timeouts, Committee
  <2>3. /\ RevealPhase(epoch, phase.round) \in Phase
        /\ CommitPhase(epoch, phase.round + 1) \in Phase
    BY DEF Phase, CommitPhase, RevealPhase, StakingTypeOK
  <2>4. CASE SufficientParticipation
    BY <1>5, <2>1, <2>3, <2>4 DEF CommitTimeoutQuorum, stakingVars, StakingTypeOK
  <2>5. CASE ~SufficientParticipation
    BY <1>5, <2>2, <2>3, <2>5
    DEF CommitTimeoutQuorum, stakingVars, StakingTypeOK,
        clear_committee_selection_beacons
  <2> QED
    BY <2>4, <2>5
<1>6. ASSUME NEW n \in Nodes, RevealTimeoutSignal(n, phase.epoch, phase.round)
      PROVE  TypeOK'
    BY <1>6 DEF RevealTimeoutSignal, stakingVars, StakingTypeOK, Committee
<1>7. ASSUME NEW n \in Nodes, RevealTimeoutEpochChange(n, phase.epoch, phase.round)
      PROVE  TypeOK'
    BY <1>7, EpochChangeType
    DEF RevealTimeoutEpochChange, NewCommittee, Committee, NoPhase, Phase,
        clear_committee_selection_beacons
<1>8. ASSUME NEW n \in Nodes, RevealTimeoutRestart(n, phase.epoch, phase.round)
      PROVE  TypeOK'
  <2>1. Unrevealed \subseteq Nodes
    BY DEF Unrevealed, Committed
  <2>2. \A m \in Unrevealed : node_info[m] \in NodeInfo
    BY <2>1 DEF BeaconsOfEligibleMembers, Unrevealed, Registered, StakingTypeOK
  <2>3. SlashAll(Unrevealed) \in [Nodes -> NodeInfo \cup {NoNode}]
    BY <2>2, SlashType DEF SlashAll, StakingTypeOK
  <2>4. ASSUME NEW kicked
        PROVE  clear_committee_selection_beacon_timeouts(KickAll(committee, kicked))
                 \in Committee
    BY DEF clear_committee_selection_beacon_timeouts, KickAll, Committee
  <2> QED
    BY <1>8, <2>1, <2>3, <2>4
    DEF RevealTimeoutRestart, StakingTypeOK, CommitPhase, Phase,
        clear_committee_selection_beacons
<1> QED
    BY <1>1, <1>2, <1>3, <1>4, <1>5, <1>6, <1>7, <1>8 DEF BeaconStep

-----------------------------------------------------------------------------
(* The inductive invariant.                                                *)

\* Nothing has been signalled or committed at genesis.
LEMMA InitIInv == Init => IInv
<1> SUFFICES ASSUME Init PROVE IInv
    OBVIOUS
<1>1. TypeOK
    BY InitType
<1>2. Committed = {}
    BY DEF Init, Committed
<1>3. /\ Cardinality(committee.ready_to_change) = 0
      /\ Threshold(committee.members) \in Nat
      /\ Threshold(committee.members) > 0
    BY <1>1, NoSignals, ThresholdType DEF Init, NewCommittee, TypeOK, Committee
<1>4. SignalsBelowThreshold /\ SignalsFollowPhase
    BY <1>3 DEF Init, NoPhase, NewCommittee, SignalsBelowThreshold, SignalsFollowPhase
<1>5. PhaseOfCurrentEpoch /\ RevealPhaseHasQuorum
    BY DEF Init, NoPhase, PhaseOfCurrentEpoch, RevealPhaseHasQuorum
<1>6. BeaconsOfEligibleMembers /\ RevealsOpenThisRound
    BY <1>2 DEF BeaconsOfEligibleMembers, RevealsOpenThisRound
<1> QED
    BY <1>1, <1>4, <1>5, <1>6 DEF IInv
\* change_epoch: the list grows by one, and the equality test starts the beacon
\* exactly when the list reaches the quorum.
LEMMA ChangeEpochIInv ==
    ASSUME IInv, NEW n \in Nodes, ChangeEpoch(n, epoch)
    PROVE  IInv'
<1> DEFINE ready == committee.ready_to_change \cup {n}
<1>1. TypeOK /\ TypeOK'
    BY BeaconStepType DEF IInv, BeaconStep
<1>2. /\ committee.members \in SUBSET Nodes
      /\ committee.ready_to_change \in SUBSET Nodes
      /\ n \notin committee.ready_to_change
      /\ committee \in Committee
    BY <1>1 DEF ChangeEpoch, ChangeEpochGuard, TypeOK, Committee
<1>3. committee' = [committee EXCEPT !.ready_to_change = ready]
    BY DEF ChangeEpoch
<1>4. /\ committee'.members = committee.members
      /\ committee'.ready_to_change = ready
      /\ committee'.signalled_commit_phase_timeout
           = committee.signalled_commit_phase_timeout
      /\ committee'.signalled_reveal_phase_timeout
           = committee.signalled_reveal_phase_timeout
    BY <1>2, <1>3 DEF Committee
<1>5. /\ Cardinality(ready) = Cardinality(committee.ready_to_change) + 1
      /\ Cardinality(committee.ready_to_change) \in Nat
      /\ Threshold(committee.members) \in Nat
      /\ Threshold(committee.members) > 0
    BY <1>2, AddSignal, NodeSets, ThresholdType
<1>6. UNCHANGED <<stakingVars, beacons, non_revealing>>
    BY DEF ChangeEpoch
<1>7. /\ Committed' = Committed /\ Unrevealed' = Unrevealed
      /\ ParticipatingMembers' = ParticipatingMembers
      /\ QuorumCommitted' = QuorumCommitted
      /\ \A m : Registered(m)' = Registered(m)
    BY <1>4, <1>6 DEF stakingVars, Committed, Unrevealed, ParticipatingMembers,
                      QuorumCommitted, Registered
<1>8. CASE phase.kind = "none" /\ Cardinality(ready) = Threshold(committee.members)
  <2>1. phase' = CommitPhase(epoch, 0) /\ epoch' = epoch
    BY <1>6, <1>8 DEF ChangeEpoch, ChangeEpochStarts, stakingVars
  <2>2. Cardinality(committee.signalled_commit_phase_timeout) = 0
    BY <1>8, NoSignals DEF IInv, SignalsFollowPhase
  <2>3. Committed = {}
    BY <1>8 DEF IInv, BeaconsOfEligibleMembers
  <2>4. SignalsBelowThreshold' /\ SignalsFollowPhase'
    BY <1>4, <1>5, <1>8, <2>1, <2>2
    DEF IInv, SignalsBelowThreshold, SignalsFollowPhase, CommitPhase, Threshold
  <2>5. PhaseOfCurrentEpoch' /\ RevealPhaseHasQuorum'
    BY <2>1 DEF PhaseOfCurrentEpoch, RevealPhaseHasQuorum, CommitPhase
  <2>6. BeaconsOfEligibleMembers' /\ RevealsOpenThisRound'
    BY <1>7, <2>3 DEF BeaconsOfEligibleMembers, RevealsOpenThisRound
  <2> QED
    BY <1>1, <2>4, <2>5, <2>6 DEF IInv
<1>9. CASE ~(phase.kind = "none" /\ Cardinality(ready) = Threshold(committee.members))
  <2>1. Cardinality(ready) # Threshold(committee.members)
    BY <1>5, <1>9 DEF IInv, SignalsFollowPhase
  <2>2. phase' = phase /\ epoch' = epoch
    BY <1>6, <2>1 DEF ChangeEpoch, ChangeEpochStarts, stakingVars
  <2>3. SignalsBelowThreshold' /\ SignalsFollowPhase'
    BY <1>4, <1>5, <2>1, <2>2
    DEF IInv, SignalsBelowThreshold, SignalsFollowPhase, Threshold, NoPhase
  <2>4. PhaseOfCurrentEpoch' /\ RevealPhaseHasQuorum'
    BY <1>7, <2>2 DEF IInv, PhaseOfCurrentEpoch, RevealPhaseHasQuorum
  <2>5. BeaconsOfEligibleMembers' /\ RevealsOpenThisRound'
    BY <1>6, <1>7, <2>2 DEF IInv, BeaconsOfEligibleMembers, RevealsOpenThisRound, build
  <2> QED
    BY <1>1, <2>3, <2>4, <2>5 DEF IInv
<1> QED
    BY <1>8, <1>9
\* A commit adds an eligible member to the table, unrevealed.
LEMMA BeaconCommitIInv ==
    ASSUME IInv, NEW n \in Nodes, NEW c \in Commit, BeaconCommit(n, c)
    PROVE  IInv'
<1>1. TypeOK /\ TypeOK'
    BY BeaconCommitType DEF IInv
<1>2. /\ phase.kind = "commit"
      /\ n \in ParticipatingMembers /\ Registered(n)
      /\ beacons' = [beacons EXCEPT ![n] = [commit |-> c, reveal |-> NoReveal]]
      /\ UNCHANGED <<stakingVars, phase, non_revealing, committee>>
    BY DEF BeaconCommit, CommitGuard, ParticipatingMembers,
           only_node_with_sufficient_stake_and_participating,
           only_node_with_sufficient_stake
<1>3. UNCHANGED <<epoch, node_info>>
    BY <1>2 DEF stakingVars
<1>4. beacons'[n] = [commit |-> c, reveal |-> NoReveal]
    BY <1>1, <1>2 DEF TypeOK
<1>5. \A m \in Nodes \ {n} : beacons'[m] = beacons[m]
    BY <1>1, <1>2 DEF TypeOK
<1>6. Committed' \subseteq Committed \cup {n}
    BY <1>5 DEF Committed
<1>7. Committed = Unrevealed
    BY <1>2 DEF IInv, RevealsOpenThisRound, Unrevealed
<1>8. Committed' = Unrevealed'
    BY <1>4, <1>5, <1>6, <1>7 DEF Committed, Unrevealed
<1>9. SignalsBelowThreshold' /\ SignalsFollowPhase' /\ PhaseOfCurrentEpoch'
    BY <1>2, <1>3 DEF IInv, SignalsBelowThreshold, SignalsFollowPhase,
                      PhaseOfCurrentEpoch, Threshold, NoPhase
<1>10. RevealsOpenThisRound' /\ RevealPhaseHasQuorum'
    BY <1>2, <1>8 DEF RevealsOpenThisRound, RevealPhaseHasQuorum
<1>11. BeaconsOfEligibleMembers'
    BY <1>2, <1>3, <1>6
    DEF IInv, BeaconsOfEligibleMembers, ParticipatingMembers, Registered
<1> QED
    BY <1>1, <1>9, <1>10, <1>11 DEF IInv

\* A reveal opens a commit that is already in the table.
LEMMA BeaconRevealIInv ==
    ASSUME IInv, NEW n \in Nodes, NEW v \in Values, BeaconReveal(n, v)
    PROVE  IInv'
<1>1. TypeOK /\ TypeOK'
    BY BeaconStepType DEF IInv, BeaconStep
<1>2. /\ phase.kind = "reveal"
      /\ beacons[n] # NoBeacon
      /\ beacons[n].commit = build(epoch, phase.round, v)
      /\ beacons' = [beacons EXCEPT ![n].reveal = v]
      /\ UNCHANGED <<stakingVars, phase, non_revealing, committee>>
    BY DEF BeaconReveal, RevealGuard
<1>3. UNCHANGED <<epoch, node_info>>
    BY <1>2 DEF stakingVars
<1>4. beacons'[n] \in Beacon /\ beacons'[n].reveal = v
      /\ beacons'[n].commit = beacons[n].commit
    BY <1>1, <1>2 DEF TypeOK, Beacon
<1>5. \A m \in Nodes \ {n} : beacons'[m] = beacons[m]
    BY <1>1, <1>2 DEF TypeOK
<1>6. NoBeacon \notin Beacon /\ NoReveal \notin Values
    BY BeaconAssumption DEF BeaconAssumption
<1>7. Committed' = Committed
    BY <1>2, <1>4, <1>5, <1>6 DEF Committed
<1>8. SignalsBelowThreshold' /\ SignalsFollowPhase' /\ PhaseOfCurrentEpoch'
    BY <1>2, <1>3 DEF IInv, SignalsBelowThreshold, SignalsFollowPhase,
                      PhaseOfCurrentEpoch, Threshold, NoPhase
<1>9. BeaconsOfEligibleMembers' /\ RevealPhaseHasQuorum'
    BY <1>2, <1>3, <1>7
    DEF IInv, BeaconsOfEligibleMembers, ParticipatingMembers, Registered,
        RevealPhaseHasQuorum, QuorumCommitted
<1>10. ASSUME NEW m \in (Committed \ Unrevealed)'
       PROVE  beacons'[m].commit = build(epoch', phase'.round, beacons'[m].reveal)
  <2>1. CASE m = n
    BY <1>2, <1>3, <1>4, <2>1 DEF build
  <2>2. CASE m # n
    <3>1. m \in Committed \ Unrevealed /\ beacons'[m] = beacons[m]
      BY <1>5, <1>7, <2>2 DEF Committed, Unrevealed
    <3> QED
      BY <1>2, <1>3, <3>1 DEF IInv, RevealsOpenThisRound, build
  <2> QED
    BY <2>1, <2>2
<1>11. RevealsOpenThisRound'
    BY <1>2, <1>10 DEF RevealsOpenThisRound, build
<1> QED
    BY <1>1, <1>8, <1>9, <1>11 DEF IInv
\* A timeout signal below the quorum only lengthens its list, which stays below
\* the quorum because it differs from it.
LEMMA TimeoutSignalIInv ==
    ASSUME IInv, NEW n \in Nodes,
           \/ CommitTimeoutSignal(n, phase.epoch, phase.round)
           \/ RevealTimeoutSignal(n, phase.epoch, phase.round)
    PROVE  IInv'
<1>1. TypeOK /\ TypeOK'
    BY BeaconStepType DEF IInv, BeaconStep
<1>2. committee \in Committee /\ phase \in Phase
    BY <1>1 DEF TypeOK
<1>3. UNCHANGED <<epoch, node_info, phase, beacons, non_revealing>>
    BY DEF CommitTimeoutSignal, RevealTimeoutSignal, stakingVars
<1>4. /\ committee'.members = committee.members
      /\ committee'.ready_to_change = committee.ready_to_change
    BY <1>2 DEF CommitTimeoutSignal, RevealTimeoutSignal, Committee
<1>5. /\ Committed' = Committed /\ Unrevealed' = Unrevealed
      /\ ParticipatingMembers' = ParticipatingMembers
      /\ QuorumCommitted' = QuorumCommitted
      /\ \A m : Registered(m)' = Registered(m)
    BY <1>3, <1>4 DEF Committed, Unrevealed, ParticipatingMembers,
                      QuorumCommitted, Registered
<1>6. /\ PhaseOfCurrentEpoch' /\ RevealPhaseHasQuorum'
      /\ BeaconsOfEligibleMembers' /\ RevealsOpenThisRound'
    BY <1>3, <1>5 DEF IInv, PhaseOfCurrentEpoch, RevealPhaseHasQuorum,
                      BeaconsOfEligibleMembers, RevealsOpenThisRound, build
<1>7. /\ Threshold(committee.members) \in Nat
      /\ Threshold(committee'.members) = Threshold(committee.members)
    BY <1>2, <1>4, ThresholdType DEF Committee
<1>8. CASE CommitTimeoutSignal(n, phase.epoch, phase.round)
  <2> DEFINE signalled == committee.signalled_commit_phase_timeout \cup {n}
  <2>1. /\ phase.kind = "commit"
        /\ n \notin committee.signalled_commit_phase_timeout
        /\ committee.signalled_commit_phase_timeout \in SUBSET Nodes
        /\ committee'.signalled_commit_phase_timeout = signalled
        /\ committee'.signalled_reveal_phase_timeout
             = committee.signalled_reveal_phase_timeout
        /\ Cardinality(signalled) # Threshold(committee.members)
    BY <1>2, <1>8 DEF CommitTimeoutSignal, CommitTimeoutGuard, CommitPhase, Committee
  <2>2. /\ Cardinality(signalled)
             = Cardinality(committee.signalled_commit_phase_timeout) + 1
        /\ Cardinality(committee.signalled_commit_phase_timeout) \in Nat
    BY <2>1, AddSignal, NodeSets
  <2>3. SignalsBelowThreshold' /\ SignalsFollowPhase'
    BY <1>3, <1>4, <1>7, <2>1, <2>2 DEF IInv, SignalsBelowThreshold, SignalsFollowPhase
  <2> QED
    BY <1>1, <1>6, <2>3 DEF IInv
<1>9. CASE RevealTimeoutSignal(n, phase.epoch, phase.round)
  <2> DEFINE signalled == committee.signalled_reveal_phase_timeout \cup {n}
  <2>1. /\ phase.kind = "reveal"
        /\ n \notin committee.signalled_reveal_phase_timeout
        /\ committee.signalled_reveal_phase_timeout \in SUBSET Nodes
        /\ committee'.signalled_reveal_phase_timeout = signalled
        /\ Cardinality(signalled) # Threshold(committee.members)
    BY <1>2, <1>9 DEF RevealTimeoutSignal, RevealTimeoutGuard, RevealPhase, Committee
  <2>2. /\ Cardinality(signalled)
             = Cardinality(committee.signalled_reveal_phase_timeout) + 1
        /\ Cardinality(committee.signalled_reveal_phase_timeout) \in Nat
    BY <2>1, AddSignal, NodeSets
  <2>3. SignalsBelowThreshold' /\ SignalsFollowPhase'
    BY <1>3, <1>4, <1>7, <2>1, <2>2 DEF IInv, SignalsBelowThreshold, SignalsFollowPhase
  <2> QED
    BY <1>1, <1>6, <2>3 DEF IInv
<1> QED
    BY <1>8, <1>9

\* The end of a commit phase: the reveal phase starts with a quorum of commits,
\* or a new round starts with an empty table and empty lists.
LEMMA CommitTimeoutQuorumIInv ==
    ASSUME IInv, NEW n \in Nodes,
           CommitTimeoutQuorum(n, phase.epoch, phase.round)
    PROVE  IInv'
<1>1. TypeOK /\ TypeOK'
    BY BeaconStepType DEF IInv, BeaconStep
<1>2. /\ committee \in Committee /\ phase.kind = "commit"
      /\ UNCHANGED <<epoch, node_info>>
    BY <1>1 DEF TypeOK, CommitTimeoutQuorum, CommitTimeoutGuard, CommitPhase, stakingVars
<1>3. /\ Threshold(committee.members) \in Nat
      /\ Threshold(committee.members) > 0
    BY <1>2, ThresholdType DEF Committee
<1>4. CASE SufficientParticipation
  <2> DEFINE signalled == committee.signalled_commit_phase_timeout \cup {n}
  <2>1. /\ phase' = RevealPhase(epoch, phase.round)
        /\ UNCHANGED <<beacons, non_revealing>>
        /\ committee' = [committee EXCEPT !.signalled_commit_phase_timeout = signalled]
    BY <1>4 DEF CommitTimeoutQuorum
  <2>2. /\ committee'.members = committee.members
        /\ committee'.ready_to_change = committee.ready_to_change
        /\ committee'.signalled_reveal_phase_timeout = {}
    BY <1>2, <2>1 DEF Committee, IInv, SignalsFollowPhase
  <2>3. /\ Committed' = Committed /\ Unrevealed' = Unrevealed
        /\ ParticipatingMembers' = ParticipatingMembers
        /\ QuorumCommitted' = QuorumCommitted
        /\ \A m : Registered(m)' = Registered(m)
    BY <1>2, <2>1, <2>2 DEF Committed, Unrevealed, ParticipatingMembers,
                            QuorumCommitted, Registered
  <2>4. Committed = Unrevealed
    BY <1>2 DEF IInv, RevealsOpenThisRound, Unrevealed
  <2>5. SignalsBelowThreshold' /\ SignalsFollowPhase'
    BY <1>2, <1>3, <2>1, <2>2, NoSignals
    DEF IInv, SignalsBelowThreshold, SignalsFollowPhase, RevealPhase, Threshold
  <2>6. PhaseOfCurrentEpoch' /\ RevealPhaseHasQuorum'
    <3>1. QuorumCommitted
      BY <1>4, EnoughCommits DEF IInv
    <3> QED
      BY <1>2, <2>1, <2>3, <3>1 DEF PhaseOfCurrentEpoch, RevealPhaseHasQuorum, RevealPhase
  <2>7. BeaconsOfEligibleMembers' /\ RevealsOpenThisRound'
    BY <2>1, <2>3, <2>4
    DEF IInv, BeaconsOfEligibleMembers, RevealsOpenThisRound, RevealPhase
  <2> QED
    BY <1>1, <2>5, <2>6, <2>7 DEF IInv
<1>5. CASE ~SufficientParticipation
  <2>1. /\ phase' = CommitPhase(epoch, phase.round + 1)
        /\ beacons' = clear_committee_selection_beacons
    BY <1>5 DEF CommitTimeoutQuorum
  <2>2. /\ committee'.members = committee.members
        /\ committee'.ready_to_change = committee.ready_to_change
        /\ committee'.signalled_commit_phase_timeout = {}
        /\ committee'.signalled_reveal_phase_timeout = {}
    BY <1>2, <1>5 DEF CommitTimeoutQuorum, Committee,
                      clear_committee_selection_beacon_timeouts
  <2>3. Committed' = {}
    BY <2>1 DEF Committed, clear_committee_selection_beacons
  <2>4. SignalsBelowThreshold' /\ SignalsFollowPhase'
    BY <1>2, <1>3, <2>1, <2>2, NoSignals
    DEF IInv, SignalsBelowThreshold, SignalsFollowPhase, CommitPhase, Threshold
  <2>5. PhaseOfCurrentEpoch' /\ RevealPhaseHasQuorum'
    BY <1>2, <2>1 DEF PhaseOfCurrentEpoch, RevealPhaseHasQuorum, CommitPhase
  <2>6. BeaconsOfEligibleMembers' /\ RevealsOpenThisRound'
    BY <2>3 DEF BeaconsOfEligibleMembers, RevealsOpenThisRound
  <2> QED
    BY <1>1, <2>4, <2>5, <2>6 DEF IInv
<1> QED
    BY <1>4, <1>5
\* The epoch change starts over: no phase, no beacons, no signals.
LEMMA EpochChangeIInv ==
    ASSUME IInv, NEW n \in Nodes,
           RevealTimeoutEpochChange(n, phase.epoch, phase.round)
    PROVE  IInv'
<1>1. TypeOK /\ TypeOK'
    BY BeaconStepType DEF IInv, BeaconStep
<1>2. phase' = NoPhase /\ beacons' = clear_committee_selection_beacons
    BY DEF RevealTimeoutEpochChange
<1>3. Committed' = {}
    BY <1>2 DEF Committed, clear_committee_selection_beacons
<1>4. \E members \in SUBSET Nodes : \E active \in SUBSET Nodes :
        committee' = NewCommittee(members, active)
    BY <1>1, EpochChangeType DEF RevealTimeoutEpochChange
<1>5. /\ Cardinality(committee'.ready_to_change) = 0
      /\ committee'.signalled_commit_phase_timeout = {}
      /\ committee'.signalled_reveal_phase_timeout = {}
      /\ committee'.members \in SUBSET Nodes
    BY <1>4, NoSignals DEF NewCommittee
<1>6. Threshold(committee'.members) \in Nat /\ Threshold(committee'.members) > 0
    BY <1>5, ThresholdType
<1>7. SignalsBelowThreshold' /\ SignalsFollowPhase'
    BY <1>2, <1>5, <1>6 DEF NoPhase, SignalsBelowThreshold, SignalsFollowPhase
<1>8. PhaseOfCurrentEpoch' /\ RevealPhaseHasQuorum'
    BY <1>2 DEF NoPhase, PhaseOfCurrentEpoch, RevealPhaseHasQuorum
<1>9. BeaconsOfEligibleMembers' /\ RevealsOpenThisRound'
    BY <1>3 DEF BeaconsOfEligibleMembers, RevealsOpenThisRound
<1> QED
    BY <1>1, <1>7, <1>8, <1>9 DEF IInv

\* A failed reveal phase may shrink the committee; the quorum does not grow, so
\* the epoch-change signals stay at it, and the timeout lists are emptied.
LEMMA RevealTimeoutRestartIInv ==
    ASSUME IInv, NEW n \in Nodes,
           RevealTimeoutRestart(n, phase.epoch, phase.round)
    PROVE  IInv'
<1>1. TypeOK /\ TypeOK'
    BY BeaconStepType DEF IInv, BeaconStep
<1>2. /\ committee \in Committee /\ phase.kind = "reveal"
      /\ phase' = CommitPhase(epoch, phase.round + 1)
      /\ beacons' = clear_committee_selection_beacons
      /\ epoch' = epoch
    BY <1>1 DEF TypeOK, RevealTimeoutRestart, RevealTimeoutGuard, RevealPhase
<1>3. Committed' = {}
    BY <1>2 DEF Committed, clear_committee_selection_beacons
<1>4. PICK kicked : committee' = clear_committee_selection_beacon_timeouts(
                                   KickAll(committee, kicked))
    BY DEF RevealTimeoutRestart
<1>5. /\ committee'.members = committee.members \ kicked
      /\ committee'.ready_to_change = committee.ready_to_change
      /\ committee'.signalled_commit_phase_timeout = {}
      /\ committee'.signalled_reveal_phase_timeout = {}
    BY <1>2, <1>4 DEF Committee, KickAll, clear_committee_selection_beacon_timeouts
<1>6. /\ Threshold(committee.members) \in Nat
      /\ Threshold(committee'.members) \in Nat
      /\ Threshold(committee'.members) > 0
      /\ Threshold(committee'.members) <= Threshold(committee.members)
  <2>1. /\ committee.members \in SUBSET Nodes
        /\ committee'.members \in SUBSET committee.members
        /\ committee'.members \in SUBSET Nodes
    BY <1>2, <1>5 DEF Committee
  <2> QED
    BY <2>1, ThresholdType, ThresholdMonotone
<1>7. Cardinality(committee.ready_to_change) \in Nat
    BY <1>2, NodeSets DEF Committee
<1>8. SignalsBelowThreshold' /\ SignalsFollowPhase'
    BY <1>2, <1>5, <1>6, <1>7, NoSignals
    DEF IInv, SignalsBelowThreshold, SignalsFollowPhase, CommitPhase
<1>9. PhaseOfCurrentEpoch' /\ RevealPhaseHasQuorum'
    BY <1>2 DEF PhaseOfCurrentEpoch, RevealPhaseHasQuorum, CommitPhase
<1>10. BeaconsOfEligibleMembers' /\ RevealsOpenThisRound'
    BY <1>3 DEF BeaconsOfEligibleMembers, RevealsOpenThisRound
<1> QED
    BY <1>1, <1>8, <1>9, <1>10 DEF IInv

\* Staking transactions and stuttering steps do not touch the beacon.
LEMMA FrameIInv ==
    ASSUME IInv, UNCHANGED beaconVars,
           \/ StakingStep
           \/ UNCHANGED stakingVars
    PROVE  IInv'
<1>1. /\ StakingTypeOK'
      /\ epoch' = epoch
      /\ \A m \in Nodes : Registered(m) => Registered(m)'
    BY StakingStepType DEF IInv, TypeOK, stakingVars, StakingTypeOK, Registered
<1>2. TypeOK'
    BY <1>1 DEF IInv, TypeOK, beaconVars
<1>3. SignalsBelowThreshold' /\ SignalsFollowPhase' /\ PhaseOfCurrentEpoch'
    BY <1>1 DEF IInv, SignalsBelowThreshold, SignalsFollowPhase, PhaseOfCurrentEpoch,
                Threshold, NoPhase, beaconVars
<1>4. RevealPhaseHasQuorum' /\ RevealsOpenThisRound'
    BY <1>1 DEF IInv, RevealPhaseHasQuorum, QuorumCommitted, RevealsOpenThisRound,
                ParticipatingMembers, Committed, Unrevealed, build, beaconVars
<1>5. BeaconsOfEligibleMembers'
    BY <1>1 DEF IInv, BeaconsOfEligibleMembers, ParticipatingMembers, Committed,
                beaconVars
<1> QED
    BY <1>2, <1>3, <1>4, <1>5 DEF IInv

\* One step of the specification keeps the invariant.
LEMMA NextIInv == IInv /\ [Next]_vars => IInv'
<1> SUFFICES ASSUME IInv, [Next]_vars PROVE IInv'
    OBVIOUS
<1>0. SubmittedCommits \subseteq Commit
    BY SubmittedType DEF IInv
<1>1. CASE BeaconStep
    BY <1>0, <1>1, ChangeEpochIInv, BeaconCommitIInv, BeaconRevealIInv, TimeoutSignalIInv,
       CommitTimeoutQuorumIInv, EpochChangeIInv, RevealTimeoutRestartIInv
    DEF BeaconStep
<1>2. CASE StakingStep /\ UNCHANGED beaconVars
    BY <1>2, FrameIInv
<1>3. CASE UNCHANGED vars
    BY <1>3, FrameIInv DEF vars
<1> QED
    BY <1>1, <1>2, <1>3 DEF Next

-----------------------------------------------------------------------------
(* The theorems.                                                           *)

\* The inductive invariant holds in every reachable state.
THEOREM Invariance == Spec => []IInv
BY InitIInv, NextIInv, PTL DEF Spec

\* Every reachable state is well typed; in particular slashing never meets a
\* node that is missing from the node table.
THEOREM TypeCorrect == Spec => []TypeOK
<1>1. IInv => TypeOK
    BY DEF IInv
<1> QED
    BY <1>1, Invariance, PTL

\* The equality tests on the signal lists are never overshot, however many
\* members are kicked.
THEOREM QuorumsNotMissed == Spec => [](SignalsBelowThreshold /\ SignalsFollowPhase)
<1>1. IInv => SignalsBelowThreshold /\ SignalsFollowPhase
    BY DEF IInv
<1> QED
    BY <1>1, Invariance, PTL

\* The debug_asserts of the commit and reveal transactions hold.
THEOREM PhaseEpochCorrect == Spec => []PhaseOfCurrentEpoch
<1>1. IInv => PhaseOfCurrentEpoch
    BY DEF IInv
<1> QED
    BY <1>1, Invariance, PTL

\* Commits come from eligible members only, and every reveal in the table opens
\* its commit for the current epoch and round.
THEOREM BeaconTableCorrect ==
    Spec => [](BeaconsOfEligibleMembers /\ RevealsOpenThisRound)
<1>1. IInv => BeaconsOfEligibleMembers /\ RevealsOpenThisRound
    BY DEF IInv
<1> QED
    BY <1>1, Invariance, PTL
\* An epoch change: the only step that moves the epoch.
LEMMA OnlyEpochChangeMovesEpoch ==
    ASSUME IInv, [Next]_vars, epoch' # epoch
    PROVE  \E n \in Nodes : RevealTimeoutEpochChange(n, phase.epoch, phase.round)
<1>1. StakingTypeOK
    BY DEF IInv, TypeOK
<1>2. ~UNCHANGED vars /\ ~StakingStep
    BY <1>1, StakingStepType DEF vars, stakingVars
<1> QED
    BY <1>2 DEF Next, BeaconStep, ChangeEpoch, BeaconCommit, BeaconReveal,
                CommitTimeoutSignal, CommitTimeoutQuorum, RevealTimeoutSignal,
                RevealTimeoutRestart, stakingVars

\* The epoch changes only at the end of a reveal phase in which all commits, of
\* more than two thirds of the participating members, were revealed.
THEOREM EpochChangeCorrect == Spec => EpochChangesOnFullReveal
<1>1. ASSUME IInv, [Next]_vars, epoch' # epoch
      PROVE  /\ epoch' = epoch + 1
             /\ phase.kind = "reveal"
             /\ Committed # {}
             /\ Unrevealed = {}
             /\ QuorumCommitted
  <2>1. PICK n \in Nodes : RevealTimeoutEpochChange(n, phase.epoch, phase.round)
    BY <1>1, OnlyEpochChangeMovesEpoch
  <2>2. phase.kind = "reveal" /\ Unrevealed = {}
    BY <2>1 DEF RevealTimeoutEpochChange, RevealTimeoutGuard, RevealPhase
  <2>3. epoch' = epoch + 1
    BY <1>1, <2>1, EpochChangeType DEF RevealTimeoutEpochChange, IInv
  <2>4. QuorumCommitted
    BY <1>1, <2>2 DEF IInv, RevealPhaseHasQuorum
  <2>5. Cardinality(ParticipatingMembers) \in Nat
    BY <1>1, NodeSets DEF IInv, TypeOK, Committee, ParticipatingMembers
  <2>6. Committed # {}
    <3>1. SUFFICES ASSUME Committed = {} PROVE FALSE
      OBVIOUS
    <3>2. Cardinality(Committed \cap ParticipatingMembers) = 0
      BY <3>1, NoSignals
    <3> QED
      BY <2>4, <2>5, <3>2 DEF QuorumCommitted, ParticipatingMembers
  <2> QED
    BY <2>2, <2>3, <2>4, <2>6
<1>2. IInv /\ [Next]_vars =>
        [epoch' # epoch =>
           /\ epoch' = epoch + 1
           /\ phase.kind = "reveal"
           /\ Committed # {}
           /\ Unrevealed = {}
           /\ QuorumCommitted]_vars
    BY <1>1
<1> QED
    BY <1>2, Invariance, PTL DEF Spec, EpochChangesOnFullReveal

-----------------------------------------------------------------------------
(* Penalties and the next committee.                                       *)

\* No staking transaction takes stake from a node without paying it out.
LEMMA StakingKeepsStake ==
    ASSUME StakingTypeOK, StakingStep, flk_balance' = flk_balance,
           NEW m \in Nodes, Registered(m)
    PROVE  ~(node_info'[m].staked + node_info'[m].locked
               < node_info[m].staked + node_info[m].locked)
<1> DEFINE Goal == ~(node_info'[m].staked + node_info'[m].locked
                       < node_info[m].staked + node_info[m].locked)
<1>0. /\ \A n \in Nodes : Registered(n) => node_info[n] \in NodeInfo
      /\ node_info[m].staked \in Nat /\ node_info[m].locked \in Nat
      /\ DOMAIN node_info = Nodes
    BY DEF StakingTypeOK, Registered, NodeInfo
<1>1. ASSUME NEW o \in Owners, NEW n \in Nodes, NEW a \in Amounts, Stake(o, n, a)
      PROVE  Goal
  <2>1. a \in Nat
    BY StakingAssumption DEF StakingAssumption
  <2>2. CASE n # m
    BY <1>0, <1>1, <2>2 DEF Stake
  <2>3. CASE n = m
    <3>1. node_info'[m] = [node_info[m] EXCEPT !.staked = node_info[m].staked + a]
      BY <1>0, <1>1, <2>3 DEF Stake, AddStake
    <3>2. /\ node_info'[m].staked = node_info[m].staked + a
          /\ node_info'[m].locked = node_info[m].locked
      BY <1>0, <3>1 DEF NodeInfo
    <3> QED
      BY <1>0, <2>1, <3>2
  <2> QED
    BY <2>2, <2>3
<1>2. ASSUME NEW o \in Owners, NEW n \in Nodes, NEW t \in 1 .. MaxStakeLockTime,
             StakeLock(o, n, t)
      PROVE  Goal
  <2>1. /\ node_info'[m].staked = node_info[m].staked
        /\ node_info'[m].locked = node_info[m].locked
    BY <1>0, <1>2 DEF StakeLock, NodeInfo
  <2> QED
    BY <1>0, <2>1
<1>3. ASSUME NEW o \in Owners, NEW n \in Nodes, NEW a \in Amounts, Unstake(o, n, a)
      PROVE  Goal
  <2>1. a \in Nat
    BY StakingAssumption DEF StakingAssumption
  <2>2. CASE n # m
    BY <1>0, <1>3, <2>2 DEF Unstake
  <2>3. CASE n = m
    <3> DEFINE moved == MoveToLocked(node_info[m], a)
    <3>1. /\ moved.staked = node_info[m].staked - a
          /\ moved.locked = node_info[m].locked + a
          /\ DOMAIN moved = DOMAIN node_info[m]
      BY <1>0 DEF MoveToLocked, NodeInfo
    <3>2. /\ OptOutIfBelowMinimum(moved).staked = moved.staked
          /\ OptOutIfBelowMinimum(moved).locked = moved.locked
      <4>1. CASE ~has_sufficient_unlocked_stake(moved) /\ is_participating(moved)
        <5>1. OptOutIfBelowMinimum(moved) = [moved EXCEPT !.participation = "OptedOut"]
          BY <4>1 DEF OptOutIfBelowMinimum
        <5>2. "staked" \in DOMAIN moved /\ "locked" \in DOMAIN moved
          BY <1>0, <3>1 DEF NodeInfo
        <5> HIDE DEF moved
        <5> QED
          BY <5>1, <5>2
      <4>2. CASE ~(~has_sufficient_unlocked_stake(moved) /\ is_participating(moved))
        BY <4>2 DEF OptOutIfBelowMinimum
      <4> QED
        BY <4>1, <4>2
    <3>3. node_info'[m] = OptOutIfBelowMinimum(moved)
      BY <1>0, <1>3, <2>3 DEF Unstake
    <3>4. node_info[m].staked >= a
      BY <1>3, <2>3 DEF Unstake
    <3> HIDE DEF moved
    <3> QED
      BY <1>0, <2>1, <3>1, <3>2, <3>3, <3>4
  <2> QED
    BY <2>2, <2>3
<1>4. ASSUME NEW o \in Owners, NEW n \in Nodes, NEW r \in Owners,
             WithdrawUnstaked(o, n, r)
      PROVE  Goal
  <2>1. node_info[n].locked \in Nat \ {0}
    BY <1>0, <1>4 DEF WithdrawUnstaked, NodeInfo
  <2>2. flk_balance'[r] = flk_balance[r] + node_info[n].locked /\ flk_balance[r] \in Nat
    BY <1>4 DEF WithdrawUnstaked, StakingTypeOK
  <2> QED
    BY <2>1, <2>2
<1>5. ASSUME NEW n \in Nodes, OptIn(n) \/ OptOut(n)
      PROVE  Goal
  <2>1. PICK p \in Participation :
          node_info' = [node_info EXCEPT ![n] = [node_info[n] EXCEPT !.participation = p]]
    BY <1>5 DEF OptIn, OptOut, Participation
  <2>2. /\ node_info'[m].staked = node_info[m].staked
        /\ node_info'[m].locked = node_info[m].locked
    BY <1>0, <2>1 DEF NodeInfo
  <2> QED
    BY <1>0, <2>2
<1> QED
    BY <1>1, <1>2, <1>3, <1>4, <1>5 DEF StakingStep

\* The epoch change touches only the participation of a node, and draws from the
\* nodes that participate or have opted in.
LEMMA EpochChangeDraws ==
    ASSUME TypeOK, execute_epoch_change
    PROVE  /\ \A n \in Nodes : Registered(n) =>
                /\ node_info'[n].staked = node_info[n].staked
                /\ node_info'[n].locked = node_info[n].locked
           /\ \A n \in committee'.active_node_set \cup committee'.members :
                node_info[n].participation \in {"True", "OptedIn"}
<1>1. PICK low \in SUBSET Nodes :
        LET info == SettleParticipation(node_info, low)
            candidates == {n \in get_node_registry(info) :
                             info[n].participation = "True"}
        IN  /\ node_info' = info
            /\ \E active \in settle_auction(candidates, info) :
                 \E members \in choose_new_committee(active) :
                   committee' = NewCommittee(members, active)
    BY DEF execute_epoch_change
<1> DEFINE info == SettleParticipation(node_info, low)
           candidates == {n \in get_node_registry(info) :
                            info[n].participation = "True"}
<1>2. PICK active \in settle_auction(candidates, info) :
             \E members \in choose_new_committee(active) :
               committee' = NewCommittee(members, active)
    BY <1>1
<1>3. PICK members \in choose_new_committee(active) :
             committee' = NewCommittee(members, active)
    BY <1>2
<1>4. active \subseteq candidates
    BY <1>2 DEF settle_auction
<1>5. members \subseteq active
    BY <1>3 DEF choose_new_committee
<1>6. ASSUME NEW n \in Nodes, node_info[n] \in NodeInfo
      PROVE  /\ info[n].staked = node_info[n].staked
             /\ info[n].locked = node_info[n].locked
             /\ info[n].participation = "True" =>
                  node_info[n].participation \in {"True", "OptedIn"}
  <2>1. node_info[n] # NoNode
    BY <1>6, BeaconAssumption DEF BeaconAssumption
  <2>2. info[n] = [node_info[n] EXCEPT !.participation =
                     CASE n \in low -> "False"
                       [] n \notin low /\ @ = "OptedIn" -> "True"
                       [] n \notin low /\ @ = "OptedOut" -> "False"
                       [] OTHER -> @]
    BY <2>1 DEF SettleParticipation
  <2> QED
    BY <1>6, <2>2 DEF NodeInfo, Participation
<1>7. ASSUME NEW n \in candidates
      PROVE  node_info[n].participation \in {"True", "OptedIn"}
  <2>1. n \in Nodes /\ info[n] # NoNode /\ info[n].participation = "True"
    BY DEF get_node_registry
  <2>2. node_info[n] # NoNode
    BY <2>1 DEF SettleParticipation
  <2>3. node_info[n] \in NodeInfo
    BY <2>1, <2>2 DEF TypeOK, StakingTypeOK
  <2> QED
    BY <1>6, <2>1, <2>3
<1>8. \A n \in Nodes : Registered(n) => node_info[n] \in NodeInfo
    BY DEF TypeOK, StakingTypeOK, Registered
<1>9. committee'.active_node_set \cup committee'.members \subseteq candidates
    BY <1>3, <1>4, <1>5 DEF NewCommittee
<1> HIDE DEF info, candidates
<1> QED
    BY <1>1, <1>6, <1>7, <1>8, <1>9 DEF info

\* A step that is neither a staking transaction, the end of a reveal phase nor an
\* epoch change leaves the nodes and the committee's members alone.
LEMMA OtherSteps ==
    ASSUME [Next]_vars, ~StakingStep,
           \A n \in Nodes : /\ ~RevealTimeoutEpochChange(n, phase.epoch, phase.round)
                            /\ ~RevealTimeoutRestart(n, phase.epoch, phase.round)
    PROVE  UNCHANGED stakingVars
BY DEF Next, BeaconStep, vars, ChangeEpoch, BeaconCommit, BeaconReveal,
       CommitTimeoutSignal, CommitTimeoutQuorum, RevealTimeoutSignal

\* Stake disappears only from members that committed and did not reveal, and the
\* committee loses only such members, when their stake no longer suffices.
THEOREM PenaltiesCorrect == Spec => PenaltiesDeserved
<1> DEFINE Slashed(n) == /\ Registered(n)
                         /\ node_info'[n].staked + node_info'[n].locked
                              < node_info[n].staked + node_info[n].locked
                         /\ flk_balance' = flk_balance
           Kicked == /\ committee'.members \subseteq committee.members
                     /\ \A n \in committee.members \ committee'.members :
                          n \in Unrevealed /\ ~has_sufficient_stake(node_info'[n])
<1>1. ASSUME IInv, [Next]_vars, NEW m \in Nodes, Slashed(m)
      PROVE  phase.kind = "reveal" /\ m \in Unrevealed
  <2>1. TypeOK /\ StakingTypeOK
    BY <1>1 DEF IInv, TypeOK
  <2>2. node_info[m].staked \in Nat /\ node_info[m].locked \in Nat
    BY <1>1, <2>1 DEF StakingTypeOK, Registered, NodeInfo
  <2>3. ~StakingStep
    BY <1>1, <2>1, StakingKeepsStake
  <2>4. ASSUME NEW n \in Nodes, RevealTimeoutEpochChange(n, phase.epoch, phase.round)
        PROVE  FALSE
    BY <1>1, <2>1, <2>2, <2>4, EpochChangeDraws DEF RevealTimeoutEpochChange
  <2>5. PICK n \in Nodes : RevealTimeoutRestart(n, phase.epoch, phase.round)
    <3>1. ~UNCHANGED stakingVars
      BY <1>1, <2>2 DEF stakingVars
    <3> QED
      BY <1>1, <2>3, <2>4, <3>1, OtherSteps
  <2>6. phase.kind = "reveal"
    BY <2>5 DEF RevealTimeoutRestart, RevealTimeoutGuard, RevealPhase
  <2>7. node_info' = SlashAll(Unrevealed)
    BY <2>5 DEF RevealTimeoutRestart
  <2> QED
    BY <1>1, <2>2, <2>6, <2>7 DEF SlashAll
<1>2. ASSUME IInv, [Next]_vars, epoch' = epoch
      PROVE  Kicked
  <2>1. TypeOK /\ StakingTypeOK /\ committee \in Committee
    BY <1>2 DEF IInv, TypeOK
  <2>2. ASSUME NEW n \in Nodes, RevealTimeoutEpochChange(n, phase.epoch, phase.round)
        PROVE  FALSE
    BY <1>2, <2>1, <2>2, EpochChangeType DEF RevealTimeoutEpochChange, StakingTypeOK
  <2>3. ASSUME NEW n \in Nodes, RevealTimeoutRestart(n, phase.epoch, phase.round)
        PROVE  Kicked
    <3> DEFINE kicked == {k \in Unrevealed : ~has_sufficient_stake(node_info'[k])}
    <3>1. committee' = clear_committee_selection_beacon_timeouts(KickAll(committee, kicked))
      BY <2>3 DEF RevealTimeoutRestart
    <3>2. committee'.members = committee.members \ kicked
      BY <2>1, <3>1 DEF clear_committee_selection_beacon_timeouts, KickAll, Committee
    <3> QED
      BY <3>2
  <2>4. ASSUME UNCHANGED committee.members
        PROVE  Kicked
    BY <2>4
  <2>5. CASE StakingStep /\ UNCHANGED beaconVars
    BY <2>4, <2>5 DEF beaconVars
  <2>6. CASE UNCHANGED vars
    BY <2>4, <2>6 DEF vars, beaconVars
  <2>7. ASSUME NEW n \in Nodes,
               \/ ChangeEpoch(n, epoch)
               \/ \E c \in SubmittedCommits : BeaconCommit(n, c)
               \/ \E v \in Values : BeaconReveal(n, v)
               \/ CommitTimeoutSignal(n, phase.epoch, phase.round)
               \/ CommitTimeoutQuorum(n, phase.epoch, phase.round)
               \/ RevealTimeoutSignal(n, phase.epoch, phase.round)
        PROVE  Kicked
    <3>1. UNCHANGED committee.members
      BY <2>1, <2>7
      DEF Committee, ChangeEpoch, BeaconCommit, BeaconReveal, CommitTimeoutSignal,
          CommitTimeoutQuorum, RevealTimeoutSignal,
          clear_committee_selection_beacon_timeouts
    <3> QED
      BY <2>4, <3>1
  <2> QED
    BY <1>2, <2>2, <2>3, <2>5, <2>6, <2>7 DEF Next, BeaconStep
<1>3. IInv /\ [Next]_vars =>
        [\A n \in Nodes : Slashed(n) => phase.kind = "reveal" /\ n \in Unrevealed]_vars
    BY <1>1
<1>4. IInv /\ [Next]_vars => [epoch' = epoch => Kicked]_vars
    BY <1>2
<1>5. Spec => OnlyNonRevealersAreSlashed
    BY <1>3, Invariance, PTL DEF Spec, OnlyNonRevealersAreSlashed
<1>6. Spec => MembersOnlyKicked
    BY <1>4, Invariance, PTL DEF Spec, MembersOnlyKicked
<1> QED
    BY <1>5, <1>6 DEF PenaltiesDeserved

\* What a staking transaction leaves of an opt-out, and of a node's stake.
LEMMA StakingKeepsOptOuts ==
    ASSUME StakingTypeOK, StakingStep, NEW n \in Nodes, Registered(n)
    PROVE  /\ epoch' = epoch
           /\ node_info[n].participation = "OptedOut" =>
                node_info'[n].participation \in {"OptedOut", "OptedIn"}
           /\ /\ is_participating(node_info[n])
              /\ has_sufficient_unlocked_stake(node_info[n])
              /\ ~has_sufficient_unlocked_stake(node_info'[n])
              => node_info'[n].participation = "OptedOut"
<1> DEFINE Keeps ==
        /\ epoch' = epoch
        /\ node_info[n].participation = "OptedOut" =>
             node_info'[n].participation \in {"OptedOut", "OptedIn"}
        /\ /\ is_participating(node_info[n])
           /\ has_sufficient_unlocked_stake(node_info[n])
           /\ ~has_sufficient_unlocked_stake(node_info'[n])
           => node_info'[n].participation = "OptedOut"
<1>1. /\ node_info \in [Nodes -> NodeInfo \cup {NoNode}]
      /\ node_info[n] \in NodeInfo
      /\ MinStake \in Nat /\ Amounts \subseteq Nat
    BY StakingAssumption DEF StakingTypeOK, Registered
<1>2. ASSUME NEW o \in Owners, NEW m \in Nodes, NEW a \in Amounts, Stake(o, m, a)
      PROVE  Keeps
  <2>1. CASE m = n
    <3>1. epoch' = epoch /\ node_info'[n] = [node_info[n] EXCEPT !.staked = @ + a]
      BY <1>1, <1>2, <2>1 DEF Stake, AddStake
    <3> QED
      BY <1>1, <1>2, <3>1 DEF NodeInfo, has_sufficient_unlocked_stake
  <2>2. CASE m # n
    BY <1>1, <1>2, <2>2 DEF Stake
  <2> QED
    BY <2>1, <2>2
<1>3. ASSUME NEW o \in Owners, NEW m \in Nodes, NEW t \in 1 .. MaxStakeLockTime,
             StakeLock(o, m, t)
      PROVE  Keeps
    BY <1>1, <1>3 DEF StakeLock, NodeInfo, has_sufficient_unlocked_stake
<1>4. ASSUME NEW o \in Owners, NEW m \in Nodes, NEW a \in Amounts, Unstake(o, m, a)
      PROVE  Keeps
  <2>1. CASE m = n
    <3> DEFINE moved == MoveToLocked(node_info[n], a)
    <3>1. epoch' = epoch /\ node_info'[n] = OptOutIfBelowMinimum(moved)
      BY <1>1, <1>4, <2>1 DEF Unstake
    <3>2. /\ moved.participation = node_info[n].participation
          /\ moved = [node_info[n] EXCEPT !.staked = @ - a, !.locked = @ + a,
                                          !.locked_until = epoch + LockTime]
      BY <1>1 DEF MoveToLocked, NodeInfo
    <3> HIDE DEF moved
    <3>3. CASE ~has_sufficient_unlocked_stake(moved) /\ is_participating(moved)
      <4>1. node_info'[n].participation = "OptedOut"
        BY <1>1, <3>1, <3>2, <3>3 DEF OptOutIfBelowMinimum, NodeInfo
      <4> QED
        BY <3>1, <4>1
    <3>4. CASE ~(~has_sufficient_unlocked_stake(moved) /\ is_participating(moved))
      <4>1. node_info'[n] = moved
        BY <3>1, <3>4 DEF OptOutIfBelowMinimum
      <4> QED
        BY <3>1, <3>2, <3>4, <4>1 DEF is_participating
    <3> QED
      BY <3>3, <3>4
  <2>2. CASE m # n
    BY <1>1, <1>4, <2>2 DEF Unstake
  <2> QED
    BY <2>1, <2>2
<1>5. ASSUME NEW o \in Owners, NEW m \in Nodes, NEW r \in Owners,
             WithdrawUnstaked(o, m, r)
      PROVE  Keeps
    BY <1>1, <1>5 DEF WithdrawUnstaked, NodeInfo, has_sufficient_unlocked_stake
<1>6. ASSUME NEW m \in Nodes, OptIn(m) \/ OptOut(m)
      PROVE  Keeps
    BY <1>1, <1>6 DEF OptIn, OptOut, NodeInfo, has_sufficient_unlocked_stake
<1> QED
    BY <1>2, <1>3, <1>4, <1>5, <1>6 DEF StakingStep

\* An opt-out lasts until the node opts in again or the epoch change makes it
\* final, falling below the minimum other than by a slash is one, and who is
\* opted out is not drawn at the epoch change.
THEOREM OptOutsCorrect == Spec => OptOutsAreNotDrawn
<1> DEFINE Drawn == \A n \in committee'.active_node_set \cup committee'.members :
                      node_info[n].participation \in {"True", "OptedIn"}
           Lasts(n) == node_info[n].participation = "OptedOut" =>
                         node_info'[n].participation \in
                           IF epoch' # epoch THEN {"False"} ELSE {"OptedOut", "OptedIn"}
           Leaves(n) == /\ is_participating(node_info[n])
                        /\ has_sufficient_unlocked_stake(node_info[n])
                        /\ ~has_sufficient_unlocked_stake(node_info'[n])
                        => node_info'[n].participation = "OptedOut"
<1>1. ASSUME IInv, [Next]_vars, epoch' # epoch
      PROVE  Drawn
  <2>1. PICK n \in Nodes : RevealTimeoutEpochChange(n, phase.epoch, phase.round)
    BY <1>1, OnlyEpochChangeMovesEpoch
  <2> QED
    BY <1>1, <2>1, EpochChangeDraws DEF RevealTimeoutEpochChange, IInv
<1>2. ASSUME IInv, [Next]_vars, NEW n \in Nodes, Registered(n)
      PROVE  Lasts(n) /\ (n \notin Unrevealed => Leaves(n))
  <2>1. /\ TypeOK /\ StakingTypeOK /\ epoch \in Nat
        /\ node_info \in [Nodes -> NodeInfo \cup {NoNode}]
        /\ node_info[n] \in NodeInfo
        /\ MinStake \in Nat /\ SlashAmount \in Nat
    BY <1>2, StakingAssumption, BeaconAssumption
    DEF IInv, TypeOK, StakingTypeOK, Registered
  <2>2. CASE StakingStep
    BY <1>2, <2>1, <2>2, StakingKeepsOptOuts
  <2>3. ASSUME NEW m \in Nodes, RevealTimeoutEpochChange(m, phase.epoch, phase.round)
        PROVE  Lasts(n) /\ Leaves(n)
    <3>1. PICK low \in SUBSET Nodes : node_info' = SettleParticipation(node_info, low)
      BY <2>3 DEF RevealTimeoutEpochChange, execute_epoch_change
    <3>2. epoch' = epoch + 1
      BY <2>3 DEF RevealTimeoutEpochChange, execute_epoch_change
    <3>3. node_info'[n].staked = node_info[n].staked
      BY <1>2, <2>1, <3>1 DEF SettleParticipation, Registered, NodeInfo
    <3>4. node_info[n].participation = "OptedOut" =>
            node_info'[n].participation = "False"
      BY <1>2, <2>1, <3>1 DEF SettleParticipation, Registered, NodeInfo
    <3> QED
      BY <2>1, <3>2, <3>3, <3>4 DEF has_sufficient_unlocked_stake
  <2>4. ASSUME NEW m \in Nodes, RevealTimeoutRestart(m, phase.epoch, phase.round)
        PROVE  Lasts(n) /\ (n \notin Unrevealed => Leaves(n))
    <3>1. node_info' = SlashAll(Unrevealed) /\ epoch' = epoch
      BY <2>4 DEF RevealTimeoutRestart
    <3>2. Slash(node_info[n]).participation = node_info[n].participation
      BY <2>1 DEF Slash, NodeInfo
    <3>3. CASE n \in Unrevealed
      BY <3>1, <3>2, <3>3 DEF SlashAll
    <3>4. CASE n \notin Unrevealed
      BY <3>1, <3>4 DEF SlashAll
    <3> QED
      BY <3>3, <3>4
  <2>5. CASE UNCHANGED stakingVars
    BY <2>5 DEF stakingVars
  <2> QED
    BY <1>2, <2>2, <2>3, <2>4, <2>5, OtherSteps
<1>3. IInv /\ [Next]_vars =>
        [/\ epoch' # epoch => Drawn
         /\ \A n \in Nodes : Registered(n) /\ node_info[n].participation = "OptedOut" =>
              node_info'[n].participation \in
                IF epoch' # epoch THEN {"False"} ELSE {"OptedOut", "OptedIn"}
         /\ \A n \in Nodes \ Unrevealed :
              /\ Registered(n)
              /\ is_participating(node_info[n])
              /\ has_sufficient_unlocked_stake(node_info[n])
              /\ ~has_sufficient_unlocked_stake(node_info'[n])
              => node_info'[n].participation = "OptedOut"]_vars
    BY <1>1, <1>2
<1> QED
    BY <1>3, Invariance, PTL DEF Spec, OptOutsAreNotDrawn

-----------------------------------------------------------------------------
(* The executor implements the README's process.                           *)

\* Genesis is the initial state of the process.
LEMMA ProcessInit == Init => Process!Init
BY DEF Init, StakingInit, NoPhase, Process!Init

\* Every transaction is a step of the process or none.
LEMMA ProcessNext ==
    ASSUME IInv, [Next]_vars
    PROVE  [Process!Next]_(Process!vars)
<1> USE DEF Process!Next, Process!vars
<1>1. IInv'
    BY NextIInv
<1>2. CASE UNCHANGED <<epoch, phase>>
    BY <1>2
<1>3. ASSUME NEW n \in Nodes, ChangeEpoch(n, epoch), phase' # phase
      PROVE  Process!Start
  <2>1. phase' = CommitPhase(epoch, 0) /\ epoch' = epoch
    BY <1>3 DEF ChangeEpoch, stakingVars
  <2>2. Cardinality(committee.ready_to_change \cup {n}) = Threshold(committee.members)
    BY <1>3 DEF ChangeEpoch, ChangeEpochStarts
  <2>3. /\ n \notin committee.ready_to_change
        /\ committee.ready_to_change \in SUBSET Nodes
        /\ Threshold(committee.members) \in Nat
    BY <1>3, ThresholdType DEF ChangeEpoch, ChangeEpochGuard, IInv, TypeOK, Committee
  <2>4. /\ Cardinality(committee.ready_to_change) \in Nat
        /\ Cardinality(committee.ready_to_change) < Threshold(committee.members)
    BY <2>2, <2>3, AddSignal, NodeSets
  <2>5. phase.kind = "none"
    BY <2>3, <2>4 DEF IInv, SignalsFollowPhase
  <2> QED
    BY <2>1, <2>5 DEF Process!Start, CommitPhase
<1>4. ASSUME NEW n \in Nodes, CommitTimeoutQuorum(n, phase.epoch, phase.round)
      PROVE  Process!RestartCommit \/ Process!StartReveal
    BY <1>4 DEF CommitTimeoutQuorum, CommitTimeoutGuard, CommitPhase, RevealPhase,
                stakingVars, Process!RestartCommit, Process!StartReveal
<1>5. ASSUME NEW n \in Nodes, RevealTimeoutEpochChange(n, phase.epoch, phase.round)
      PROVE  Process!ChangeEpoch
    BY <1>5, EpochChangeType
    DEF RevealTimeoutEpochChange, RevealTimeoutGuard, RevealPhase, NoPhase,
        Process!ChangeEpoch, IInv
<1>6. ASSUME NEW n \in Nodes, RevealTimeoutRestart(n, phase.epoch, phase.round)
      PROVE  Process!FailReveal
    BY <1>6 DEF RevealTimeoutRestart, RevealTimeoutGuard, RevealPhase, CommitPhase,
                Process!FailReveal
<1>7. CASE BeaconStep /\ ~UNCHANGED <<epoch, phase>>
    BY <1>3, <1>4, <1>5, <1>6, <1>7
    DEF BeaconStep, ChangeEpoch, BeaconCommit, BeaconReveal, CommitTimeoutSignal,
        RevealTimeoutSignal, stakingVars
<1>8. StakingStep => epoch' = epoch
    BY StakingStepType DEF IInv, TypeOK
<1> QED
    BY <1>2, <1>7, <1>8 DEF Next, vars, beaconVars, stakingVars

\* The executor's transactions implement the process: in every epoch the beacon
\* starts once, rounds increase by one, and the epoch follows a reveal phase.
THEOREM Refinement == Spec => ImplementsProcess
<1>1. IInv /\ [Next]_vars => [Process!Next]_(Process!vars)
    BY ProcessNext
<1> QED
    BY <1>1, ProcessInit, Invariance, PTL
    DEF Spec, ImplementsProcess, Process!Spec

-----------------------------------------------------------------------------
(* The committee nodes.                                                    *)

\* What is said of a transaction in flight, and of a node's commit on chain.
TxInv(n, tx) ==
    /\ tx.method = "Commit" => Saved(n, tx.commit) /\ Begun(tx.commit)
    /\ tx.method = "Reveal" => Over(tx.commit)

FlightInv == \A n \in Nodes : \A tx \in InFlight(n) : TxInv(n, tx)

ChainInv ==
    \A n \in Committed : Saved(n, beacons[n].commit) /\ Begun(beacons[n].commit)

LEMMA NodeParts == NodeInv <=> NodeTypeOK /\ FlightInv /\ ChainInv
BY DEF NodeInv, SecretDurable, NoneAhead, NoEarlyReveal, FlightInv, ChainInv, TxInv,
       Committed

LEMMA NodePartsNext == NodeInv' <=> NodeTypeOK' /\ FlightInv' /\ ChainInv'
BY NodeParts, PTL

Methods == {"ChangeEpoch", "Commit", "Reveal", "CommitTimeout", "RevealTimeout"}
DriverStates ==
    [pc : {"begin", "epoch", "loop", "commit", "middle", "reveal", "done"},
     epoch : Nat, round : Nat]
ListenerStates == [pc : {"idle", "submit", "wait"}, tx : Tx]

PoolType ==
    /\ pool \in [Nodes -> Seq(Tx)]
    /\ \A n \in Nodes : Len(pool[n]) <= MaxPool

\* The type invariant by the part of the state it is about.
LEMMA TypeParts ==
    NodeTypeOK <=> /\ TypeOK /\ PoolType
                   /\ driver \in [Nodes -> DriverStates]
                   /\ listener \in [Nodes -> ListenerStates]
                   /\ db \in [Nodes -> SUBSET Commit]
                   /\ crashes \in 0 .. MaxCrashes
BY DEF NodeTypeOK, PoolType, DriverStates, ListenerStates

LEMMA TypePartsNext ==
    NodeTypeOK' <=> /\ TypeOK' /\ PoolType'
                    /\ driver' \in [Nodes -> DriverStates]
                    /\ listener' \in [Nodes -> ListenerStates]
                    /\ db' \in [Nodes -> SUBSET Commit]
                    /\ crashes' \in 0 .. MaxCrashes
BY DEF NodeTypeOK, PoolType, DriverStates, ListenerStates

-----------------------------------------------------------------------------
(* Transactions and queues.                                                *)

\* A signal names an epoch and a round, and no secret.
LEMMA SignalType ==
    ASSUME NEW e \in Nat, NEW r \in Nat, NEW method \in Methods
    PROVE  Signal(method, e, r) \in Tx /\ Signal(method, e, r).method = method
<1>1. (CHOOSE v \in Values : TRUE) \in Values
    BY NodeAssumption DEF NodeAssumption
<1> QED
    BY <1>1 DEF Signal, build, Tx, Commit, Methods

LEMMA TxType ==
    ASSUME NEW tx \in Tx
    PROVE  tx.method \in Methods /\ tx.commit \in Commit
BY DEF Tx, Methods

LEMMA NewDriverType == TypeOK => NewDriver \in DriverStates
BY DEF TypeOK, StakingTypeOK, NewDriver, DriverStates

LEMMA IdleType == Idle \in ListenerStates /\ Idle.pc = "idle"
BY SignalType DEF Idle, ListenerStates, Methods

\* What is in flight is a transaction.
LEMMA FlightType ==
    ASSUME NodeTypeOK, NEW n \in Nodes
    PROVE  InFlight(n) \subseteq Tx
<1>1. pool[n] \in Seq(Tx) /\ listener[n].tx \in Tx
    BY DEF NodeTypeOK
<1> QED
    BY <1>1 DEF InFlight, Queued

\* A transaction is signed: the queue stays within its bound, and one more is in
\* flight.
LEMMA SignPool ==
    ASSUME NodeTypeOK, NEW n \in Nodes, NEW tx \in Tx, CanSign(n, tx), Sign(n, tx)
    PROVE  /\ PoolType'
           /\ \A m \in Nodes : Queued(m)' \subseteq Queued(m) \cup {tx}
           /\ \A m \in Nodes \ {n} : Queued(m)' \subseteq Queued(m)
<1>1. /\ pool \in [Nodes -> Seq(Tx)] /\ pool[n] \in Seq(Tx)
      /\ pool' = [pool EXCEPT ![n] = Append(pool[n], tx)]
      /\ Len(pool[n]) < MaxPool
    BY DEF NodeTypeOK, Sign, CanSign
<1>2. /\ pool'[n] = Append(pool[n], tx)
      /\ \A m \in Nodes \ {n} : pool'[m] = pool[m]
    BY <1>1
<1>3. /\ Append(pool[n], tx) \in Seq(Tx)
      /\ Len(Append(pool[n], tx)) = Len(pool[n]) + 1
      /\ Len(pool[n]) \in Nat
    BY <1>1
<1>4. pool' \in [Nodes -> Seq(Tx)]
    BY <1>1, <1>3
<1>5. Len(Append(pool[n], tx)) <= MaxPool
    BY <1>1, <1>3, NodeAssumption DEF NodeAssumption
<1>6. PoolType'
    BY <1>2, <1>4, <1>5 DEF PoolType, NodeTypeOK
<1>7. Queued(n)' \subseteq Queued(n) \cup {tx}
  <2>1. ASSUME NEW i \in 1 .. Len(Append(pool[n], tx))
        PROVE  Append(pool[n], tx)[i] \in Queued(n) \cup {tx}
    BY <1>1, <1>3 DEF Queued
  <2> QED
    BY <1>2, <2>1 DEF Queued
<1>8. \A m \in Nodes \ {n} : Queued(m)' \subseteq Queued(m)
    BY <1>2 DEF Queued
<1> QED
    BY <1>6, <1>7, <1>8

\* A queue loses its first transaction, or its last ones in a crash.
LEMMA ShorterPool ==
    ASSUME NodeTypeOK, NEW n \in Nodes, NEW q \in Seq(Tx), Len(q) <= Len(pool[n]),
           \A i \in 1 .. Len(q) : \E j \in 1 .. Len(pool[n]) : q[i] = pool[n][j],
           pool' = [pool EXCEPT ![n] = q]
    PROVE  PoolType' /\ \A m \in Nodes : Queued(m)' \subseteq Queued(m)
<1>1. /\ pool \in [Nodes -> Seq(Tx)] /\ pool[n] \in Seq(Tx) /\ Len(pool[n]) <= MaxPool
    BY DEF NodeTypeOK
<1>2. pool'[n] = q /\ \A m \in Nodes \ {n} : pool'[m] = pool[m]
    BY <1>1
<1>3. pool' \in [Nodes -> Seq(Tx)]
    BY <1>1
<1>4. Len(q) <= MaxPool
    BY <1>1, NodeAssumption DEF NodeAssumption
<1>5. PoolType'
    BY <1>2, <1>3, <1>4 DEF PoolType, NodeTypeOK
<1>6. Queued(n)' \subseteq Queued(n)
    BY <1>2 DEF Queued
<1>7. \A m \in Nodes \ {n} : Queued(m)' \subseteq Queued(m)
    BY <1>2 DEF Queued
<1> QED
    BY <1>5, <1>6, <1>7

-----------------------------------------------------------------------------
(* The chain: what the executed transactions do to the phase and the       *)
(* commits.                                                                *)

\* The process moves on: within an epoch no commit phase comes back, and a new
\* epoch starts without commits.
MovesOn ==
    \/ /\ epoch' = epoch
       /\ phase.kind # "none" =>
            /\ phase'.kind # "none"
            /\ phase.round <= phase'.round
            /\ phase.kind = "reveal" /\ phase'.kind = "commit" => phase.round < phase'.round
    \/ epoch' = epoch + 1 /\ Committed' = {}

\* A commit on chain was there before, or is that of the executed transaction.
CommitsFrom(n, tx) ==
    \A m \in Committed' :
      \/ m \in Committed /\ beacons'[m].commit = beacons[m].commit
      \/ m = n /\ tx.method = "Commit" /\ beacons'[m].commit = tx.commit

\* An executed transaction is one of the executor's steps, except that its commit
\* may be of any round and epoch.
LEMMA EffectIsStep ==
    ASSUME IInv, NEW n \in Nodes, NEW tx \in Tx, TxEffect(n, tx)
    PROVE  BeaconStep \/ (tx.method = "Commit" /\ BeaconCommit(n, tx.commit))
<1>1. tx.commit.value \in Values
    BY TxType DEF Commit
<1>2. CASE ChangeEpoch(n, tx.commit.epoch)
    BY <1>2 DEF ChangeEpoch, ChangeEpochGuard, BeaconStep
<1>3. CASE BeaconReveal(n, tx.commit.value)
    BY <1>1, <1>3 DEF BeaconStep
<1>4. ASSUME NEW e, NEW r, CommitTimeoutGuard(n, e, r) \/ RevealTimeoutGuard(n, e, r)
      PROVE  e = phase.epoch /\ r = phase.round
    BY <1>4 DEF CommitTimeoutGuard, RevealTimeoutGuard, CommitPhase, RevealPhase
<1> DEFINE e == tx.commit.epoch
           r == tx.commit.round
<1>5. CASE CommitTimeoutSignal(n, e, r) \/ CommitTimeoutQuorum(n, e, r)
  <2>1. e = phase.epoch /\ r = phase.round
    BY <1>4, <1>5 DEF CommitTimeoutSignal, CommitTimeoutQuorum
  <2> QED
    BY <1>5, <2>1 DEF BeaconStep
<1>6. CASE \/ RevealTimeoutSignal(n, e, r) \/ RevealTimeoutEpochChange(n, e, r)
           \/ RevealTimeoutRestart(n, e, r)
  <2>1. e = phase.epoch /\ r = phase.round
    BY <1>4, <1>6
    DEF RevealTimeoutSignal, RevealTimeoutEpochChange, RevealTimeoutRestart
  <2> QED
    BY <1>6, <2>1 DEF BeaconStep
<1> QED
    BY <1>2, <1>3, <1>5, <1>6 DEF TxEffect

\* The process the executor implements moves on.
LEMMA StepMovesOn ==
    ASSUME IInv, BeaconStep
    PROVE  MovesOn
<1>1. [Next]_vars
    BY DEF Next
<1>2. [Process!Next]_(Process!vars)
    BY <1>1, ProcessNext
<1>3. phase \in Phase /\ phase.round \in Nat /\ epoch \in Nat
    BY DEF IInv, TypeOK, StakingTypeOK, Phase
<1>4. CASE epoch' = epoch
  <2>1. epoch # epoch + 1
    BY <1>3
  <2> QED
    BY <1>2, <1>3, <1>4, <2>1
    DEF MovesOn, Process!Next, Process!vars, Process!Start, Process!RestartCommit,
        Process!StartReveal, Process!FailReveal, Process!ChangeEpoch
<1>5. CASE epoch' # epoch
  <2>1. PICK n \in Nodes : RevealTimeoutEpochChange(n, phase.epoch, phase.round)
    BY <1>1, <1>5, OnlyEpochChangeMovesEpoch
  <2>2. Committed' = {}
    BY <2>1 DEF RevealTimeoutEpochChange, clear_committee_selection_beacons, Committed
  <2>3. epoch' = epoch + 1
    BY <2>1 DEF RevealTimeoutEpochChange, execute_epoch_change
  <2> QED
    BY <2>2, <2>3 DEF MovesOn
<1> QED
    BY <1>4, <1>5

LEMMA EffectCommits ==
    ASSUME TypeOK, NEW n \in Nodes, NEW tx \in Tx, TxEffect(n, tx)
    PROVE  CommitsFrom(n, tx)
<1>1. beacons \in [Nodes -> Beacon \cup {NoBeacon}]
    BY DEF TypeOK
<1>2. CASE beacons' = beacons
    BY <1>2 DEF CommitsFrom, Committed
<1>3. CASE beacons' = clear_committee_selection_beacons
    BY <1>3 DEF CommitsFrom, Committed, clear_committee_selection_beacons
<1>4. CASE tx.method = "Commit" /\ BeaconCommit(n, tx.commit)
  <2>1. beacons' = [beacons EXCEPT ![n] = [commit |-> tx.commit, reveal |-> NoReveal]]
    BY <1>4 DEF BeaconCommit
  <2>2. /\ beacons'[n].commit = tx.commit
        /\ \A m \in Nodes \ {n} : beacons'[m] = beacons[m]
    BY <1>1, <2>1
  <2> QED
    BY <1>4, <2>2 DEF CommitsFrom, Committed
<1>5. CASE BeaconReveal(n, tx.commit.value)
  <2>1. /\ beacons' = [beacons EXCEPT ![n].reveal = tx.commit.value]
        /\ beacons[n] # NoBeacon
    BY <1>5 DEF BeaconReveal, RevealGuard
  <2>2. beacons[n] \in Beacon
    BY <1>1, <2>1
  <2>3. /\ beacons'[n].commit = beacons[n].commit
        /\ \A m \in Nodes \ {n} : beacons'[m] = beacons[m]
    BY <1>1, <2>1, <2>2 DEF Beacon
  <2> QED
    BY <2>1, <2>3 DEF CommitsFrom, Committed
<1> QED
    BY <1>2, <1>3, <1>4, <1>5
    DEF TxEffect, ChangeEpoch, CommitTimeoutSignal, CommitTimeoutQuorum,
        RevealTimeoutSignal, RevealTimeoutEpochChange, RevealTimeoutRestart

\* One executed transaction, or a reverted one.
LEMMA ChainStep ==
    ASSUME IInv, NEW n \in Nodes, NEW tx \in Tx, TxEffect(n, tx) \/ UNCHANGED vars
    PROVE  IInv' /\ MovesOn /\ CommitsFrom(n, tx)
<1>1. phase.round \in Nat
    BY DEF IInv, TypeOK, Phase
<1>2. CASE UNCHANGED vars
  <2>1. IInv'
    BY <1>2, NextIInv
  <2> QED
    BY <1>1, <1>2, <2>1 DEF vars, stakingVars, beaconVars, MovesOn, CommitsFrom, Committed
<1>3. CASE TxEffect(n, tx)
  <2>1. CommitsFrom(n, tx)
    BY <1>3, EffectCommits DEF IInv
  <2>2. CASE BeaconStep
    BY <2>1, <2>2, StepMovesOn, NextIInv DEF Next
  <2>3. CASE BeaconCommit(n, tx.commit)
    <3>1. IInv'
      BY <2>3, TxType, BeaconCommitIInv
    <3>2. MovesOn
      BY <1>1, <2>3 DEF BeaconCommit, stakingVars, MovesOn
    <3> QED
      BY <2>1, <3>1, <3>2
  <2> QED
    BY <1>3, <2>2, <2>3, EffectIsStep
<1> QED
    BY <1>2, <1>3

\* A phase that has begun, or is over, stays so.
LEMMA BegunStays ==
    ASSUME IInv, IInv', MovesOn, NEW c \in Commit
    PROVE  /\ Begun(c) => Begun(c)'
           /\ Over(c) => Over(c)'
<1>1. /\ c.epoch \in Nat /\ c.round \in Nat
      /\ epoch \in Nat /\ phase.round \in Nat /\ phase'.round \in Nat
      /\ phase'.kind \in {"none", "commit", "reveal"}
    BY DEF Commit, IInv, TypeOK, StakingTypeOK, Phase
<1>2. CASE epoch' = epoch + 1
    BY <1>1, <1>2 DEF Begun, Over
<1>3. CASE epoch' = epoch
  <2>1. CASE phase.kind = "none"
    BY <1>3, <2>1 DEF Begun, Over
  <2>2. CASE phase.kind # "none"
    <3>1. /\ phase'.kind # "none" /\ phase.round <= phase'.round
          /\ phase.kind = "reveal" /\ phase'.kind = "commit" => phase.round < phase'.round
      BY <1>1, <1>3, <2>2 DEF MovesOn
    <3>2. Begun(c) => Begun(c)'
      BY <1>1, <1>3, <3>1 DEF Begun
    <3>3. Over(c) => Over(c)'
      BY <1>1, <1>3, <3>1 DEF Over
    <3> QED
      BY <3>2, <3>3
  <2> QED
    BY <2>1, <2>2
<1> QED
    BY <1>2, <1>3 DEF MovesOn

\* A saved commit stays saved when the chain moves: in a new epoch it no longer
\* matters.
LEMMA SavedStays ==
    ASSUME IInv, MovesOn, NEW n \in Nodes, NEW c \in Commit, Begun(c), Saved(n, c),
           db' = db
    PROVE  Saved(n, c)'
<1>1. c.epoch \in Nat /\ epoch \in Nat /\ c.epoch <= epoch
    BY DEF Commit, IInv, TypeOK, StakingTypeOK, Begun
<1>2. CASE epoch' = epoch
    BY <1>2 DEF Saved
<1>3. CASE epoch' = epoch + 1
    BY <1>1, <1>3 DEF Saved
<1> QED
    BY <1>2, <1>3 DEF MovesOn

-----------------------------------------------------------------------------
(* The steps.                                                              *)

LEMMA ExecuteTxStep ==
    ASSUME IInv, NodeInv, NEW n \in Nodes, ExecuteTx(n)
    PROVE  IInv' /\ NodeInv'
<1> DEFINE tx == Head(pool[n])
<1>1. /\ pool[n] # << >> /\ pool' = [pool EXCEPT ![n] = Tail(pool[n])]
      /\ UNCHANGED <<driver, listener, db, crashes>>
      /\ TxEffect(n, tx) \/ UNCHANGED vars
    BY DEF ExecuteTx
<1>2. NodeTypeOK /\ FlightInv /\ ChainInv /\ pool[n] \in Seq(Tx)
    BY NodeParts DEF NodeTypeOK
<1>3. /\ tx \in Tx /\ Tail(pool[n]) \in Seq(Tx) /\ Len(Tail(pool[n])) <= Len(pool[n])
      /\ tx = pool[n][1] /\ 1 \in 1 .. Len(pool[n])
    BY <1>1, <1>2
<1>4. \A i \in 1 .. Len(Tail(pool[n])) :
        \E j \in 1 .. Len(pool[n]) : Tail(pool[n])[i] = pool[n][j]
  <2>1. ASSUME NEW i \in 1 .. Len(Tail(pool[n]))
        PROVE  /\ i + 1 \in 1 .. Len(pool[n])
               /\ Tail(pool[n])[i] = pool[n][i + 1]
    BY <1>1, <1>2
  <2> QED
    BY <2>1
<1>5. PoolType' /\ \A m \in Nodes : Queued(m)' \subseteq Queued(m)
    BY <1>1, <1>2, <1>3, <1>4, ShorterPool
<1>6. tx \in InFlight(n)
    BY <1>3 DEF InFlight, Queued
<1> HIDE DEF tx
<1>7. IInv' /\ MovesOn /\ CommitsFrom(n, tx)
    BY <1>1, <1>3, ChainStep
<1>8. NodeTypeOK'
    BY <1>1, <1>2, <1>5, <1>7, TypeParts, TypePartsNext DEF IInv
<1>9. FlightInv'
  <2> SUFFICES ASSUME NEW m \in Nodes, NEW t \in InFlight(m)'
               PROVE  TxInv(m, t)'
    BY DEF FlightInv
  <2>1. t \in InFlight(m)
    BY <1>1, <1>5 DEF InFlight
  <2>2. TxInv(m, t) /\ t.commit \in Commit
    BY <1>2, <2>1, FlightType, TxType DEF FlightInv
  <2> QED
    BY <1>1, <1>7, <2>2, BegunStays, SavedStays DEF TxInv
<1>10. ChainInv'
  <2> SUFFICES ASSUME NEW m \in Committed'
               PROVE  (Saved(m, beacons[m].commit) /\ Begun(beacons[m].commit))'
    BY DEF ChainInv
  <2>1. m \in Nodes
    BY DEF Committed
  <2>2. PICK c : c = beacons'[m].commit
    OBVIOUS
  <2>3. c \in Commit
    <3>1. beacons'[m] \in Beacon
      BY <1>7, <2>1 DEF IInv, TypeOK, Committed
    <3> QED
      BY <2>2, <3>1 DEF Beacon
  <2>4. Saved(m, c) /\ Begun(c)
    <3>1. CASE m \in Committed /\ beacons'[m].commit = beacons[m].commit
      BY <1>2, <2>2, <3>1 DEF ChainInv
    <3>2. CASE m = n /\ tx.method = "Commit" /\ beacons'[m].commit = tx.commit
      BY <1>2, <1>6, <2>2, <3>2 DEF FlightInv, TxInv
    <3> QED
      BY <1>7, <3>1, <3>2 DEF CommitsFrom
  <2>5. Saved(m, c)' /\ Begun(c)'
    BY <1>1, <1>7, <2>1, <2>3, <2>4, BegunStays, SavedStays
  <2> QED
    BY <2>2, <2>5 DEF Saved, Begun
<1> QED
    BY <1>7, <1>8, <1>9, <1>10, NodePartsNext

\* A step that leaves the chain alone, keeps every saved commit of the current
\* epoch and puts nothing in flight but a good transaction.
LEMMA LocalStep ==
    ASSUME IInv, NodeInv, UNCHANGED vars, NodeTypeOK',
           \A m \in Nodes : \A c \in db[m] : c.epoch = epoch => c \in db'[m],
           \A m \in Nodes : \A tx \in InFlight(m)' : tx \in InFlight(m) \/ TxInv(m, tx)'
    PROVE  IInv' /\ NodeInv'
<1>1. FlightInv /\ ChainInv
    BY NodeParts
<1>2. UNCHANGED <<epoch, phase, beacons>>
    BY DEF vars, stakingVars, beaconVars
<1>3. IInv'
    BY NextIInv
<1>4. ASSUME NEW c
      PROVE  (Begun(c) => Begun(c)') /\ (Over(c) => Over(c)')
    BY <1>2 DEF Begun, Over
<1>5. ASSUME NEW m \in Nodes, NEW c, Saved(m, c)
      PROVE  Saved(m, c)'
    BY <1>2, <1>5 DEF Saved
<1>6. FlightInv'
  <2> SUFFICES ASSUME NEW m \in Nodes, NEW t \in InFlight(m)'
               PROVE  TxInv(m, t)'
    BY DEF FlightInv
  <2>1. CASE t \in InFlight(m)
    <3>1. TxInv(m, t)
      BY <1>1, <2>1 DEF FlightInv
    <3>2. PICK c : c = t.commit
      OBVIOUS
    <3>3. /\ t.method = "Commit" => Saved(m, c)' /\ Begun(c)'
          /\ t.method = "Reveal" => Over(c)'
      BY <1>4, <1>5, <3>1, <3>2 DEF TxInv
    <3> QED
      BY <3>2, <3>3 DEF TxInv
  <2> QED
    BY <2>1
<1>7. ChainInv'
  <2> SUFFICES ASSUME NEW m \in Committed'
               PROVE  (Saved(m, beacons[m].commit) /\ Begun(beacons[m].commit))'
    BY DEF ChainInv
  <2>1. m \in Committed /\ m \in Nodes
    BY <1>2 DEF Committed
  <2>2. PICK c : c = beacons[m].commit
    OBVIOUS
  <2>3. Saved(m, c)' /\ Begun(c)'
    BY <1>1, <1>4, <1>5, <2>1, <2>2 DEF ChainInv
  <2> QED
    BY <1>2, <2>2, <2>3 DEF Saved, Begun
<1> QED
    BY <1>3, <1>6, <1>7, NodePartsNext

\* A transition task waits: only its own state changes.
LEMMA DriverWaits ==
    ASSUME IInv, NodeInv, UNCHANGED <<vars, pool, listener, db, crashes>>,
           NEW n \in Nodes, NEW d \in DriverStates, driver' = [driver EXCEPT ![n] = d]
    PROVE  IInv' /\ NodeInv'
<1>1. NodeTypeOK /\ TypeOK
    BY NodeParts DEF IInv
<1>2. driver' \in [Nodes -> DriverStates] /\ TypeOK'
    BY <1>1, TypeParts, NextIInv DEF IInv
<1>3. NodeTypeOK'
    BY <1>1, <1>2, TypeParts, TypePartsNext DEF PoolType
<1>4. \A m \in Nodes : InFlight(m)' \subseteq InFlight(m)
    BY DEF InFlight, Queued
<1> QED
    BY <1>3, <1>4, LocalStep

\* A transition task signs a signal, which names no secret.
LEMMA DriverSigns ==
    ASSUME IInv, NodeInv, UNCHANGED <<vars, driver, listener, db, crashes>>,
           NEW n \in Nodes, NEW tx \in Tx, tx.method \notin {"Commit", "Reveal"},
           CanSign(n, tx), Sign(n, tx)
    PROVE  IInv' /\ NodeInv'
<1>1. NodeTypeOK /\ TypeOK'
    BY NodeParts, NextIInv DEF IInv
<1>2. PoolType' /\ \A m \in Nodes : Queued(m)' \subseteq Queued(m) \cup {tx}
    BY <1>1, SignPool
<1>3. NodeTypeOK'
    BY <1>1, <1>2, TypeParts, TypePartsNext
<1>4. \A m \in Nodes : InFlight(m)' \subseteq InFlight(m) \cup {tx}
    BY <1>2 DEF InFlight
<1>5. \A m \in Nodes : TxInv(m, tx)'
    BY DEF TxInv
<1> QED
    BY <1>3, <1>4, <1>5, LocalStep

LEMMA DriverStepInv ==
    ASSUME IInv, NodeInv, NEW n \in Nodes, DriverStep(n)
    PROVE  IInv' /\ NodeInv'
<1>1. /\ driver \in [Nodes -> DriverStates] /\ epoch \in Nat
      /\ phase.round \in Nat /\ phase.epoch \in Nat
    BY NodeParts, TypeParts DEF IInv, TypeOK, StakingTypeOK, Phase
<1>2. driver[n].epoch \in Nat /\ driver[n].round \in Nat
    BY <1>1 DEF DriverStates
<1>3. ASSUME NEW pc \in {"begin", "epoch", "loop", "commit", "middle", "reveal", "done"},
             NEW e \in Nat, NEW r \in Nat
      PROVE  [pc |-> pc, epoch |-> e, round |-> r] \in DriverStates
    BY DEF DriverStates
<1>4. CASE \/ DriverBegin(n) \/ DriverLoop(n) \/ DriverMiddle(n)
           \/ DriverEpochTick(n) \/ DriverCommitTick(n) \/ DriverRevealTick(n)
  <2>1. UNCHANGED <<vars, pool, listener, db, crashes>>
    BY <1>4 DEF DriverBegin, DriverLoop, DriverMiddle, DriverEpochTick,
                DriverCommitTick, DriverRevealTick
  <2>2. PICK pc \in {"begin", "epoch", "loop", "commit", "middle", "reveal", "done"},
             e \in Nat, r \in Nat : Go(n, pc, e, r)
    BY <1>1, <1>2, <1>4
    DEF DriverBegin, DriverLoop, DriverMiddle, DriverEpochTick,
        DriverCommitTick, DriverRevealTick, GoOn
  <2>3. driver' = [driver EXCEPT ![n] = [pc |-> pc, epoch |-> e, round |-> r]]
    BY <2>2 DEF Go
  <2> QED
    BY <1>3, <2>1, <2>3, DriverWaits
<1>5. CASE DriverNextEpoch(n)
    BY <1>5, NewDriverType, DriverWaits DEF DriverNextEpoch, IInv
<1>6. CASE DriverEpochSignal(n)
    BY <1>1, <1>6, SignalType, DriverSigns DEF DriverEpochSignal, Methods
<1>7. CASE DriverCommitSignal(n)
    BY <1>2, <1>7, SignalType, DriverSigns DEF DriverCommitSignal, Methods
<1>8. CASE DriverRevealSignal(n)
    BY <1>2, <1>8, SignalType, DriverSigns DEF DriverRevealSignal, Methods
<1> QED
    BY <1>4, <1>5, <1>6, <1>7, <1>8 DEF DriverStep

\* What the listener is doing, once it is written.
LEMMA ListenState ==
    ASSUME NodeTypeOK, NEW n \in Nodes, NEW pc \in {"idle", "submit", "wait"},
           NEW tx \in Tx, Listen(n, pc, tx)
    PROVE  /\ listener' \in [Nodes -> ListenerStates]
           /\ listener'[n].tx = tx
           /\ \A m \in Nodes \ {n} : listener'[m] = listener[m]
<1>1. [pc |-> pc, tx |-> tx] \in ListenerStates
    BY DEF ListenerStates
<1>2. listener \in [Nodes -> ListenerStates]
    BY TypeParts
<1> QED
    BY <1>1, <1>2 DEF Listen

\* The listener takes up a commit or a reveal: one more transaction is in flight.
LEMMA ListenerTakesUp ==
    ASSUME IInv, NodeInv, UNCHANGED <<vars, pool, driver, crashes>>, NEW n \in Nodes,
           NEW tx \in Tx, Listen(n, "submit", tx), TxInv(n, tx)',
           db' \in [Nodes -> SUBSET Commit], \A m \in Nodes : db[m] \subseteq db'[m]
    PROVE  IInv' /\ NodeInv'
<1>1. NodeTypeOK /\ TypeOK'
    BY NodeParts, NextIInv DEF IInv
<1>2. /\ listener' \in [Nodes -> ListenerStates]
      /\ listener'[n].tx = tx
      /\ \A m \in Nodes \ {n} : listener'[m] = listener[m]
    BY <1>1, ListenState
<1>3. NodeTypeOK'
    BY <1>1, <1>2, TypeParts, TypePartsNext DEF PoolType
<1>4. /\ InFlight(n)' \subseteq InFlight(n) \cup {tx}
      /\ \A m \in Nodes \ {n} : InFlight(m)' \subseteq InFlight(m)
    BY <1>2 DEF InFlight, Queued
<1>5. \A m \in Nodes : \A t \in InFlight(m)' : t \in InFlight(m) \/ TxInv(m, t)'
    BY <1>4
<1> QED
    BY <1>3, <1>5, LocalStep

LEMMA ListenerCommitStep ==
    ASSUME IInv, NodeInv, NEW n \in Nodes, ListenerCommit(n)
    PROVE  IInv' /\ NodeInv'
<1>1. PICK c \in CommitsFor(n, epoch, phase.round) :
        db' = [db EXCEPT ![n] = @ \cup {c}] /\ Listen(n, "submit", CommitTx(c))
    BY DEF ListenerCommit
<1>2. /\ phase.kind = "commit" /\ UNCHANGED <<vars, pool, driver, crashes>>
      /\ epoch' = epoch /\ phase' = phase
    BY DEF ListenerCommit, vars, stakingVars, beaconVars
<1>3. /\ db \in [Nodes -> SUBSET Commit]
      /\ epoch \in Nat /\ phase.round \in Nat
    BY NodeParts, TypeParts DEF IInv, TypeOK, StakingTypeOK, Phase
<1>4. c \in Commit /\ c.epoch = epoch /\ c.round = phase.round
    BY <1>3 DEF CommitsFor, GeneratedCommits, build, Commit
<1>5. CommitTx(c) \in Tx /\ CommitTx(c).method = "Commit" /\ CommitTx(c).commit = c
    BY <1>4 DEF CommitTx, Tx
<1>6. /\ db' \in [Nodes -> SUBSET Commit] /\ c \in db'[n]
      /\ \A m \in Nodes : db[m] \subseteq db'[m]
    BY <1>1, <1>3, <1>4
<1>7. Saved(n, c)'
    BY <1>6 DEF Saved
<1>8. Begun(c)'
    BY <1>2, <1>3, <1>4 DEF Begun
<1>9. TxInv(n, CommitTx(c))'
  <2>1. PICK t : t = CommitTx(c)
    OBVIOUS
  <2>2. TxInv(n, t)'
    BY <1>5, <1>7, <1>8, <2>1 DEF TxInv
  <2> QED
    BY <2>1, <2>2
<1> QED
    BY <1>1, <1>2, <1>5, <1>6, <1>9, ListenerTakesUp

LEMMA ListenerRevealStep ==
    ASSUME IInv, NodeInv, NEW n \in Nodes, ListenerReveal(n)
    PROVE  IInv' /\ NodeInv'
<1>1. PICK c : c = beacons[n].commit
    OBVIOUS
<1>2. /\ phase.kind = "reveal" /\ UNCHANGED <<vars, pool, driver, db, crashes>>
      /\ epoch' = epoch /\ phase' = phase
      /\ n \in Committed /\ c \in db[n] /\ c.epoch = epoch
      /\ Listen(n, "submit", RevealTx(c))
    BY <1>1 DEF ListenerReveal, vars, stakingVars, beaconVars, Unrevealed
<1>3. db \in [Nodes -> SUBSET Commit] /\ epoch \in Nat
    BY NodeParts, TypeParts DEF IInv, TypeOK, StakingTypeOK
<1>4. c \in Commit /\ Begun(c)
    BY <1>1, <1>2, <1>3, NodeParts DEF ChainInv
<1>5. RevealTx(c) \in Tx /\ RevealTx(c).method = "Reveal" /\ RevealTx(c).commit = c
    BY <1>4 DEF RevealTx, Tx
<1>6. Over(c)'
    BY <1>2, <1>3, <1>4 DEF Over, Begun
<1>7. TxInv(n, RevealTx(c))'
  <2>1. PICK t : t = RevealTx(c)
    OBVIOUS
  <2>2. TxInv(n, t)'
    BY <1>5, <1>6, <2>1 DEF TxInv
  <2> QED
    BY <2>1, <2>2
<1> QED
    BY <1>2, <1>3, <1>5, <1>7, ListenerTakesUp

\* The listener signs the transaction it holds, the first time or again.
LEMMA ListenerSigns ==
    ASSUME IInv, NodeInv, NEW n \in Nodes, ListenerSubmit(n) \/ ListenerRetry(n)
    PROVE  IInv' /\ NodeInv'
<1> DEFINE tx == listener[n].tx
<1>1. /\ UNCHANGED <<vars, driver, db, crashes>>
      /\ CanSign(n, tx) /\ Sign(n, tx) /\ listener[n].pc # "idle"
      /\ Listen(n, "wait", tx) \/ listener' = listener
    BY DEF ListenerSubmit, ListenerRetry
<1>2. NodeTypeOK /\ TypeOK'
    BY <1>1, NodeParts, NextIInv DEF IInv
<1>3. tx \in Tx /\ listener \in [Nodes -> ListenerStates]
    BY <1>2, TypeParts DEF ListenerStates
<1>4. tx \in InFlight(n)
    BY <1>1 DEF InFlight
<1>5. /\ PoolType'
      /\ \A m \in Nodes : Queued(m)' \subseteq Queued(m) \cup {tx}
      /\ \A m \in Nodes \ {n} : Queued(m)' \subseteq Queued(m)
    BY <1>1, <1>2, <1>3, SignPool
<1>6. /\ listener' \in [Nodes -> ListenerStates]
      /\ listener'[n].tx = tx
      /\ \A m \in Nodes \ {n} : listener'[m] = listener[m]
    BY <1>1, <1>2, <1>3, ListenState
<1>7. NodeTypeOK'
    BY <1>1, <1>2, <1>5, <1>6, TypeParts, TypePartsNext
<1> HIDE DEF tx
<1>8. \A m \in Nodes : InFlight(m)' \subseteq InFlight(m)
    BY <1>4, <1>5, <1>6 DEF InFlight
<1> QED
    BY <1>1, <1>7, <1>8, LocalStep

LEMMA ListenerDoneStep ==
    ASSUME IInv, NodeInv, NEW n \in Nodes, ListenerDone(n)
    PROVE  IInv' /\ NodeInv'
<1>1. /\ UNCHANGED <<vars, pool, driver, db, crashes>>
      /\ listener' = [listener EXCEPT ![n] = Idle]
    BY DEF ListenerDone
<1>2. NodeTypeOK /\ TypeOK' /\ listener \in [Nodes -> ListenerStates]
    BY <1>1, NodeParts, TypeParts, NextIInv DEF IInv
<1>3. /\ listener' \in [Nodes -> ListenerStates] /\ listener'[n].pc = "idle"
      /\ \A m \in Nodes \ {n} : listener'[m] = listener[m]
    BY <1>1, <1>2, IdleType
<1>4. NodeTypeOK'
    BY <1>1, <1>2, <1>3, TypeParts, TypePartsNext DEF PoolType
<1>5. \A m \in Nodes : InFlight(m)' \subseteq InFlight(m)
    BY <1>1, <1>3 DEF InFlight, Queued
<1> QED
    BY <1>1, <1>4, <1>5, LocalStep

LEMMA ListenerClearStep ==
    ASSUME IInv, NodeInv, NEW n \in Nodes, ListenerClear(n)
    PROVE  IInv' /\ NodeInv'
<1>1. /\ UNCHANGED <<vars, pool, driver, listener, crashes>>
      /\ db' = [db EXCEPT ![n] = {c \in db[n] : c.epoch >= epoch}]
    BY DEF ListenerClear
<1>2. NodeTypeOK /\ TypeOK' /\ db \in [Nodes -> SUBSET Commit] /\ epoch \in Nat
    BY <1>1, NodeParts, TypeParts, NextIInv DEF IInv, TypeOK, StakingTypeOK
<1>3. /\ db' \in [Nodes -> SUBSET Commit]
      /\ \A m \in Nodes : \A c \in db[m] : c.epoch = epoch => c \in db'[m]
    BY <1>1, <1>2
<1>4. NodeTypeOK'
    BY <1>1, <1>2, <1>3, TypeParts, TypePartsNext DEF PoolType
<1>5. \A m \in Nodes : InFlight(m)' \subseteq InFlight(m)
    BY <1>1 DEF InFlight, Queued
<1> QED
    BY <1>1, <1>3, <1>4, <1>5, LocalStep

LEMMA CrashStep ==
    ASSUME IInv, NodeInv, NEW n \in Nodes, Crash(n)
    PROVE  IInv' /\ NodeInv'
<1>1. PICK k \in 0 .. Len(pool[n]) : pool' = [pool EXCEPT ![n] = SubSeq(@, 1, k)]
    BY DEF Crash
<1>2. /\ UNCHANGED vars /\ db' = db
      /\ crashes < MaxCrashes /\ crashes' = crashes + 1
      /\ listener' = [listener EXCEPT ![n] = Idle]
      /\ driver' = [driver EXCEPT ![n] = NewDriver]
    BY DEF Crash
<1>3. /\ NodeTypeOK /\ TypeOK /\ TypeOK' /\ pool[n] \in Seq(Tx)
      /\ listener \in [Nodes -> ListenerStates] /\ driver \in [Nodes -> DriverStates]
      /\ crashes \in 0 .. MaxCrashes
    BY <1>2, NodeParts, TypeParts, NextIInv DEF IInv, PoolType
<1> DEFINE q == SubSeq(pool[n], 1, k)
<1>4. /\ q \in Seq(Tx) /\ Len(q) = k /\ Len(q) <= Len(pool[n])
      /\ \A i \in 1 .. Len(q) : i \in 1 .. Len(pool[n]) /\ q[i] = pool[n][i]
    BY <1>3
<1>5. pool' = [pool EXCEPT ![n] = q]
    BY <1>1
<1> HIDE DEF q
<1>6. PoolType' /\ \A m \in Nodes : Queued(m)' \subseteq Queued(m)
    BY <1>3, <1>4, <1>5, ShorterPool
<1>7. /\ listener' \in [Nodes -> ListenerStates] /\ listener'[n].pc = "idle"
      /\ \A m \in Nodes \ {n} : listener'[m] = listener[m]
    BY <1>2, <1>3, IdleType
<1>8. driver' \in [Nodes -> DriverStates]
    BY <1>2, <1>3, NewDriverType
<1>9. crashes' \in 0 .. MaxCrashes
    BY <1>2, <1>3, NodeAssumption DEF NodeAssumption
<1>10. NodeTypeOK'
    BY <1>2, <1>3, <1>6, <1>7, <1>8, <1>9, TypeParts, TypePartsNext
<1>11. \A m \in Nodes : InFlight(m)' \subseteq InFlight(m)
    BY <1>6, <1>7 DEF InFlight
<1> QED
    BY <1>2, <1>10, <1>11, LocalStep

-----------------------------------------------------------------------------
LEMMA NodeInitInv == NodeInit => IInv /\ NodeInv
<1> SUFFICES ASSUME NodeInit PROVE IInv /\ NodeInv
    OBVIOUS
<1>1. IInv
    BY InitIInv DEF NodeInit
<1>2. PoolType /\ \A n \in Nodes : Queued(n) = {}
    BY NodeAssumption DEF NodeInit, PoolType, Queued, NodeAssumption
<1>3. NodeTypeOK
    BY <1>1, <1>2, TypeParts, NewDriverType, IdleType, NodeAssumption
    DEF NodeInit, IInv, NodeAssumption
<1>4. FlightInv
    BY <1>2, IdleType DEF NodeInit, FlightInv, InFlight
<1>5. ChainInv
    BY DEF NodeInit, Init, ChainInv, Committed
<1> QED
    BY <1>1, <1>3, <1>4, <1>5, NodeParts

LEMMA NodeNextInv ==
    IInv /\ NodeInv /\ [NodeNext]_allVars => IInv' /\ NodeInv'
<1> SUFFICES ASSUME IInv, NodeInv, [NodeNext]_allVars PROVE IInv' /\ NodeInv'
    OBVIOUS
<1>1. ASSUME NEW n \in Nodes, ExecuteTx(n) \/ DriverStep(n) \/ Crash(n)
      PROVE  IInv' /\ NodeInv'
    BY <1>1, ExecuteTxStep, DriverStepInv, CrashStep
<1>2. ASSUME NEW n \in Nodes, ListenerStep(n)
      PROVE  IInv' /\ NodeInv'
    BY <1>2, ListenerCommitStep, ListenerRevealStep, ListenerSigns, ListenerDoneStep,
       ListenerClearStep
    DEF ListenerStep
<1>3. CASE UNCHANGED allVars
  <2>1. UNCHANGED vars /\ UNCHANGED <<pool, driver, listener, db, crashes>>
    BY <1>3 DEF allVars, nodeVars
  <2>2. NodeTypeOK /\ TypeOK'
    BY <2>1, NodeParts, NextIInv DEF IInv
  <2>3. NodeTypeOK'
    BY <2>1, <2>2, TypeParts, TypePartsNext DEF PoolType
  <2>4. \A m \in Nodes : InFlight(m)' \subseteq InFlight(m)
    BY <2>1 DEF InFlight, Queued
  <2> QED
    BY <2>1, <2>3, <2>4, LocalStep
<1> QED
    BY <1>1, <1>2, <1>3 DEF NodeNext

\* Whatever is retried, reordered between the nodes or lost in a crash, a node's
\* secrets (handle_commit_phase, handle_reveal_phase) are saved before their
\* commits can be executed, no commit is ahead of the chain, and no reveal is
\* submitted before its commit phase is over.
THEOREM NodesCorrect == NodeSpec => []NodeInv
BY NodeInitInv, NodeNextInv, PTL DEF NodeSpec

\* The executor's invariant does not depend on which commits are submitted: it
\* holds with the nodes' own queues, stale and repeated transactions included.
THEOREM ExecutorCorrectWithNodes == NodeSpec => []IInv
BY NodeInitInv, NodeNextInv, PTL DEF NodeSpec
=============================================================================
