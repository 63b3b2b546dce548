--------------------------- MODULE CommitteeBeacon ---------------------------
(***************************************************************************)
(* The epoch-change state machine of the application: the committee        *)
(* signals that the epoch is over, runs a commit-reveal random beacon, and *)
(* at the end of a successful reveal phase the executor draws the next     *)
(* committee.  Nodes that commit and do not reveal are slashed, and kicked *)
(* from the committee when their stake falls below the minimum.            *)
(*                                                                         *)
(* State: the metadata entry `CommitteeSelectionBeaconPhase`, the tables   *)
(* `committee_selection_beacon` and                                        *)
(* `committee_selection_beacon_non_revealing_node`, and the entry of       *)
(* `committee_info` for the current epoch (older entries are never read    *)
(* again by these transactions).  A vector that is only pushed to after a  *)
(* `contains` test is a set.  One action is one successful transaction,    *)
(* executed in the total order consensus gives; a reverted one changes     *)
(* nothing here.                                                           *)
(*                                                                         *)
(* SHA3 is an injective constructor: `build` returns its preimage.  The    *)
(* committee drawn from the combined reveals is any one of the right size; *)
(* the nodes whose measured uptime is too low are any set.  No delivery    *)
(* acknowledgements, jobs or content updates are submitted here, so the    *)
(* reward pool is zero (distribute_rewards returns at once) and the epoch  *)
(* change finds nothing to do in the job and content tables.               *)
(***************************************************************************)
EXTENDS Staking

CONSTANTS GenesisCommittee,\* the genesis nodes on the first committee
          Values,          \* the random values a node may commit to
          CommitteeSize,   \* ProtocolParamKey::CommitteeSize
          NodeCount,       \* ProtocolParamKey::NodeCount
          SlashAmount,     \* ...BeaconNonRevealSlashAmount
          NoReveal,        \* a beacon whose reveal is None
          NoBeacon         \* the node has no entry in the beacon table

VARIABLES phase,         \* Metadata::CommitteeSelectionBeaconPhase
          beacons,       \* committee_selection_beacon
          non_revealing, \* committee_selection_beacon_non_revealing_node
          committee      \* committee_info[epoch]

beaconVars == <<phase, beacons, non_revealing, committee>>
vars == <<stakingVars, beaconVars>>

Commit == [epoch : Nat, round : Nat, value : Values]
Beacon == [commit : Commit, reveal : Values \cup {NoReveal}]
Phase == [kind : {"none", "commit", "reveal"}, epoch : Nat, round : Nat]
Committee ==
    [members : SUBSET Nodes,
     active_node_set : SUBSET Nodes,
     ready_to_change : SUBSET Nodes,
     signalled_commit_phase_timeout : SUBSET Nodes,
     signalled_reveal_phase_timeout : SUBSET Nodes]

ASSUME BeaconAssumption ==
    /\ GenesisCommittee \subseteq GenesisNodes
    /\ CommitteeSize \in Nat
    /\ NodeCount \in Nat
    /\ SlashAmount \in Nat
    /\ NoReveal \notin Values
    /\ NoBeacon \notin Beacon
    /\ NoNode \notin NodeInfo

-----------------------------------------------------------------------------
\* CommitteeSelectionBeaconCommit::build: the hash of epoch, round and reveal.
build(e, r, value) == [epoch |-> e, round |-> r, value |-> value]

NoPhase == [kind |-> "none", epoch |-> 0, round |-> 0]
CommitPhase(e, r) == [kind |-> "commit", epoch |-> e, round |-> r]
RevealPhase(e, r) == [kind |-> "reveal", epoch |-> e, round |-> r]

Committed == {n \in Nodes : beacons[n] # NoBeacon}
Unrevealed == {n \in Committed : beacons[n].reveal = NoReveal}

\* More than two thirds of the committee.
Threshold(members) == (2 * Cardinality(members)) \div 3 + 1

-----------------------------------------------------------------------------
NewCommittee(members, active) ==
    [members |-> members,
     active_node_set |-> active,
     ready_to_change |-> {},
     signalled_commit_phase_timeout |-> {},
     signalled_reveal_phase_timeout |-> {}]

\* The genesis block makes some of its nodes the first committee.
Init ==
    /\ StakingInit
    /\ phase = NoPhase
    /\ beacons = [n \in Nodes |-> NoBeacon]
    /\ non_revealing = {}
    /\ committee = NewCommittee(GenesisCommittee, GenesisNodes)

\* Mutations: the test as an inequality, or one signal too strict.
ChangeEpochStartsAgain(ready, members) == Cardinality(ready) >= Threshold(members)
ChangeEpochStartsLate(ready, members) == Cardinality(ready) > Threshold(members)

\* change_epoch: the signal that starts the beacon when it completes two
\* thirds.  The test is an equality, so that it succeeds once.
ChangeEpochStarts(ready, members) == Cardinality(ready) = Threshold(members)

ChangeEpochGuard(n, e) ==
    /\ only_node_with_sufficient_stake_and_participating(n)
    /\ e = epoch
    /\ n \in committee.members
    /\ n \notin committee.ready_to_change

ChangeEpoch(n, e) ==
    /\ ChangeEpochGuard(n, e)
    /\ LET ready == committee.ready_to_change \cup {n}
       IN  /\ committee' = [committee EXCEPT !.ready_to_change = ready]
           /\ phase' = IF ChangeEpochStarts(ready, committee.members)
                       THEN CommitPhase(e, 0) ELSE phase
    /\ UNCHANGED <<stakingVars, beacons, non_revealing>>

\* Mutation: a node that failed to reveal may commit in the next round.
CommitGuardNoExclusion(n) ==
    /\ only_node_with_sufficient_stake_and_participating(n)
    /\ n \in committee.members
    /\ n \in committee.active_node_set
    /\ phase.kind = "commit"
    /\ beacons[n] = NoBeacon

\* committee_selection_beacon_commit: the commit itself is not inspected.
CommitGuard(n) ==
    /\ only_node_with_sufficient_stake_and_participating(n)
    /\ n \in committee.members
    /\ n \in committee.active_node_set
    /\ n \notin non_revealing
    /\ phase.kind = "commit"
    /\ beacons[n] = NoBeacon

BeaconCommit(n, commit) ==
    /\ CommitGuard(n)
    /\ beacons' = [beacons EXCEPT ![n] = [commit |-> commit, reveal |-> NoReveal]]
    /\ UNCHANGED <<stakingVars, phase, non_revealing, committee>>

\* Mutation: the reveal is not checked against the commit.
RevealGuardUnchecked(n, value) ==
    /\ only_node_with_sufficient_stake_and_participating(n)
    /\ phase.kind = "reveal"
    /\ n \in committee.members
    /\ beacons[n] # NoBeacon
    /\ beacons[n].reveal = NoReveal

\* committee_selection_beacon_reveal: the reveal must open the commit for the
\* current epoch and the round of the phase.
RevealGuard(n, value) ==
    /\ only_node_with_sufficient_stake_and_participating(n)
    /\ phase.kind = "reveal"
    /\ n \in committee.members
    /\ beacons[n] # NoBeacon
    /\ beacons[n].reveal = NoReveal
    /\ beacons[n].commit = build(epoch, phase.round, value)

BeaconReveal(n, value) ==
    /\ RevealGuard(n, value)
    /\ beacons' = [beacons EXCEPT ![n].reveal = value]
    /\ UNCHANGED <<stakingVars, phase, non_revealing, committee>>

\* Mutation: the values are cleared, the keys stay.
ClearValuesOnly == [n \in Nodes |-> NoReveal]

clear_committee_selection_beacons == [n \in Nodes |-> NoBeacon]

\* Mutations: a list of signals is not cleared.
ClearNoTimeouts(c) == c
ClearCommitTimeouts(c) == [c EXCEPT !.signalled_commit_phase_timeout = {}]

clear_committee_selection_beacon_timeouts(c) ==
    [c EXCEPT !.signalled_commit_phase_timeout = {},
              !.signalled_reveal_phase_timeout = {}]

\* The members that were not excluded for failing to reveal.
ParticipatingMembers == committee.members \ non_revealing

\* Mutation: two thirds, rounded down, are enough.
ParticipationRoundedDown ==
    Cardinality(Committed \cap ParticipatingMembers)
        >= (2 * Cardinality(ParticipatingMembers)) \div 3

SufficientParticipation ==
    Cardinality(Committed \cap ParticipatingMembers)
        > (2 * Cardinality(ParticipatingMembers)) \div 3

CommitTimeoutGuard(n, e, r) ==
    /\ only_node_with_sufficient_stake(n)
    /\ phase = CommitPhase(e, r)
    /\ n \in committee.members
    /\ n \notin committee.signalled_commit_phase_timeout

\* The signal that is not the last one of the quorum is only recorded.
CommitTimeoutSignal(n, e, r) ==
    /\ CommitTimeoutGuard(n, e, r)
    /\ LET signalled == committee.signalled_commit_phase_timeout \cup {n}
       IN  /\ Cardinality(signalled) # Threshold(committee.members)
           /\ committee' = [committee EXCEPT
                              !.signalled_commit_phase_timeout = signalled]
    /\ UNCHANGED <<stakingVars, phase, beacons, non_revealing>>

\* The signal that completes the quorum ends the commit phase: with enough
\* commits the reveal phase starts, without them a new commit round.
CommitTimeoutQuorum(n, e, r) ==
    /\ CommitTimeoutGuard(n, e, r)
    /\ LET signalled == committee.signalled_commit_phase_timeout \cup {n}
           recorded == [committee EXCEPT
                          !.signalled_commit_phase_timeout = signalled]
       IN  /\ Cardinality(signalled) = Threshold(committee.members)
           /\ \/ /\ SufficientParticipation
                 /\ phase' = RevealPhase(epoch, r)
                 /\ committee' = recorded
                 /\ UNCHANGED <<beacons, non_revealing>>
              \/ /\ ~SufficientParticipation
                 /\ phase' = CommitPhase(epoch, r + 1)
                 /\ beacons' = clear_committee_selection_beacons
                 /\ non_revealing' = {}
                 /\ committee' = clear_committee_selection_beacon_timeouts(recorded)
    /\ UNCHANGED stakingVars

\* slash_node_after_non_reveal_and_maybe_kick: the stake pays first, then the
\* locked stake, neither below zero.
Slash(info) ==
    LET remaining == IF info.staked >= SlashAmount
                     THEN 0 ELSE SlashAmount - info.staked
    IN  [info EXCEPT
           !.staked = IF @ >= SlashAmount THEN @ - SlashAmount ELSE 0,
           !.locked = IF @ >= remaining THEN @ - remaining ELSE 0]

\* Mutation: every committed node is slashed.
SlashCommitted(nodes) ==
    [n \in Nodes |-> IF n \in Committed THEN Slash(node_info[n]) ELSE node_info[n]]

SlashAll(nodes) ==
    [n \in Nodes |-> IF n \in nodes THEN Slash(node_info[n]) ELSE node_info[n]]

\* Mutation: the members that stay are those that did not commit.
KickCommitted(c, kicked) ==
    [c EXCEPT !.members = @ \ Committed, !.active_node_set = @ \ kicked]

KickAll(c, kicked) ==
    [c EXCEPT !.members = @ \ kicked, !.active_node_set = @ \ kicked]

\* settle_auction: the NodeCount nodes with the highest stakes; reputation
\* decides between equal stakes.
settle_auction(nodes, info) ==
    IF Cardinality(nodes) <= NodeCount
    THEN {nodes}
    ELSE {winners \in SUBSET nodes :
            /\ Cardinality(winners) = NodeCount
            /\ \A w \in winners, l \in nodes \ winners :
                 info[w].staked >= info[l].staked}

\* choose_new_committee: all active nodes, or CommitteeSize of them in an order
\* shuffled with the combined reveals.
choose_new_committee(active) ==
    IF CommitteeSize >= Cardinality(active)
    THEN {active}
    ELSE {m \in SUBSET active : Cardinality(m) = CommitteeSize}

\* Mutation: an opt-out is forgotten at the epoch change.
SettleOptInsOnly(info, lowUptime) ==
    [n \in Nodes |->
       IF info[n] = NoNode THEN NoNode
       ELSE [info[n] EXCEPT !.participation =
               CASE n \in lowUptime -> "False"
                 [] n \notin lowUptime /\ @ \in {"OptedIn", "OptedOut"} -> "True"
                 [] OTHER -> @]]

\* The participation part of calculate_reputation_scores: opt-ins and opt-outs
\* take effect, and a node with too little uptime stops participating.
SettleParticipation(info, lowUptime) ==
    [n \in Nodes |->
       IF info[n] = NoNode THEN NoNode
       ELSE [info[n] EXCEPT !.participation =
               CASE n \in lowUptime -> "False"
                 [] n \notin lowUptime /\ @ = "OptedIn" -> "True"
                 [] n \notin lowUptime /\ @ = "OptedOut" -> "False"
                 [] OTHER -> @]]

execute_epoch_change ==
    \E lowUptime \in SUBSET Nodes :
      LET info == SettleParticipation(node_info, lowUptime)
          candidates == {n \in get_node_registry(info) :
                           info[n].participation = "True"}
      IN  /\ node_info' = info
          /\ \E active \in settle_auction(candidates, info) :
               \E members \in choose_new_committee(active) :
                 committee' = NewCommittee(members, active)
          /\ epoch' = epoch + 1
          /\ UNCHANGED flk_balance

RevealTimeoutGuard(n, e, r) ==
    /\ only_node_with_sufficient_stake(n)
    /\ phase = RevealPhase(e, r)
    /\ n \in committee.members
    /\ n \notin committee.signalled_reveal_phase_timeout

RevealTimeoutSignal(n, e, r) ==
    /\ RevealTimeoutGuard(n, e, r)
    /\ LET signalled == committee.signalled_reveal_phase_timeout \cup {n}
       IN  /\ Cardinality(signalled) # Threshold(committee.members)
           /\ committee' = [committee EXCEPT
                              !.signalled_reveal_phase_timeout = signalled]
    /\ UNCHANGED <<stakingVars, phase, beacons, non_revealing>>

\* Mutation: one signal more than there can be.
RevealTimeoutUnreached(n) ==
    Cardinality(committee.signalled_reveal_phase_timeout \cup {n})
        > Threshold(committee.members)

RevealTimeoutReached(n) ==
    Cardinality(committee.signalled_reveal_phase_timeout \cup {n})
        = Threshold(committee.members)

\* Mutations: the phase is not cleared; the epoch changes without all reveals.
EpochChangeKeepsPhase(n, e, r) ==
    /\ RevealTimeoutGuard(n, e, r)
    /\ RevealTimeoutReached(n)
    /\ Unrevealed = {}
    /\ beacons' = clear_committee_selection_beacons
    /\ non_revealing' = {}
    /\ execute_epoch_change
    /\ UNCHANGED phase

EpochChangeOnSomeReveal(n, e, r) ==
    /\ RevealTimeoutGuard(n, e, r)
    /\ RevealTimeoutReached(n)
    /\ Unrevealed # Committed
    /\ phase' = NoPhase
    /\ beacons' = clear_committee_selection_beacons
    /\ non_revealing' = {}
    /\ execute_epoch_change

\* The quorum's last signal when every committed node has revealed: the epoch
\* changes.
RevealTimeoutEpochChange(n, e, r) ==
    /\ RevealTimeoutGuard(n, e, r)
    /\ RevealTimeoutReached(n)
    /\ Unrevealed = {}
    /\ phase' = NoPhase
    /\ beacons' = clear_committee_selection_beacons
    /\ non_revealing' = {}
    /\ execute_epoch_change

\* The quorum's last signal when some committed node has not revealed: it is
\* slashed, excluded from the next round and perhaps kicked, and a new commit
\* round starts.
RevealTimeoutRestart(n, e, r) ==
    /\ RevealTimeoutGuard(n, e, r)
    /\ RevealTimeoutReached(n)
    /\ Unrevealed # {}
    /\ phase' = CommitPhase(epoch, r + 1)
    /\ beacons' = clear_committee_selection_beacons
    /\ non_revealing' = non_revealing \cup Unrevealed
    /\ LET slashed == SlashAll(Unrevealed)
           kicked == {m \in Unrevealed : ~has_sufficient_stake(slashed[m])}
       IN  /\ node_info' = slashed
           /\ committee' = clear_committee_selection_beacon_timeouts(
                             KickAll(committee, kicked))
    /\ UNCHANGED <<epoch, flk_balance>>

-----------------------------------------------------------------------------
\* A node may commit to a value for this round, or submit a commit that was
\* built for another one: late, or wrong.
SubmittedCommits ==
    {build(epoch, r, v) : r \in 0 .. phase.round + 1, v \in Values}

BeaconStep ==
    \/ \E n \in Nodes : ChangeEpoch(n, epoch)
    \/ \E n \in Nodes, c \in SubmittedCommits : BeaconCommit(n, c)
    \/ \E n \in Nodes, v \in Values : BeaconReveal(n, v)
    \/ \E n \in Nodes : CommitTimeoutSignal(n, phase.epoch, phase.round)
    \/ \E n \in Nodes : CommitTimeoutQuorum(n, phase.epoch, phase.round)
    \/ \E n \in Nodes : RevealTimeoutSignal(n, phase.epoch, phase.round)
    \/ \E n \in Nodes : RevealTimeoutEpochChange(n, phase.epoch, phase.round)
    \/ \E n \in Nodes : RevealTimeoutRestart(n, phase.epoch, phase.round)

Next == BeaconStep \/ (StakingStep /\ UNCHANGED beaconVars)

Spec == Init /\ [][Next]_vars

-----------------------------------------------------------------------------
TypeOK ==
    /\ StakingTypeOK
    /\ phase \in Phase
    /\ beacons \in [Nodes -> Beacon \cup {NoBeacon}]
    /\ non_revealing \subseteq Nodes
    /\ committee \in Committee

\* The three quorum tests of the executor are equalities on the length of a
\* list of signals.  Before a test succeeds its list is shorter than the
\* threshold, also after slashing has shrunk the committee and lowered the
\* threshold: an overshot equality would never hold again and the epoch could
\* not end.
SignalsBelowThreshold ==
    LET quorum == Threshold(committee.members)
    IN  /\ phase.kind = "none" => Cardinality(committee.ready_to_change) < quorum
        /\ phase.kind = "commit" =>
             Cardinality(committee.signalled_commit_phase_timeout) < quorum
        /\ phase.kind = "reveal" =>
             Cardinality(committee.signalled_reveal_phase_timeout) < quorum

\* The lists of signals follow the phase: once the beacon runs the epoch-change
\* signals stay at their quorum, so a late signal cannot start the beacon again,
\* and no timeout signal of an earlier phase or round counts in a later one.
SignalsFollowPhase ==
    /\ phase.kind # "none" =>
         Cardinality(committee.ready_to_change) >= Threshold(committee.members)
    /\ phase.kind # "reveal" => committee.signalled_reveal_phase_timeout = {}
    /\ phase.kind = "none" =>
         phase = NoPhase /\ committee.signalled_commit_phase_timeout = {}

\* A beacon phase always belongs to the current epoch: what the debug_asserts of
\* the commit and reveal transactions claim.
PhaseOfCurrentEpoch == phase.kind # "none" => phase.epoch = epoch

\* Outside the beacon the table is empty, and inside it only current committee
\* members that were not excluded for failing to reveal have an entry, also
\* after members were kicked.  All of them are in the node table, which the
\* slashing of a non-revealing node reads with unwrap.
BeaconsOfEligibleMembers ==
    /\ Committed \subseteq ParticipatingMembers
    /\ \A n \in Committed : Registered(n)
    /\ phase.kind = "none" => Committed = {}

\* A reveal is only stored in a reveal phase and opens its commit for exactly
\* the current epoch and round: nothing revealed in a failed round can
\* contribute to a later seed.
RevealsOpenThisRound ==
    \A n \in Committed \ Unrevealed :
      /\ phase.kind = "reveal"
      /\ beacons[n].commit = build(epoch, phase.round, beacons[n].reveal)

\* More than two thirds of the members that may commit have a commit in the
\* table.
QuorumCommitted ==
    LET members == committee.members \ non_revealing
    IN  3 * Cardinality(Committed \cap members) > 2 * Cardinality(members)

\* During a reveal phase more than two thirds of the participating members have
\* a commit in the table, until the phase ends.
RevealPhaseHasQuorum == phase.kind = "reveal" => QuorumCommitted

\* The inductive invariant: the properties above, which only hold together.
IInv ==
    /\ TypeOK
    /\ SignalsBelowThreshold
    /\ SignalsFollowPhase
    /\ PhaseOfCurrentEpoch
    /\ BeaconsOfEligibleMembers
    /\ RevealsOpenThisRound
    /\ RevealPhaseHasQuorum

\* The epoch only changes at the end of a reveal phase in which all commits,
\* those of more than two thirds of the participating members, were revealed:
\* the seed of the new committee is never drawn from fewer values.
EpochChangesOnFullReveal ==
    [][epoch' # epoch =>
         /\ epoch' = epoch + 1
         /\ phase.kind = "reveal"
         /\ Committed # {}
         /\ Unrevealed = {}
         /\ QuorumCommitted]_vars

\* Stake disappears without being paid out only from a node that committed in
\* the ending round and did not reveal.
OnlyNonRevealersAreSlashed ==
    [][\A n \in Nodes :
         /\ Registered(n)
         /\ node_info'[n].staked + node_info'[n].locked
              < node_info[n].staked + node_info[n].locked
         /\ flk_balance' = flk_balance
         => phase.kind = "reveal" /\ n \in Unrevealed]_vars

\* Within an epoch the committee only loses members, and it loses only nodes
\* that committed without revealing and are left below the minimum stake.
MembersOnlyKicked ==
    [][epoch' = epoch =>
         /\ committee'.members \subseteq committee.members
         /\ \A n \in committee.members \ committee'.members :
              n \in Unrevealed /\ ~has_sufficient_stake(node_info'[n])]_vars

\* Nobody loses stake or membership who did what the beacon asks: both penalties
\* meet only members that committed and did not reveal.
PenaltiesDeserved == OnlyNonRevealersAreSlashed /\ MembersOnlyKicked

\* Who leaves stays away until it asks to come back.  An opt-out lasts until the
\* node opts in again or the epoch change makes it final, whatever is staked,
\* slashed or restarted in between; a participating node that falls below the
\* minimum without being slashed has been opted out; and neither the active set
\* nor the committee of the next epoch holds a node that is opted out.  The stake
\* itself is not looked at again: a node that opted in and was then unstaked, or
\* was slashed or kicked, keeps its flag and may be drawn.
OptOutsAreNotDrawn ==
    [][/\ epoch' # epoch =>
            \A n \in committee'.active_node_set \cup committee'.members :
              node_info[n].participation \in {"True", "OptedIn"}
       /\ \A n \in Nodes :
            Registered(n) /\ node_info[n].participation = "OptedOut" =>
              node_info'[n].participation \in
                IF epoch' # epoch THEN {"False"} ELSE {"OptedOut", "OptedIn"}
       /\ \A n \in Nodes \ Unrevealed :
            /\ Registered(n)
            /\ is_participating(node_info[n])
            /\ has_sufficient_unlocked_stake(node_info[n])
            /\ ~has_sufficient_unlocked_stake(node_info'[n])
            => node_info'[n].participation = "OptedOut"]_vars

\* The README's picture of the process, which the executor implements: from
\* every state it takes a step of the process or none.
Process == INSTANCE BeaconProcess
             WITH stage <- phase.kind, round <- phase.round
ImplementsProcess == Process!Spec
=============================================================================
