SPECIFICATION Spec
CONSTANTS
    Nodes = {n1, n2}
    Owners = {o1}
    GenesisNodes = {n1}
    GenesisCommittee = {n1}
    GenesisStake <- MCStake
    Rich = {}
    GenesisBalance = 4
    MinStake = 3
    LockTime = 1
    MaxStakeLockTime = 1
    Amounts = {2}
    NoNode = NoNode
    Values = {v1}
    CommitteeSize = 1
    NodeCount = 1
    SlashAmount = 2
    NoReveal = NoReveal
    NoBeacon = NoBeacon
    MaxRound = 1
    MaxEpoch = 1
CONSTRAINT Bound
PROPERTIES
    OptOutsAreNotDrawn
    SupplyOnlySlashed
CHECK_DEADLOCK FALSE
