CONSTANTS
    Nodes = {n1, n2}
    Owners = {o1}
    GenesisNodes = {n1, n2}
    GenesisCommittee = {n1, n2}
    Values = {v1}
    NoNode = NoNode
    NoReveal = NoReveal
    NoBeacon = NoBeacon
    GenesisStake <- AmpleStake
    GenesisBalance = 0
    MinStake = 1
    LockTime = 1
    MaxStakeLockTime = 1
    Amounts = {}
    CommitteeSize = 2
    NodeCount = 2
    SlashAmount = 1
    MaxPool = 2
    MaxCrashes = 1
    MaxRound = 1
    MaxEpoch = 1
SPECIFICATION FairNodeSpec
INVARIANT NodeInv
PROPERTIES BeaconStarts RevealPhaseEnds
CHECK_DEADLOCK FALSE
