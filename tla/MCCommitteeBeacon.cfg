SPECIFICATION BeaconSpec
CONSTANTS
    Nodes = {n1, n2, n3, n4}
    Owners = {o1}
    GenesisNodes = {n1, n2, n3, n4}
    GenesisCommittee = {n1, n2, n3, n4}
    GenesisStake <- MCStake
    Rich = {n1, n2}
    GenesisBalance = 0
    MinStake = 3
    LockTime = 1
    MaxStakeLockTime = 0
    Amounts = {}
    NoNode = NoNode
    Values = {v1}
    CommitteeSize = 4
    NodeCount = 4
    SlashAmount = 2
    NoReveal = NoReveal
    NoBeacon = NoBeacon
    MaxRound = 2
    MaxEpoch = 1
SYMMETRY NodeSymmetry
CONSTRAINT Bound
INVARIANT IInv
PROPERTIES
    EpochChangesOnFullReveal
    PenaltiesDeserved
    ImplementsProcess
CHECK_DEADLOCK FALSE
