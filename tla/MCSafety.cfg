SPECIFICATION SafetySpec
SYMMETRY RunnerSymmetry
CONSTANTS
    Nodes = {n1, n2}
    GenesisNodes = {n1, n2}
    Owners = {o1, o2}
    GenesisStake <- EqualStake
    GenesisBalance = 2
    MinStake = 3
    LockTime = 1
    MaxStakeLockTime = 3
    Amounts = {2}
    NoNode = NoNode
    Unit = 10
    Receipts = {x1}
    BlockOf <- SameBlock
    BridgeAmount = 3
    Revenues = {3, 7}
    MaxInflation = 50
    EpochsPerYear = 2
    NodeShare = 70
    ServiceBuilderShare = 20
    ProtocolShare = 10
    MaxBoost = 4
    TotalSupply = 100
    ServiceOwner = o1
    ProtocolFund = o2
    MaxTx = 3
    LastLedgerEpoch = 2
    Peers4Epoch = {p1, p2}
    Uris = {u1}
    JobHashes = {j1, j2}
    MAX_MEASUREMENTS_SUBMIT = 2
    MinNumMeasurements = 2
    MaxTableTx = 4
    LastTableEpoch = 2
    Keys = {k1, k2}
    Vals = {v1}
    None = None
    Queries = {q1}
    MaxVersion = 2
    Lengths = {1}
    MaxPayloads = 1
    MaxTransports = 2
    MaxClientFrames = 1
    Runners = {r1, r2}
    NoRunner = NoRunner
    MaxRetries = 1
    MaxSendRetries = 0
    MaxExecuted = 2
    m1 = m1
    m2 = m2
    m3 = m3
    m4 = m4
    Me = Me
    Committees <- ThreeCommittees
    TARGETED_CONNECTION_NUM = 3
    MaxOutages = 2
    MaxBlocks = 7
    WalkSizes = {2, 3, 6, 8, 9, 130, 257, 512, 600}
    RawLengths = {1, 33, 64, 65, 257, 258, 290}
    MaxFed = 5
    Signals = {s1, s2, s3}
    NumLists = 2
    InitialCapacity = 1
    MaxTriggers = 2
INVARIANTS
    LedgerInv
    TablesInv
    QueriesSeeSnapshot
    HandshakeInv
    ClientsInv
    StreamInv
    ShutdownInv
PROPERTIES
    RewardsWithinEmissions
    EpochSettlesTables
CHECK_DEADLOCK FALSE
