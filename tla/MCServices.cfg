SPECIFICATION FairServicesSpec
CONSTANTS
    Tasks = {task1, task2}
    ClusterPeers = {c1, c2, c3}
    Payloads = {load1, load2}
    max_depth = 0
    NoPayload = NoPayload
    RepPeers = {rep1, rep2, rep3}
    MAX_CAPACITY = 2
    MIN_NUM_PINGS = 1
    reporter_buffer_size = 1
    ChannelSize = 1
    MaxBandwidth = 9
    Weights <- BothWeights
    ByteCounts = {0, 3}
    Durations = {0, 1}
    MaxReports = 3
    PingedNodes = {ping1, ping2}
    PingIds = {1, 2}
    Registries = {{ping1, ping2}, {ping1}, {}}
    MaxPings = 3
    MaxRegistries = 1
    dack1 = dack1
    dack2 = dack2
    dack3 = dack3
    Dacks = {dack1, dack2, dack3}
    ServiceOf <- TwoServices
    MaxDacksPerTx = 1
    NoDack = NoDack
    MaxEras = 2
    Ips = {ip1}
    RuleLists <- SomeRules
    TicksPerMilli = 2
    MaxTime = 8
    MaxCommands = 2
    BlockTxs <- SomeBlocks
    EpochEnds = {1, 2, 3}
    BlockChannel = 2
    EpochChannel = 2
    MaxArchiveStops = 2
    OriginPointers = {uri1, uri2}
    ContentHashes = {content1, content2}
    NoRecord = NoRecord
    MaxRecords = 4
    MaxResolverStops = 1
    e1 = e1
    e2 = e2
    p1 = p1
    p2 = p2
    Self = Self
    Zero = Zero
    Digests = {p1, p2}
    last_executed <- ShortParent
    EpochAfter <- ShortEpochAfter
    CommitteeAfter <- ShortCommittees
    Chain = {p1, p2}
    Nodes = {e1, e2, Self}
    Diverged = {}
    Forged = {}
    MaxTimeouts = 2
    MaxRequests = 2
    MaxRestarts = 0
INVARIANT ServicesInv
PROPERTY FollowerCatchesUp
CHECK_DEADLOCK FALSE
