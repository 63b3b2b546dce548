SPECIFICATION FairNetworkSpec
CONSTANTS
    Gossipers = {g1, g2, g3}
    Peers <- FullMesh
    Origin = g1
    NoGossiper = NoGossiper
    MaxFrameLoss = 1
    MaxExtras = 1
    Subscribers = {s1, s2}
    RingCapacity = 2
    MaxPushed = 4
    MaxCalls = 3
    PoolPeers = {q1}
    DialedPeers = {q1}
    Topologies = {{q1}, {}}
    Requests = {r1}
    Dst <- OnePeer
    MaxTopologies = 2
    MaxDials = 5
    MaxFaults = 2
    dir = dir
    file1 = file1
    file2 = file2
    fetch1 = fetch1
    fetch2 = fetch2
    Hashes = {dir, file1, file2}
    Children <- Directory
    Fetches = {fetch1, fetch2}
    Want <- DirectoryAndFile
    NumPeers = 2
    NumOrigins = 1
    max_conc_req = 2
    OriginCapacity = 1
    MaxPanics = 1
    short = short
    exact = exact
    long = long
    folder = folder
    peer1 = peer1
    peer2 = peer2
    peer3 = peer3
    peer4 = peer4
    origin3 = origin3
    origin4 = origin4
    Contents <- SomeFiles
    Folders <- SomeFolders
    FileWriters <- WritersOfFiles
    DirWriters <- WritersOfFolders
    Untrusted = {peer1, peer2, peer3, peer4}
    MaxBlock = 4
    Piece = 2
    WriteSizes = {3, 4, 8}
    Preludes = {0, 2, 4}
    MaxStops = 1
    whole = whole
    broken = broken
    list = list
    nothing = nothing
    Responses = {whole, broken, list, nothing}
    Asks <- SomeAsks
    max_conc_res = 2
    CounterSize = 8
    MaxLeaves = 1
INVARIANTS
    NetworkInv
    BucketInv
PROPERTIES
    MissesOnlyOverwritten
    MessageReachesAll
    RecvReturns
    RequestsEnd
    TopologyConnects
    FetchesEnd
CHECK_DEADLOCK FALSE
