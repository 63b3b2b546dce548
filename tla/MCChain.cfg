SPECIFICATION FairChainSpec
CONSTANTS
    MAX_RETRIES = 2
    MaxRequests = 2
    MaxLost = 1
    MaxStarts = 2
    Runners = {r1}
    NoRunner = NoRunner
    MaxRetries = 1
    MaxSendRetries = 1
    MaxExecuted = 3
    n1 = n1
    n2 = n2
    n3 = n3
    n4 = n4
    Attester = n1
    ActiveNodes <- ThreeEpochs
    DivergedAttesters = {n4}
    MaxCkptRestarts = 1
    Bootstraps = {b1, b2}
    LastEpoch = 2
    MaxUnreachable = 2
    v1 = v1
    v2 = v2
    Validators = {v1, v2}
    MaxSession = 2
    SubDags = 3
    EpochOf <- EraThenEpoch
    EndIndex <- EndsEarly
    Members <- SecondLeaves
    MaxChannel = 2
    Signals = {s1, s2, s3}
    NumLists = 2
    InitialCapacity = 1
    MaxTriggers = 1
    MaxCrashes = 1
INVARIANTS SignerInv CkptInv ValidatorInv
PROPERTIES
    BufferDrains
    CallsEnd
    AggregatesForm
    SyncSettles
    FirstSessionEnds
    ShutdownCompletes
CHECK_DEADLOCK FALSE
