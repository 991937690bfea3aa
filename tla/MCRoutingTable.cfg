CONSTANTS
    MyId <- Self
    Peers <- FourPeers
    Flaky <- OneFlaky
    KSize = 1
    MaxBuckets = 4
    DepthB = 5
    Alpha = 1
    Stale = 1
    MaxSpare = 1
SPECIFICATION RtSpec
INVARIANTS
    RtTypeOK
    OneBucketPerKey
    PeersInTheirBucket
    NeighborsComplete
PROPERTIES
    OnlyFailuresRemovePeers
    DeadPeersLeave
CHECK_DEADLOCK TRUE
