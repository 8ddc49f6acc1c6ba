CONSTANTS
    Handlers = {"LoadBalancerHandler", "HttpProxyHandler"}
    HeadLen = 2
    HostAt = 2
    MaxBytes <- MCBytes
    SendSpace = 1
    HighWaterMark = 2
    MaxOrphans = 1
    Asserts = FALSE
SPECIFICATION FairSpec
INVARIANTS
    NothingLost
    WritingWhilePending
    PausedWillResume
    HostRewritten
    NotFoundOnce
    OneBackend
PROPERTIES
    NeverReopened
    ImplementsPipes
    BytesReachBackend
    RequestReachesBackend
CHECK_DEADLOCK FALSE
