CONSTANTS
    Handlers = {"LoadBalancerHandler"}
    HeadLen = 2
    HostAt = 2
    MaxBytes <- MCBytes
    SendSpace = 1
    HighWaterMark = 2
    MaxOrphans = 1
    Asserts = TRUE
SPECIFICATION Spec
PROPERTY DestroyedDisconnected
CHECK_DEADLOCK FALSE
