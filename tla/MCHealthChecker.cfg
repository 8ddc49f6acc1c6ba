CONSTANTS
    Backend = {b1, b2}
    NoBackend = none
    MaxProbes = 2
    NumFds = 3
    MaxForeign = 1
SPECIFICATION HCFairSpec
INVARIANTS
    OneProbeEach
    SocketsHeld
PROPERTIES
    DownDetected
    UpDetected
