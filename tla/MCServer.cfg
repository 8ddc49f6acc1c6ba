CONSTANTS
    NumWorkers = 2
    NumFds = 3
    MaxConns = 3
    MaxForeign = 1
    Asserts = FALSE
SPECIFICATION FairSpec
INVARIANTS
    TypeOK
    DescriptorsOwned
    ErasuresFindTheirOwn
    Balanced
PROPERTIES
    AcceptedEstablished
    ClosedFreed
CHECK_DEADLOCK FALSE
