CONSTANTS
    NumWorkers = 2
    NumFds = 3
    MaxConns = 3
    MaxForeign = 1
    Asserts = FALSE
SPECIFICATION FairSpec
PROPERTY AcceptLoopEnds
CHECK_DEADLOCK FALSE
