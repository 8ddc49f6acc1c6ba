CONSTANTS
    main = main
    peer = peer
    Owner = worker
    Creator = main
    Thread <- MCThread
    MaxPosts = 2
SPECIFICATION FairSpec
INVARIANTS
    NoLostWakeup
    QueueIsFifo
PROPERTIES
    FunctorsRun
    IoHandled
    StartLoopReturns
    QuitStopsRunningLoop
CHECK_DEADLOCK FALSE
