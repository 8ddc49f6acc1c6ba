CONSTANTS
    main = main
    peer = peer
    Owner = worker
    Creator = main
    Thread <- MCThread
    MaxPosts = 1
SPECIFICATION FairSpec
PROPERTY JoinReturns
CHECK_DEADLOCK FALSE
