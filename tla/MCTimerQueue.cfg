CONSTANTS
    a1 = a1
    a2 = a2
    Addr <- MCAddr
    Free = Free
    NotArmed = NotArmed
    MaxTimers = 3
    MaxNow = 3
    MaxSteps = 1
    MaxPending = 1
    Delays <- MCDelays
    Intervals <- MCIntervals
SPECIFICATION FairSpec
INVARIANTS
    NoDanglingTimer
    IndexesAgree
    TimerfdCoversEarliest
    StoppedStaysStopped
PROPERTIES
    CancelReaches
    TimersFire
CHECK_DEADLOCK FALSE
