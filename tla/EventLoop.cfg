SPECIFICATION StartedSpec
CONSTANTS
    c1 = c1
    c2 = c2
    Caller <- MCCaller
    MaxFunctors = 3
    numThreads_ = 2
    NULL = NULL
INVARIANTS NoLostWakeup RunsInOrder
PROPERTIES QueuedIsRun PoolStarts
CHECK_DEADLOCK FALSE
