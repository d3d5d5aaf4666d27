CONSTANTS
    t1 = t1
    t2 = t2
    Threads <- MCThreads
    MaxInner = 1
SPECIFICATION AfsSpec
INVARIANT SetUpToFree
CHECK_DEADLOCK FALSE
