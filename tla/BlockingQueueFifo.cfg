\* Every operation of the FIFO queue.
SPECIFICATION FairSpec
CONSTANTS
    t1 = t1
    t2 = t2
    t3 = t3
    t4 = t4
    Threads = {t1, t2, t3, t4}
    Priority <- OnePriority
    IsPriority = FALSE
    Menu <- FifoMenu
    InitCapacity = 2
    MaxSend = 2
INVARIANTS NothingLostOrDuplicated NoStrandedConsumer
PROPERTIES ShutdownReleases WakeupReleases
CHECK_DEADLOCK FALSE
