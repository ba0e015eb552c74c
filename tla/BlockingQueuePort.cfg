\* The queue of a port: three senders of two priorities, one receiver.
SPECIFICATION Spec
CONSTANTS
    t1 = t1
    t2 = t2
    t3 = t3
    t4 = t4
    Threads = {t1, t2, t3, t4}
    Priority <- PortPriority
    IsPriority = TRUE
    Menu <- PortMenu
    InitCapacity = 2
    MaxSend = 3
INVARIANTS NothingLostOrDuplicated NoStrandedPusher BoundedOvershoot
CHECK_DEADLOCK FALSE
