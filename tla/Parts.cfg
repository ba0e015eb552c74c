\* Each part by itself.
SPECIFICATION FairSpec
CONSTANTS
    Kinds = {"origin", "expand"}
    MaxLength = 2
    MaxEvents = 2
    PreFails = {"origin"}
    PostEmits = {"origin"}
    Mixed = {"origin"}
    Closes = {"origin"}
    LateClose = {}
    SplitSend = {"origin"}
    Silent = FALSE
    Tasks = {t1, t2}
    Workers = {w1, w2, w3}
    ThreadSize = 1
    MaxThreads = 2
    Capacity = 1
    Sizes = {1}
    Objects = {o1, o2}
    Periodic = {o1}
    Delays = {0, 1}
    Stall = 1
    MaxTime = 3
    Wrap = 16
    Slabs = {s1, s2, s3}
    BatchObjects = 2
    Threads = {t1, t2}
    Keeps = {0, 1}
    Word = 256
    Procs = {p1, p2}
    NoProc = NoProc
    Timeout = 1
    Interval = 2
    Burst = 1
    ForceKill = 1
    MaxMsgs = 1
    MaxCrashes = 1
    MaxData = 3
    QueueSizes = {1, 2}
    Limits = {0, 1}
    DefaultRetry = 2
 
INVARIANT CollapsesInOrder
INVARIANT BoundedWorkers
 
 
INVARIANT BrokerAccounts
INVARIANT WrittenInOrder
PROPERTY ContextFinishes
PROPERTY CollapseFinishes
PROPERTY AcceptedRuns
PROPERTY NeverEarly
PROPERTY ScheduledRuns
PROPERTY Restarted
PROPERTY HungIsStopped
PROPERTY DisposeReturns
CHECK_DEADLOCK FALSE
