\* in -> a: two nodes, queues of one element.
SPECIFICATION PairSpec
CONSTANTS
    in = in
    a = a
    w1 = w1
    w2 = w2
    Nodes = {in, a}
    Ports <- PairPorts
    Priority <- PairPriority
    DataPorts <- PairData
    EventPort <- PairEvent
    Targets <- PairTargets
    Capacity <- OneEach
    CmdPort = "cmd"
    ExtPorts <- PairExt
    FirstExt = "in.ext"
    Workers = {w1, w2}
    EventNodes = {a}
    MayFail = {a}
    MaxSends = 2
    MaxEvents = 1
INVARIANT NodeRunsAlone
INVARIANT NoForgottenPort
INVARIANT QuietWhenDone
PROPERTY Drains
PROPERTY ShutdownReturns
CHECK_DEADLOCK FALSE
