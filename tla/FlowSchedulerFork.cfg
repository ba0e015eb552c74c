\* A graph with two inputs.
SPECIFICATION FairSpec
CONSTANTS
    in = in
    a = a
    w1 = w1
    w2 = w2
    Nodes = {in}
    Ports <- ForkPorts
    Priority <- ForkPriority
    DataPorts <- ForkData
    EventPort <- ForkEvent
    Targets <- ForkTargets
    Capacity <- OneEach
    CmdPort = "cmd"
    ExtPorts <- ForkExt
    FirstExt = "in.x"
    Workers = {w1, w2}
    EventNodes = {}
    MayFail = {}
    MaxSends = 2
    MaxEvents = 0
PROPERTIES Drains
CHECK_DEADLOCK FALSE
