\* A session behind a selector and one with a receiver of its own.
SPECIFICATION FairSpec
CONSTANTS
    Sessions = {s1, s2}
    Direct = {s1}
    Faulty = {s2}
    Unmatched = FALSE
    InPorts = {p1}
    MaxSend = 1
    Timed = FALSE
 
PROPERTY ImplementsChannel
PROPERTY EndReported
CHECK_DEADLOCK FALSE
