\* A collapse unit that may put out nothing for a stream.
SPECIFICATION CollapseSpec
CONSTANTS
    Kinds = {"expand"}
    MaxLength = 1
    MaxEvents = 2
    PreFails = {}
    PostEmits = {}
    Mixed = {}
    Closes = {}
    LateClose = {}
    SplitSend = {}
    Silent = TRUE
INVARIANT CollapsesAll
CHECK_DEADLOCK FALSE
