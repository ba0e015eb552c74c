\* A queue that holds every buffer, and a service that needs no retry.
SPECIFICATION BrokerSpec
CONSTANTS
    MaxData = 2
    QueueSizes = {2}
    Limits = {0}
    DefaultRetry = 2
INVARIANT FrontNotEmpty
CHECK_DEADLOCK FALSE
