SPECIFICATION FairSpec
CONSTANTS
    q1 = q1
    b1 = b1
    b2 = b2
    d1 = d1
    Queues = {q1}
    DefaultQueue = q1
    BatchIds = {b1, b2}
    Destinations = {d1}
    NoDestination = NoDestination
    MaxNodes = 1
    MaxItems = 2
    NoRow = NoRow
    MaxQueueSize = 2
    ClearOnStartup = FALSE
    Workers = {w1}
    Batches <- Pairs
    Requests = {"pause", "resume", "shutdown", "cancel_batch"}
    Faults = {"node_error"}
    Budget <- Limits221
    MaxBacklog = 2
    NoItem = NoItem
PROPERTIES
    Progress
    InProgressEnds
    StopEnds
CHECK_DEADLOCK FALSE
