SPECIFICATION Spec
CONSTANTS
    q1 = q1
    b1 = b1
    b2 = b2
    d1 = d1
    Queues = {q1}
    DefaultQueue = q1
    BatchIds = {b1, b2}
    Destinations = {d1}
    NoDestination = NoDestination
    MaxNodes = 1
    MaxItems = 4
    NoRow = NoRow
    MaxQueueSize = 1
    ClearOnStartup = FALSE
    Workers = {w1, w2}
    Batches <- SingleAndUrgent
    Requests = {"cancel_others", "prune", "retry"}
    Faults = {"node_error"}
    Budget <- Limits311
    MaxBacklog = 2
    NoItem = NoItem
INVARIANTS
    TypeOK
    StartsInOrder
    NoLostWakeup
    QueueCapacity
SYMMETRY WorkerSymmetry
CHECK_DEADLOCK FALSE
