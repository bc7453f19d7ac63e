SPECIFICATION Spec
CONSTANTS
    q1 = q1
    b1 = b1
    b2 = b2
    d1 = d1
    Queues = {q1}
    DefaultQueue = q1
    BatchIds = {b1, b2}
    Destinations = {d1}
    NoDestination = NoDestination
    MaxNodes = 1
    MaxItems = 3
    NoRow = NoRow
    MaxQueueSize = 2
    ClearOnStartup = FALSE
    Workers = {w1}
    Batches <- Singles
    Requests = {"cancel_item", "cancel_batch", "cancel_destination", "cancel_queue", "clear",
                "retry", "shutdown"}
    Faults = {"crash", "node_error", "processor_error"}
    Budget <- Limits212
    MaxBacklog = 2
    NoItem = NoItem
INVARIANTS
    OneInProgress
    
PROPERTIES
    ExecutesAtMostOnce
CHECK_DEADLOCK FALSE
