SPECIFICATION Spec
CONSTANTS
    q1 = q1
    b1 = b1
    b2 = b2
    d1 = d1
    Queues = {q1}
    DefaultQueue = q1
    BatchIds = {b1, b2}
    Destinations = {d1}
    NoDestination = NoDestination
    MaxNodes = 2
    MaxItems = 2
    NoRow = NoRow
    MaxQueueSize = 2
    ClearOnStartup = FALSE
    Workers = {w1}
    Batches <- SinglesOfTwo
    Requests = {"clear"}
    Faults = {}
    Budget <- Limits210
    MaxBacklog = 2
    NoItem = NoItem
INVARIANTS
    CompletedMeansRan
CHECK_DEADLOCK FALSE
