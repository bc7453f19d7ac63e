SPECIFICATION FairSpec
CONSTANTS
    MaxRuns = 2
    Requests <- MCRequests
    Configs = {c1}
    DefaultConfig = c1
    Prompts = {p1}
INVARIANTS
    TypeOK
    ProcessingHasRun
    ListenersReleased
    RasterReleased
    SegmentSerial
PROPERTIES
    KeepsPromise
    SuccessNotCanceled
    
CHECK_DEADLOCK FALSE
