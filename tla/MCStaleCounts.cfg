SPECIFICATION Spec
CONSTANTS
    Sessions = {s1, s2}
    MaxCancels = 1
    MaxLag = 2
INVARIANT
    StagingRight
CHECK_DEADLOCK FALSE
