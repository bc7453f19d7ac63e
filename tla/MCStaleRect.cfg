SPECIFICATION Spec
CONSTANTS
    Adapters = {a1, a2}
    MaxWaiting = 1
PROPERTY
    OnlyTransparentReset
CHECK_DEADLOCK FALSE
