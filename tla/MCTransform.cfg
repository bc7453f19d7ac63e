SPECIFICATION Spec
CONSTANTS
    Adapters = {a1, a2}
    MaxWaiting = 1
SYMMETRY Symmetry
INVARIANTS
    TypeOK
    MutexHeld
    PanelCanEnd
    RectFresh
CHECK_DEADLOCK FALSE
