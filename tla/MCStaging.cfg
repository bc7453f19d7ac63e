SPECIFICATION Spec
CONSTANTS
    Sessions = {s1, s2}
    MaxCancels = 1
    MaxLag = 2
SYMMETRY Symmetry
INVARIANTS
    TypeOK
    CountsRight
    RenderedIsSelected
    LoadsOnce
    StagedOnce
CHECK_DEADLOCK FALSE
