SPECIFICATION Spec
CONSTANTS
    n1 = n1
    n2 = n2
    x = x
    e1 = e1
    e2 = e2
    e3 = e3
    Root = Root
    None = None
    NodeIds = {n1, n2, n3}
    Inputs = {x}
    ManyInputs = {}
    Limit = 3
    ElementIds = {e1, e2, e3}
    Workflows <- Persisted
    MaxEdits = 4
INVARIANT
    SavedLoads
CHECK_DEADLOCK FALSE
