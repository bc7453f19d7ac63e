SPECIFICATION FairSpec
CONSTANTS
    Graphs <- Shapes
    MaxLength = 2
INVARIANTS
    TypeOK
    FinishedMeansAll
    CollectsAll
    OncePerCombination
    DepthFirst
    EndsComplete
PROPERTIES
    Terminates
CHECK_DEADLOCK FALSE
