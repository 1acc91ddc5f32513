SPECIFICATION MCSpec
CONSTANTS
    V = 4
    MaxEdges = 4
    Ends = {0, 1, 2}
    MaxArcs = 3
    Words = {"a", "b", "c"}
    MaxWords = 2
    Weights <- SomeWeights
CHECK_DEADLOCK FALSE
INVARIANTS
    
    PathsRight
    CyclesRight
    ComponentsRight
    ToursRight
    
    ShortestRight
