SPECIFICATION MCSpec
CONSTANTS
    N = 4
    V = 4
    INFINITY = 1000
    Inputs <- SomeInputs
    Kinds = {"union", "quick", "index", "plain", "kruskal", "boruvka", "prim", "lazy"}
    Cap = 4
    Keys = {1, 2}
    PlainCap = 6
    PlainKeys = {1, 2, 3}
INVARIANTS
    MCTypeOK
    OneRootPerSet
    WeightGrowsUp
    CountIsSets
    WeightMeasuresSet
    InverseUnlessStrayed
    ForestsSound
    SpansGraph
PROPERTIES
    ImplementsPartition
    
    Returns
