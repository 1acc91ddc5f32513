SPECIFICATION MCSpec
CONSTANTS
    N = 1
    V = 4
    INFINITY = 1000
    Inputs <- SomeInputs
    Kinds = {"boruvka"}
    Cap = 1
    Keys = {1}
    PlainCap = 1
    PlainKeys = {1}
INVARIANT BoruvkaSpans
