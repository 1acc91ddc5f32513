SPECIFICATION MCSpec
CONSTANT Size <- ProbingSizes
CONSTANT Keys = {3, 4, 7}
CONSTANT ChainKeys = {2, 3, 4}
CONSTANT Vals = {1, 2}
CONSTANT PlainKeys = {1, 2, 3, 4, 5, 6}
CONSTANT BalancedKeys = {1, 2, 3, 4, 5, 6, 7, 8}
CONSTANT SplayKeys = {1, 2, 3, 4, 5, 6}
CONSTANT SkipKeys = {1, 2, 3}
CONSTANT MaxLevel = 2
CONSTANT BTreeKeys = {1, 2, 3, 4, 5, 6, 7, 8, 9, 10, 11}
CONSTANT MaxChildren = 4
CONSTANT NodeCap = 14
CONSTANT CallCap = 4
CONSTANT Starts = {0, 7, 10, 11}
INVARIANTS
    
    
    TreesSound
    QueriesRight
PROPERTIES
    ProbesEnd
    
    ChainsImplementDictionaries
    
