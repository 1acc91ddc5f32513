SPECIFICATION MCSpec
CONSTANTS
    Capacity = 3
    Keys = {1, 2, 3, 4}
    Vals = {1, 2}
    Cutoff = 1
    Chars = {1, 2, 3}
    Radix = 4
    Prime = 5
    Letters = {1, 2, 3}
    Dot = 9
    ByteBits = 3
    LongBytes = 2
    Width = 4
    Kinds = {"search", "array", "words", "text", "trie"}
    SortKeys = {1, 2, 3}
    MaxArray = 6
    MaxWords = 3
    WordLength = 2
    MaxText = 5
    MaxPattern = 3
    TrieKeyLength = 2
    MaxCalls = 4
INVARIANTS
    SearchSound
    
    
    
PROPERTIES
    ImplementsDictionary
    
CHECK_DEADLOCK FALSE
