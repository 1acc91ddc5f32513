SPECIFICATION MCSpec
CONSTANTS
    Nodes = {n1, n2, n3, n4}
    Null = Null
    Wild = Wild
    Keys = {1, 2}
    Queues = {"queue"}
    Stacks = {"stack"}
    SLists = {"list", "copy"}
PROPERTIES
    OthersKeepTheirKeys
