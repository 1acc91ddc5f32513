SPECIFICATION Spec
CONSTANT Cap = 6
CONSTANT Keys = {2, 3}
PROPERTY DeletesSmallest
