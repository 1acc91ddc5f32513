SPECIFICATION Spec
CONSTANT Cap = 4
CONSTANT SecondCap = 1
CONSTANT IndexCap = 3
CONSTANT Keys = {1, 2}
INVARIANT ResultIsRoot
