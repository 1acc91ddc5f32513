SPECIFICATION Spec
CONSTANT Keys = {1, 2, 3}
CONSTANT MaxLevel = 2
INVARIANT LevelsEndInNil
