SPECIFICATION MCSpec
CONSTANT PairingCap = 5
CONSTANT BinomialCap = 6
CONSTANT FibonacciCap = 5
CONSTANT SecondCap = 3
CONSTANT IndexCap = 4
CONSTANT Keys = {1, 2}
CONSTANT FibonacciKeys = {1, 2}
INVARIANTS
    PairingSound
    BinomialSound
    FibonacciSound
PROPERTIES
    TreesKeepKeys
