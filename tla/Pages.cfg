SPECIFICATION Spec
CONSTANTS
    Limit <- MCLimit
    MaxReloads = 1
    MaxBroken = 1
INVARIANTS Counts ChainsBounded NeverBack
PROPERTY KeepsAsking
