SPECIFICATION Spec
CONSTANTS
    Keys <- TwoKeys
    CallKeys <- OneAndBoth
    MinLen = 1
    MaxLen = 2
    individualProvideThreshold = 1
    Workers = {w1, w2}
    Sparse = FALSE
    MaxPending = 1
    MaxFailures = 1
    MaxOutages = 0
    MaxCalls = 2
    MaxReprovides = 1
    MaxRestarts = 0
SYMMETRY WorkerSymmetry
INVARIANTS TypeOK NoKeyLost NothingAfterClose
CHECK_DEADLOCK FALSE
