SPECIFICATION Spec
CONSTANTS
    Keys <- TwoKeys
    CallKeys <- OneAndBoth
    MinLen = 1
    MaxLen = 2
    individualProvideThreshold = 1
    Workers = {w1}
    Sparse = FALSE
    MaxPending = 1
    MaxFailures = 0
    MaxOutages = 0
    MaxCalls = 2
    MaxReprovides = 0
    MaxRestarts = 0
INVARIANT CloseKeepsQueue
CHECK_DEADLOCK FALSE
