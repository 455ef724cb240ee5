SPECIFICATION Spec
CONSTANTS
    Keys <- ThreeKeys
    CallKeys <- TwoAndOne
    MinLen = 1
    MaxLen = 2
    individualProvideThreshold = 1
    Workers = {w1}
    Sparse = FALSE
    MaxPending = 1
    MaxFailures = 0
    MaxOutages = 0
    MaxCalls = 2
    MaxReprovides = 1
    MaxRestarts = 0
INVARIANT ReprovideSendsWhatItDrops
CHECK_DEADLOCK FALSE
