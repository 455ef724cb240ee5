SPECIFICATION FairSpec
CONSTANTS
    Keys <- TwoKeys
    CallKeys <- OneAndBoth
    MinLen = 1
    MaxLen = 2
    individualProvideThreshold = 1
    Workers = {w1}
    Sparse = FALSE
    MaxPending = 1
    MaxFailures = 0
    MaxOutages = 1
    MaxCalls = 1
    MaxReprovides = 0
    MaxRestarts = 1
INVARIANTS NoKeyLost
PROPERTIES QueueDrains CloseReturns
CHECK_DEADLOCK FALSE
