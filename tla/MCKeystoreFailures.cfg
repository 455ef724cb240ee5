SPECIFICATION FairSpec
CONSTANTS
    r1 = r1
    r2 = r2
    PutKeys = {1}
    ResetKeys = {2, 3}
    Resetters = {r1}
    BatchSize = 1
    MaxFailures = 1
    Cancels = FALSE
    MaxRestarts = 2
    MaxResets = 1
INVARIANT SizeExact
PROPERTIES SwapInstallsReset CloseReturns ResetReturns
CHECK_DEADLOCK FALSE
