SPECIFICATION FairSpec
CONSTANTS
    r1 = r1
    r2 = r2
    PutKeys = {1}
    ResetKeys = {1, 2}
    Resetters = {r1}
    BatchSize = 1
    MaxFailures = 0
    Cancels = TRUE
    MaxRestarts = 0
    MaxResets = 1
PROPERTY CancelledResetIsCleanedUp
CHECK_DEADLOCK FALSE
