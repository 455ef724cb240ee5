SPECIFICATION Spec
CONSTANTS
    r1 = r1
    r2 = r2
    PutKeys = {1, 2}
    ResetKeys = {2, 3}
    Resetters = {r1, r2}
    BatchSize = 2
    MaxFailures = 0
    Cancels = TRUE
    MaxRestarts = 1
    MaxResets = 2
SYMMETRY Symmetric
PROPERTIES ImplementsKeystoreSpec NoWriteAfterClose
CHECK_DEADLOCK FALSE
