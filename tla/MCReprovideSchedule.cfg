SPECIFICATION FairSpec
CONSTANTS
    Order <- MCOrder
    RefLen = 3
    Keys <- MCKeys
    InitialKeys <- MCInitialKeys
    MinLen = 0
    MaxLen = 2
    reprovideInterval = 8
    maxReprovideDelay = 1
    individualProvideThreshold = 2
    Workers = {w1}
    MaxEvents = 1
INVARIANTS TypeOK CursorIsNext KeysScheduled ReprovidedInTime
PROPERTIES KeysReprovided
