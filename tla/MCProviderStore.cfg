SPECIFICATION FairSpec
CONSTANTS
    k1 = k1
    k2 = k2
    p1 = p1
    p2 = p2
    Records <- MCRecords
    ProvideValidity = 0
    cleanupInterval = 2
    lruCacheSize = 1
    MaxDelay = 1
    MaxFailures = 1
INVARIANTS AddedSurvives AnswersComplete
PROPERTY ExpiredForgotten
CHECK_DEADLOCK FALSE
