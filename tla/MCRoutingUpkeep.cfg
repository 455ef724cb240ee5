SPECIFICATION FairSpec
CONSTANTS
    p1 = p1
    p2 = p2
    p3 = p3
    Peers = {p1, p2, p3}
    Cpl <- MCCpl
    bucketSize = 1
    bootstrapPeers = {p2}
    maxNBoostrappers = 2
    minRTRefreshThreshold = 1
    LookupCheckConcurrency = 1
    Contacts = {p2}
    Callers = {"c1"}
INVARIANTS
    TypeOK
PROPERTIES RefreshAnswered TableRecovers StalePeersLeave CloseReturns
CHECK_DEADLOCK FALSE
