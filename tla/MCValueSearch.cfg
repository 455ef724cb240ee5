SPECIFICATION FairSpec
CONSTANTS
    self = self
    s1 = s1
    s2 = s2
    free = free
    Nodes = {self, s1, s2}
    Self <- self
    Free <- free
    Writers <- MCWriters
    Best = 2
    InitialRanks <- MCInitialRanks
    Alpha = 2
    ClosestPeers = {s1}
    Quorums = {0, 1}
    MaxAged = 1
    MaxFailures = 1
INVARIANTS TypeOK BestReturned Corrected
PROPERTIES NewestStays SearchReturns
CHECK_DEADLOCK FALSE
