SPECIFICATION FairSpec
CONSTANTS
    NPeers = 4
    FaultyPeers = {1}
    Peers <- MCPeers
    Self = 2
    Target = 4
    Allowed = {1, 3}
    Faulty <- FaultyPeers
    Responses <- MCResponses
    Alpha = 2
    Beta = 2
    K = 3
INVARIANTS ChannelHasRoom NoPanic TopKQueried NothingLeftRunning ClosestGoodFound
PROPERTY EvictionsAreFailures
PROPERTY LookupReturns
