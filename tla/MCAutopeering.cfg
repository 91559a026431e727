SPECIFICATION Spec
CONSTANTS
    p1 = p1
    p2 = p2
    p3 = p3
    t1 = t1
    t2 = t2
    NoTask = NoTask
    Peers <- MCPeers
    Tasks <- MCTasks
    EntryNodes <- MCEntryNodes
    InvalidPeers <- MCInvalidPeers
    SaltDistance <- MCSaltDistance
    REQUEST_EXPIRATION = 1
    MaxTime = 1
    DEFAULT_MAX_MANAGED = 2
    DEFAULT_MAX_REPLACEMENTS = 1
    MAX_PEERS_IN_RESPONSE = 1
    MaxAsked = 2
    SIZE_INBOUND = 1
    SIZE_OUTBOUND = 1
    MaxStatusChanges = 1
SYMMETRY TaskSymmetry
INVARIANTS
    DiscoverySound
    NeighborhoodsSound
CHECK_DEADLOCK FALSE
