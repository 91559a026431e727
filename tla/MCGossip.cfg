SPECIFICATION Spec
CONSTANTS
    p1 = p1
    p2 = p2
    NoConn = NoConn
    PeerIds = {p1, p2, p3}
    Conns = {c1, c2}
    StaticPeers = {p2}
    max_unknown_peers = 1
    max_discovered_peers = 1
    CommandSet <- MCCommands
    MaxCommands = 1
SYMMETRY ConnSymmetry
INVARIANTS
    PeerListSound
    NoGhostPeers
CHECK_DEADLOCK FALSE
