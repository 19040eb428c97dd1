SPECIFICATION EngineSpec
CONSTANTS
    p1 = p1
    p2 = p2
    p3 = p3
    a1 = a1
    b1 = b1
    a2 = a2
    a3 = a3
    Peer = {p1}
    N = 1
    UrgentWindow = 1
    RarestSample = 2
    EndgameDuplicates = 2
    Conn = {a1, b1}
    PeerOf <- TwoConnections
    First = a1
    Worker = {w1, w2}
    InitialRequests = 1
    MaxStrikes = 1
    MaxPeers = 2
    Gossip = TRUE
    LatePolls = FALSE
    Seeder = {}
SYMMETRY Symmetry
INVARIANTS
    EngineTypeOK
    OneConnectionPerPeer
    RequestsBacked
PROPERTIES
    TransferSpec
