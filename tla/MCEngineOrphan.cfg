SPECIFICATION FairEngineSpec
CONSTANTS
    p1 = p1
    p2 = p2
    p3 = p3
    a1 = a1
    b1 = b1
    a2 = a2
    a3 = a3
    Peer = {p1}
    N = 2
    UrgentWindow = 1
    RarestSample = 2
    EndgameDuplicates = 2
    Conn = {a1}
    PeerOf <- OnePeer
    First = a1
    Worker = {w1}
    InitialRequests = 1
    MaxStrikes = 1
    MaxPeers = 2
    Gossip = FALSE
    LatePolls = FALSE
    Seeder = {}
PROPERTIES
    EveryPieceHereEnds
