CONSTANTS
    me = me
    a = a
    b = b
    d = d
    x = x
    X = X
    y = y
    aux = aux
    Fold <- LowerCase
    BadName = {aux}
    MaxFiles = 3
    Block = 2
    Peer = {me, a, b}
    Me = me
    Address <- AloneOrStalled
    Folder <- Folders
    RootName = d
    Size = {0, 2, 3}
    Announcing = {}
    Good = {b}
    Needs = 1
    ChannelCap = 3
    Deadline = 8
    FirstAttempt = 1
    ConnectTimeout = 4
    RequestTimeout = 15
    Breath = 1
SPECIFICATION JoiningSpec
INVARIANTS EveryPeerTried
CHECK_DEADLOCK FALSE
