CONSTANTS
    me = me
    a = a
    b = b
    d = d
    x = x
    X = X
    y = y
    aux = aux
    Fold <- LowerCase
    BadName = {aux}
    MaxFiles = 3
    Block = 2
    Peer = {me, a, b}
    Me = me
    Address <- Addresses
    Folder <- Folders
    RootName = d
    Size = {0, 2, 3}
    Announcing = {a}
    Good = {a}
    Needs = 2
    ChannelCap = 3
    Deadline = 17
    FirstAttempt = 1
    ConnectTimeout = 4
    RequestTimeout = 2
    Breath = 1
SPECIFICATION JoiningSpec
INVARIANTS JoiningTypeOK TurnsRotate EndsInTime FailedHonestly LayoutSound
CHECK_DEADLOCK FALSE
