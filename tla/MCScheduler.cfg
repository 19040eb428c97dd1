SPECIFICATION Spec
CONSTANTS
    Peer = {p1, p2, p3}
    N = 4
    UrgentWindow = 1
    RarestSample = 2
    EndgameDuplicates = 2
SYMMETRY Symmetry
INVARIANTS
    SchedTypeOK
    CountersExact
    PlayheadExact
    RequestsSound
    PickFindsWork
    PicksRarest
PROPERTIES
    DoneStaysDone
    DuplicatesOnlyInEndgame
