\* Three streams of two peers share two slots; a piece is larger than the burst,
\* so that the limiter runs up debts of several callers.
CONSTANTS
    r1 = r1
    r2 = r2
    r3 = r3
    a = a
    b = b
    Req = {r1, r2, r3}
    Peer = {a, b}
    From <- Streams
    Slots = 2
    SlotWait = 2
    PieceLen = 3
    Fill = 1
    Burst = 2
SPECIFICATION FairUploadsSpec
INVARIANTS UploadsTypeOK SlotsConserved RateKept StalenessBounded ChangeIsReported
PROPERTIES RequestsAnswered
CHECK_DEADLOCK FALSE
