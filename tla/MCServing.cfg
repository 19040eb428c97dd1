\* Two objects of one share, three pieces in a channel that keeps one, so that
\* a subscriber that learned a piece by message can still fall behind.
CONSTANTS
    Obj = {o1, o2}
    Piece = {x1, x2, x3}
    Restored = {{}, {x1}, {x1, x2, x3}}
    Sub = {s1}
    Capacity = 1
    Window = 1
SPECIFICATION FairServingSpec
INVARIANTS ServingTypeOK NothingMissed
PROPERTIES NeverUnlearned OnlyOwnUnlisted SubscribersLearn UnlistedStreamsEnd
CHECK_DEADLOCK FALSE
