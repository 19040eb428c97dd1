\* A call may begin while a transfer of the share goes on.
CONSTANTS
    Call = {c1, c2}
    Anyone = anyone
    List = {anyone, members}
    Key = {k1}
    NoKey = none
    Overlap = TRUE
SPECIFICATION SavedSpec
INVARIANT AllowlistIsSaved
CHECK_DEADLOCK FALSE
