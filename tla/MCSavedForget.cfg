\* forget while a download of the share runs, calls otherwise one after the other.
CONSTANTS
    Call = {c1, c2}
    Anyone = anyone
    List = {anyone, members}
    Key = {k1}
    NoKey = none
    Overlap = FALSE
SPECIFICATION SavedSpec
INVARIANT ForgottenIsNotOffered
CHECK_DEADLOCK FALSE
