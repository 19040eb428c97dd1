\* Transfers of the share one after the other, forget and remove at any step of
\* them, crashes and errors anywhere.
CONSTANTS
    Call = {c1, c2}
    Anyone = anyone
    List = {anyone, members}
    Key = {k1, k2}
    NoKey = none
    Overlap = FALSE
SPECIFICATION SavedSpec
INVARIANTS SavedTypeOK TransfersAreSaved ForgottenStaysForgotten AllowlistIsSaved FetchedIsFindable RecordsOpen
CHECK_DEADLOCK FALSE
