\* Three pieces, so that one has a proof of its own and two share theirs; one of
\* the two is zeros.
CONSTANTS
    Piece = {x1, x2, x3}
    NoPiece = none
    Zeros = {{x2}}
    Tree = {{x1, x2}, {x1, x2, x3}}
    Task = {w1, w2}
    Crashes = "power_loss"
SPECIFICATION FairPiecesSpec
INVARIANTS PiecesTypeOK HaveIsBacked
PROPERTIES SavedIsRestored DownloadCompletes
