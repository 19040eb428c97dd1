------------------------------ MODULE Transfer ------------------------------
(***************************************************************************)
(* What a download promises, whatever its peers and its own tasks do: a    *)
(* piece is stored once and for good; it is reported verified only after   *)
(* it is stored, and once; the download succeeds only when every piece has *)
(* been reported; and it ends once. Engine.tla implements this.            *)
(***************************************************************************)
EXTENDS Integers

CONSTANT N
Piece == 0 .. N - 1

VARIABLES
    stored,    \* pieces checked against their hash and on disk
    verified,  \* pieces reported with Event::PieceVerified, or on disk before
    outcome    \* running, completed, cancelled or failed

vars == <<stored, verified, outcome>>

Init ==
    /\ stored \in SUBSET Piece
    /\ verified = stored
    /\ outcome = "running"

\* A store that began before a cancellation may end after it.
Store(i) ==
    /\ i \notin stored
    /\ stored' = stored \cup {i}
    /\ UNCHANGED <<verified, outcome>>

Report(i) ==
    /\ i \in stored \ verified
    /\ verified' = verified \cup {i}
    /\ UNCHANGED <<stored, outcome>>

Finish ==
    /\ outcome = "running"
    /\ verified = Piece
    /\ outcome' \in {"completed", "failed"}
    /\ UNCHANGED <<stored, verified>>

Cancel ==
    /\ outcome = "running"
    /\ outcome' = "cancelled"
    /\ UNCHANGED <<stored, verified>>

Next == Finish \/ Cancel \/ \E i \in Piece : Store(i) \/ Report(i)

Spec == Init /\ [][Next]_vars
=============================================================================
