------------------------------ MODULE MCJoining ------------------------------
(* Joining on small instances. Names: d the root, x and X the same in lower  *)
(* case, y another one, "aux" not allowed everywhere.                        *)
EXTENDS Joining, TLC

CONSTANTS me, a, b, d, x, X, y, aux

LowerCase == d :> d @@ x :> x @@ X :> x @@ y :> y @@ aux :> aux

\* A file, folders of files, and two folders that cannot be shared.
Folders == {{<<>>}, {<<x>>, <<y, x>>, <<y, y>>}, {<<x>>, <<X>>}, {<<x>>, <<aux>>},
            {<<x>>, <<y, x>>, <<y, y>>, <<y, d>>}}

Addresses == {AddressOf(a, TRUE), AddressOf(a, FALSE), AddressOf(b, TRUE), AddressOf(me, TRUE)}

\* What the run of EveryPeerTried lists.
AloneOrStalled == {AddressOf(a, TRUE), AddressOf(b, TRUE)}
=============================================================================
