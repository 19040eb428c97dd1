------------------------------ MODULE MCEngine ------------------------------
(* Engine on small instances. The number in a connection's name is the     *)
(* number of its peer.                                                     *)
EXTENDS Engine, TLC

CONSTANTS p1, p2, p3, a1, b1, a2, a3

OnePeer == a1 :> p1
TwoConnections == a1 :> p1 @@ b1 :> p1
TwoPeers == a1 :> p1 @@ a2 :> p2
ThreePeers == a1 :> p1 @@ a2 :> p2 @@ a3 :> p3

\* Workers of a connection are interchangeable (safety runs only).
Symmetry == Permutations(Worker)
=============================================================================
