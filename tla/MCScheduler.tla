---------------------------- MODULE MCScheduler ----------------------------
(* Scheduler on a small instance: three peers and an endgame limit of two, *)
(* so that a full list happens, and more pieces outside the urgent window  *)
(* than the rarest-first sample.                                           *)
EXTENDS Scheduler, TLC

Symmetry == Permutations(Peer)
============================================================================
