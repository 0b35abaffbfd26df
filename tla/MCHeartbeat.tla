---------------------------- MODULE MCHeartbeat ----------------------------
(* Heartbeat for TLC: the peers are model values and interchangeable. *)
EXTENDS Heartbeat, TLC

Symmetry == Permutations(Peers)
=============================================================================
