---------------------------- MODULE MCMembership ----------------------------
(* Small instances of Membership. *)
EXTENDS Membership

\* Node 1 and node 2 are each other's seeds; the others know node 1.
TwoSeeds == [n \in Nodes |-> IF n = 1 THEN {2} \intersect Nodes ELSE {1}]
=============================================================================
