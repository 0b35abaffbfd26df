-------------------------- MODULE MCProcessGroups ---------------------------
(* Small instances of ProcessGroups. *)
EXTENDS ProcessGroups

EachOther == [n \in Nodes |-> Nodes \ {n}]

\* x lives on node 1; y in the first and z in the second process of node 2.
TwoHomes == [a \in Actors |-> IF a = "x" THEN 1 ELSE 2]
Births == [a \in Actors |-> IF a = "z" THEN 2 ELSE 1]
=============================================================================
