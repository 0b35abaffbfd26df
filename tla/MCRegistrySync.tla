--------------------------- MODULE MCRegistrySync ---------------------------
(* Small instances of RegistrySync. *)
EXTENDS RegistrySync

\* Node 1 alone may host a; any node may host b.
MixedHomes == [a \in Names |-> IF a = "a" THEN {1} ELSE Nodes]
=============================================================================
