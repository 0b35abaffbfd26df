------------------------------ MODULE MCLinks ------------------------------
(* Two actors x and y of one node, linked twice, and an actor z of another   *)
(* node with a link from x; y watches x.                                     *)
EXTENDS Links

MCActors == {"x", "y", "z"}
MCNodeOf == [a \in MCActors |-> IF a = "z" THEN 2 ELSE 1]
MCLinkIds == {"xy", "yx", "xz"}
MCLinker == [l \in MCLinkIds |-> IF l = "yx" THEN "y" ELSE "x"]
MCLinked == [l \in MCLinkIds |-> CASE l = "xy" -> "y" [] l = "yx" -> "x" [] l = "xz" -> "z"]
MCTrapSets == {{}, {"x"}}
MCWatches == {"v"}
MCWatcher == [v \in MCWatches |-> "y"]
MCWatched == [v \in MCWatches |-> "x"]

=============================================================================
