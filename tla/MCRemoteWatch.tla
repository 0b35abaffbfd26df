--------------------------- MODULE MCRemoteWatch ---------------------------
(* Small instances of RemoteWatch: all watches are about one actor. *)
EXTENDS RemoteWatch

TargetOne == [w \in Watches |-> CHOOSE a \in Actors : TRUE]
=============================================================================
