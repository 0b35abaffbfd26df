--------------------------- MODULE MCActorMailbox ---------------------------
(* Small instances of ActorMailbox. *)
EXTENDS ActorMailbox, TLC

\* Messages of one kind, and loops, are interchangeable.
Symmetry == Permutations(Casts) \union Permutations(Calls) \union Permutations(Loops)
=============================================================================
