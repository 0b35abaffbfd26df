---------------------------- MODULE MCSupervision ----------------------------
(* Two children on the parent's node and one on the other.  The children on *)
(* home differ in nothing: the invariants do not tell them apart.           *)
EXTENDS Supervision

CONSTANTS near1, near2, distant

MCSpecs == {near1, near2, distant}
MCFarSpecs == {distant}
MCStrategies == {"one-for-one", "one-for-all", "rest-for-one"}
MCSymmetry == Permutations({near1, near2})

=============================================================================
