------------------------- MODULE MCStandingCapacity -------------------------
(* Symmetry for the model checker: nothing tells tasks or workers apart.   *)
EXTENDS StandingCapacity, TLC

BothSymmetry == Permutations(Tasks) \cup Permutations(Workers)
=============================================================================
