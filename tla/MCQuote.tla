------------------------------- MODULE MCQuote -------------------------------
(* Symmetry for the model checker: nothing tells invocations apart.        *)
EXTENDS Quote, TLC

InvocationSymmetry == Permutations(Invocations)
=============================================================================
