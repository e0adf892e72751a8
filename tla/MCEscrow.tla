------------------------------ MODULE MCEscrow ------------------------------
(* Instances of Escrow for TLC: runners and workers are interchangeable. *)
EXTENDS Escrow, TLC

CONSTANTS r1, r2, w1, w2

RunnerSymmetry == Permutations(Runners)
WorkerSymmetry == Permutations(Workers)
=============================================================================
