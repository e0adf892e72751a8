------------------------ MODULE MCOperationalActuals ------------------------
(* Instances of OperationalActuals for TLC. *)
EXTENDS OperationalActuals, TLC

CONSTANTS t1, t2, r1, r2

RunnerSymmetry == Permutations(Runners)
=============================================================================
