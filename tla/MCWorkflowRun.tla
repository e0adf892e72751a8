---------------------------- MODULE MCWorkflowRun ----------------------------
(***************************************************************************)
(* Instances of WorkflowRun for TLC.  Symmetry is for the safety run only. *)
(***************************************************************************)
EXTENDS WorkflowRun, TLC

Symmetry == Permutations(Invocations)
=============================================================================
