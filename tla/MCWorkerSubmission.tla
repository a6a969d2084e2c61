------------------------- MODULE MCWorkerSubmission -------------------------
(***************************************************************************)
(* Instances of WorkerSubmission for TLC.                                  *)
(***************************************************************************)
EXTENDS WorkerSubmission, TLC

Symmetry == Permutations(Runs)
=============================================================================
