------------------------ MODULE MCSubmissionWorker ------------------------
(* Constants and symmetry for checking SubmissionWorker with TLC.          *)
EXTENDS SubmissionWorker, TLC

WorkerSymmetry == Permutations(Worker)
=============================================================================
