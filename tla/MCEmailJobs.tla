---------------------------- MODULE MCEmailJobs ----------------------------
(***************************************************************************)
(* EmailJobs with two workers and notices to two students.                 *)
(***************************************************************************)
EXTENDS EmailJobs

CONSTANTS w1, w2
=============================================================================
