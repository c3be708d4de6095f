------------------------ MODULE MCSubmissionVerdict ------------------------
(* The reports that differ in a field grade reads: signal counts only for   *)
(* a signalled program, the comparisons only for one that exited by itself. *)
EXTENDS SubmissionVerdict

MCReport ==
  {r \in RunReport :
     /\ r.status # "Signalled" => r.signal = "KILL"
     /\ r.status # "Accepted" => ~r.matches /\ ~r.over_time /\ ~r.over_output}
=============================================================================
