------------------------ MODULE GradebookRefinement ------------------------
(***************************************************************************)
(* The gradebook with its locks and snapshots as a SerialGradebook: a      *)
(* request arrives when it takes the lock of the student's row, and takes  *)
(* effect when it commits.                                                 *)
(***************************************************************************)
EXTENDS Gradebook

stageBar == [r \in Request |-> pc[r]]
termsBar ==
  [r \in Request |->
     IF pc[r] # "entered" THEN [due |-> 0, full |-> FALSE]
     ELSE [due |-> snap[r].due,
           full |-> Active(snap[r].subs) # {} \/ LimitReached(snap[r].subs)]]

Serial == INSTANCE SerialGradebook
  WITH attempt <- subs, stage <- stageBar, terms <- termsBar, book <- progress,
       reported <- summary, lost <- stale

\* The gradebook keeps its promise: whatever overlaps, what a request decides on
\* its snapshot is right for the attempts there are when it commits, repeated
\* requests are one attempt, the due date of its arrival decides whether an
\* attempt is late, progress and course summary say the same of the attempts
\* whenever the summary is refreshed, and only an approval can lose a grade.
GradebookPromise == Serial!SSpec
=============================================================================
