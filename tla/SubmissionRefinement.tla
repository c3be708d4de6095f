----------------------- MODULE SubmissionRefinement -----------------------
(***************************************************************************)
(* The refinement mapping from the worker processes and their rows to what *)
(* the queue promises (AtMostOnceGrading).                                 *)
(***************************************************************************)
EXTENDS SubmissionWorker

PhaseOf(case) ==
  IF IsTerminal(case.status) THEN "settled"
  ELSE IF case.dispatched THEN "begun" ELSE "waiting"

ResultOf(case) ==
  IF ~IsTerminal(case.status) THEN NoStatus
  ELSE IF case.infra THEN INTERNAL_ERROR ELSE case.status

Open == -1
Void == -2

VerdictOf(row) ==
  IF row.status \in GradedStatus THEN row.passed
  ELSE IF row.status = "infrastructure_error" THEN Void ELSE Open

handedIn == {s \in Submission : sub[s].status # "absent"}
phaseBar == [s \in Submission |-> [c \in Case |-> PhaseOf(cases[s][c])]]
resultBar == [s \in Submission |-> [c \in Case |-> ResultOf(cases[s][c])]]
verdictBar == [s \in Submission |-> VerdictOf(sub[s])]

Grading == INSTANCE AtMostOnceGrading
  WITH Codes <- SandboxCodes, Accepted <- ACCEPTED, Failure <- INTERNAL_ERROR,
       Unset <- NoStatus,
       handed_in <- handedIn, phase <- phaseBar, result <- resultBar,
       ran <- runs, code <- observed, verdict <- verdictBar

\* The queue keeps its promise: every step of the workers, of a crash and of
\* the clock is a step of AtMostOnceGrading or changes nothing it can see, and
\* with fair workers every submission is decided.
GradingPromise == Grading!GSpec
=============================================================================
