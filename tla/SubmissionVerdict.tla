------------------------- MODULE SubmissionVerdict -------------------------
(***************************************************************************)
(* One worker takes one submission from its first case to its verdict: the *)
(* code path of process_submission that no other worker disturbs, with     *)
(* every report the sandbox can give.  SubmissionWorker has the other      *)
(* workers and a handful of codes; this module has the whole of grade,     *)
(* _update_case_result and _finalize_submission, applied after every case. *)
(***************************************************************************)
EXTENDS Verdict, Sequences

CONSTANTS NumCases, Report

Case == 1..NumCases

ASSUME VerdictAssumption == NumCases \in Nat \ {0} /\ Report \subseteq RunReport

\* OutcomeUnknown: the request failed, or its answer was lost or malformed.
Lost == [status |-> "lost", signal |-> "KILL", matches |-> FALSE,
         over_time |-> FALSE, over_output |-> FALSE]

VARIABLES
  row,       \* the submission row
  results,   \* its case rows
  reports,   \* what the sandbox reported for the cases settled so far
  released   \* the worker has given the claim back

vars == <<row, results, reports, released>>

Init ==
  /\ row = NewSubmission
  /\ results = [c \in Case |-> NewCase]
  /\ reports = <<>>
  /\ released = FALSE

cursor == Len(reports) + 1

\* Mutant: the first failure code is kept.
SettleFirstCode(r, settled, code) ==
  LET f == [results EXCEPT ![cursor] = settled]
  IN  /\ results' = f
      /\ row' = Finalize(IF code = NONE \/ row.failure_code # NONE THEN row
                         ELSE [row EXCEPT !.failure_code = code], f)
      /\ reports' = Append(reports, r)
      /\ UNCHANGED released

\* The case is dispatched, its report r stored, and the verdict tried.
Settle(r, settled, code) ==
  LET f == [results EXCEPT ![cursor] = settled]
  IN  /\ results' = f
      /\ row' = Finalize(IF code = NONE THEN row
                         ELSE [row EXCEPT !.failure_code = code], f)
      /\ reports' = Append(reports, r)
      /\ UNCHANGED released

Dispatched == [results[cursor] EXCEPT !.dispatched = TRUE, !.attempts = 1,
                                      !.status = PROCESSING]

ReportCase(r) ==
  LET settled == UpdateCaseResult(Dispatched, Grade(r))
  IN  /\ cursor \in Case
      /\ Settle(r, settled, IF settled.infra THEN "runner_internal_error" ELSE NONE)

LoseCase ==
  /\ cursor \in Case
  /\ Settle(Lost, MarkInfrastructureFailure(Dispatched), "runner_outcome_unknown")

\* The worker finalizes once more before it releases the claim.
Release ==
  /\ cursor \notin Case
  /\ ~released
  /\ released' = TRUE
  /\ row' = Finalize(row, results)
  /\ UNCHANGED <<results, reports>>

Next == (\E r \in Report : ReportCase(r)) \/ LoseCase \/ Release

Spec == Init /\ [][Next]_vars

-----------------------------------------------------------------------------
(* What the reports of a submission call for, without status ids.          *)

Exited(r) == r.status = "Accepted" /\ ~r.over_output /\ ~r.over_time
Right(r) == Exited(r) /\ r.matches
Wrong(r) == Exited(r) /\ ~r.matches
Ungraded(r) == r.status \in {"lost", "Internal Error"}
TooMuchOutput(r) == \/ r.status = "Output Limit Exceeded"
                    \/ r.status = "Signalled" /\ r.signal = "XFSZ"
                    \/ r.status = "Accepted" /\ r.over_output
TooSlow(r) == \/ r.status = "Time Limit Exceeded"
              \/ r.status = "Accepted" /\ r.over_time /\ ~r.over_output
Broken(r) == ~(Right(r) \/ Wrong(r) \/ Ungraded(r) \/ TooMuchOutput(r) \/ TooSlow(r))

Some(P(_)) == \E i \in DOMAIN reports : P(reports[i])

-----------------------------------------------------------------------------
(* Properties.                                                             *)

\* The verdict of a submission is the one D1_Detailed_Design.md:170 gives its
\* reports: an ungraded case voids it; otherwise timeout goes before resource
\* limit, runtime error and wrong answer, whatever the order of the cases, and
\* the submission stays open until its last case.
FailurePriority ==
  row.status =
    IF cursor \in Case THEN "queued"
    ELSE IF Some(Ungraded) THEN "infrastructure_error"
    ELSE IF Some(TooSlow) THEN "timeout"
    ELSE IF Some(TooMuchOutput) THEN "resource_limit"
    ELSE IF Some(Broken) THEN "runtime_error"
    ELSE IF Some(Wrong) THEN "failed" ELSE "passed"

\* Credit is given for the runs that ended in time, within the output limit and
\* with the expected output, and for those only; a voided submission has none.
CreditIsEarned ==
  row.status \in TerminalStatus =>
    row.passed = IF Some(Ungraded) THEN NoScore
                 ELSE Cardinality({i \in DOMAIN reports : Right(reports[i])})

\* The student is offered a retry exactly when the submission is over and the
\* last of its cases that could not be graded was lost, rather than reported as
\* an internal error of the sandbox: the later failure code overwrites the
\* earlier one, and a graded submission is never offered again.
RetryFollowsLastFailure ==
  Retryable(row) <=>
    /\ cursor \notin Case
    /\ \E i \in DOMAIN reports :
         /\ reports[i] = Lost
         /\ \A j \in DOMAIN reports : j > i => ~Ungraded(reports[j])
=============================================================================
