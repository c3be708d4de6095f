------------------------------ MODULE Verdict ------------------------------
(***************************************************************************)
(* How one sandbox report becomes a case result, and how the case results  *)
(* of a submission become its verdict.  The operators are pure: the        *)
(* modules that own the rows apply them.                                   *)
(*                                                                         *)
(* A case row is a record with the fields status (judge0_status_id, 0 for  *)
(* NULL), infra (infrastructure_error), dispatched (dispatch_started_at is *)
(* set) and attempts (dispatch_attempt_count).  A submission row has the   *)
(* fields status, failure_code, passed (the numerator of score, whose      *)
(* denominator is the number of cases) and primary_error; NONE is NULL.    *)
(***************************************************************************)
EXTENDS Integers, FiniteSets

NONE == "none"
NoScore == -1
NoStatus == 0

IN_QUEUE == 1
PROCESSING == 2
ACCEPTED == 3
WRONG_ANSWER == 4
TIME_LIMIT_EXCEEDED == 5
COMPILATION_ERROR == 6
SIGSEGV == 7
SIGXFSZ == 8
SIGFPE == 9
SIGABRT == 10
NZEC == 11
RUNTIME_OTHER == 12
INTERNAL_ERROR == 13
EXEC_FORMAT_ERROR == 14

\* The ids a case can end with.
TerminalIds == ACCEPTED..EXEC_FORMAT_ERROR

\* _is_terminal: NULL, queued and processing are not terminal.
IsTerminal(id) == id >= ACCEPTED

-----------------------------------------------------------------------------
(* go_judge.grade: the report of one run, in the terms its branches test.  *)

SandboxStatus ==
  {"Accepted", "Time Limit Exceeded", "Memory Limit Exceeded",
   "Output Limit Exceeded", "Nonzero Exit Status", "Signalled",
   "Dangerous Syscall", "Internal Error"}
Signal == {"SEGV", "XFSZ", "FPE", "ABRT", "KILL"}

RunReport == [status : SandboxStatus, signal : Signal, matches : BOOLEAN,
              over_time : BOOLEAN, over_output : BOOLEAN]

SignalCode(signal) ==
  CASE signal = "SEGV" -> SIGSEGV
    [] signal = "XFSZ" -> SIGXFSZ
    [] signal = "FPE"  -> SIGFPE
    [] signal = "ABRT" -> SIGABRT
    [] OTHER           -> RUNTIME_OTHER

\* Mutant: a matching output is accepted whatever the run took.
AcceptedIfMatching(r) ==
  IF r.matches THEN ACCEPTED
  ELSE IF r.over_output THEN SIGXFSZ
  ELSE IF r.over_time THEN TIME_LIMIT_EXCEEDED ELSE WRONG_ANSWER

\* An exit status of "Accepted" is compared with the expected output; a
\* later test overrides an earlier one.
AcceptedCode(r) ==
  IF r.over_output THEN SIGXFSZ
  ELSE IF r.over_time THEN TIME_LIMIT_EXCEEDED
  ELSE IF r.matches THEN ACCEPTED ELSE WRONG_ANSWER

Grade(r) ==
  CASE r.status = "Accepted" -> AcceptedCode(r)
    [] r.status = "Signalled" -> SignalCode(r.signal)
    [] r.status = "Time Limit Exceeded" -> TIME_LIMIT_EXCEEDED
    [] r.status = "Output Limit Exceeded" -> SIGXFSZ
    [] r.status = "Nonzero Exit Status" -> NZEC
    [] r.status \in {"Memory Limit Exceeded", "Dangerous Syscall"} -> RUNTIME_OTHER
    [] OTHER -> INTERNAL_ERROR

\* What grade can return: a compilation or exec-format error is never reported.
GradeCodes == TerminalIds \ {COMPILATION_ERROR, EXEC_FORMAT_ERROR}

-----------------------------------------------------------------------------
(* Case rows.                                                              *)

NewCase == [status |-> NoStatus, infra |-> FALSE, dispatched |-> FALSE,
            attempts |-> 0]

\* _update_case_result: a terminal case is left alone.
UpdateCaseResult(case, id) ==
  IF IsTerminal(case.status) THEN case
  ELSE [case EXCEPT !.status = id, !.infra = (id = INTERNAL_ERROR)]

\* Mutant: the case is not flagged as an infrastructure failure.
MarkUnflagged(case) == [case EXCEPT !.status = INTERNAL_ERROR]

\* The case part of _mark_infrastructure_failure.
MarkInfrastructureFailure(case) ==
  [case EXCEPT !.status = INTERNAL_ERROR, !.infra = TRUE]

-----------------------------------------------------------------------------
(* Submission rows.                                                        *)

ActiveStatus == {"queued", "running"}
GradedStatus == {"passed", "failed", "compile_error", "runtime_error",
                 "timeout", "resource_limit"}
TerminalStatus == GradedStatus \cup {"infrastructure_error"}
FailureCode == {"runner_outcome_unknown", "runner_internal_error"}

RuntimeIds == {SIGSEGV, SIGFPE, SIGABRT, NZEC, RUNTIME_OTHER, EXEC_FORMAT_ERROR}

\* _error_for_status; NONE for an accepted case and for an internal error.
ErrorForStatus(id) ==
  CASE id = WRONG_ANSWER        -> "wrong_answer"
    [] id = TIME_LIMIT_EXCEEDED -> "timeout"
    [] id = COMPILATION_ERROR   -> "compile_error"
    [] id = SIGXFSZ             -> "resource_limit"
    [] id \in RuntimeIds        -> "runtime_error"
    [] OTHER                    -> NONE

ErrorCategory ==
  {"compile_error", "timeout", "resource_limit", "runtime_error", "wrong_answer"}
\* Mutant: a runtime error goes before a timeout.
RuntimeErrorFirst ==
  <<"compile_error", "runtime_error", "timeout", "resource_limit", "wrong_answer">>
ERROR_PRIORITY ==
  <<"compile_error", "timeout", "resource_limit", "runtime_error", "wrong_answer">>

\* ERROR_STATUSES: the only category whose status has another name.
StatusForError(error) == IF error = "wrong_answer" THEN "failed" ELSE error

Errors(cases) == {ErrorForStatus(cases[c].status) : c \in DOMAIN cases} \ {NONE}

\* The first category of the priority order that occurs.
PrimaryError(cases) ==
  LET first == CHOOSE i \in DOMAIN ERROR_PRIORITY :
                 /\ ERROR_PRIORITY[i] \in Errors(cases)
                 /\ \A j \in 1..(i - 1) : ERROR_PRIORITY[j] \notin Errors(cases)
  IN  ERROR_PRIORITY[first]

AllTerminal(cases) == \A c \in DOMAIN cases : IsTerminal(cases[c].status)
AnyInfra(cases) == \E c \in DOMAIN cases : cases[c].infra
Passed(cases) == {c \in DOMAIN cases : cases[c].status = ACCEPTED}

\* The rows as the database types them, a row not inserted yet included.
CaseRow == [status : {NoStatus, PROCESSING} \cup TerminalIds, infra : BOOLEAN,
            dispatched : BOOLEAN, attempts : Nat]
SubmissionRow == [status : {"absent"} \cup ActiveStatus \cup TerminalStatus,
                  failure_code : FailureCode \cup {NONE},
                  passed : Nat \cup {NoScore},
                  primary_error : ErrorCategory \cup {NONE}]

NewSubmission == [status |-> "queued", failure_code |-> NONE,
                  passed |-> NoScore, primary_error |-> NONE]

\* The status of a submission that still has unfinished cases.
Waiting(row, cases) ==
  [row EXCEPT !.status =
     IF \/ \E c \in DOMAIN cases : cases[c].status = PROCESSING
        \/ row.status = "running"
     THEN "running" ELSE "queued"]

Abandoned(row) ==
  [row EXCEPT !.status = "infrastructure_error", !.passed = NoScore,
              !.failure_code = IF row.failure_code = NONE
                               THEN "runner_internal_error" ELSE row.failure_code]

Graded(row, cases) ==
  LET failed == Passed(cases) # DOMAIN cases
  IN  [row EXCEPT !.passed = Cardinality(Passed(cases)),
                  !.primary_error = IF failed THEN PrimaryError(cases) ELSE NONE,
                  !.status = IF failed THEN StatusForError(PrimaryError(cases))
                             ELSE "passed"]

\* Mutant: the first infrastructure failure ends the submission.
FinalizeEager(row, cases) ==
  IF row.status \in TerminalStatus \/ DOMAIN cases = {} THEN row
  ELSE IF AnyInfra(cases) THEN Abandoned(row)
  ELSE IF ~AllTerminal(cases) THEN Waiting(row, cases)
  ELSE Graded(row, cases)

\* _finalize_submission, without the call of finalize_progress.
Finalize(row, cases) ==
  IF row.status \in TerminalStatus \/ DOMAIN cases = {} THEN row
  ELSE IF ~AllTerminal(cases) THEN Waiting(row, cases)
  ELSE IF AnyInfra(cases) THEN Abandoned(row)
  ELSE Graded(row, cases)

\* Mutant: progress is finalized whenever the result is a grade.
DecidesAgain(row, cases) == Finalize(row, cases).status \in GradedStatus

\* Finalize decides the verdict of a graded submission in this call.
Decides(row, cases) ==
  /\ row.status \notin TerminalStatus
  /\ Finalize(row, cases).status \in GradedStatus

\* _submission_response: whether the interface offers the attempt again.
Retryable(row) ==
  /\ row.status \in TerminalStatus
  /\ row.failure_code = "runner_outcome_unknown"
=============================================================================
