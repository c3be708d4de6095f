---------------------- MODULE SubmissionVerdictProofs ----------------------
(***************************************************************************)
(* Proofs about SubmissionVerdict for any number of cases and any set of   *)
(* sandbox reports.                                                        *)
(*                                                                         *)
(* The reports settled so far determine the case rows, and the last of     *)
(* them that voids the submission determines its failure code.  That makes *)
(* the three properties inductive: the verdict is reached in one step, by  *)
(* the last case, and Finalize leaves a terminal row alone.                *)
(***************************************************************************)
EXTENDS SubmissionVerdict, FiniteSetTheorems, SequenceTheorems, TLAPS

USE VerdictAssumption

Answer == Report \cup {Lost}

\* The row of a case once its answer is stored.
SettledCase(r) == [status |-> Grade(r), infra |-> (Grade(r) = INTERNAL_ERROR),
                   dispatched |-> TRUE, attempts |-> 1]

\* The failure code an ungraded case leaves.
CodeOf(r) == IF r = Lost THEN "runner_outcome_unknown" ELSE "runner_internal_error"

TypeOK ==
  /\ row \in SubmissionRow
  /\ reports \in Seq(Answer)
  /\ Len(reports) <= NumCases
  /\ released \in BOOLEAN

\* The case rows are what the reports make them.
CasesSettled ==
  results = [c \in Case |-> IF c < cursor THEN SettledCase(reports[c]) ELSE NewCase]

\* The failure code of reports: the code of the last of them that is ungraded.
CodeAfter(code, s) ==
  \/ code = NONE /\ \A i \in DOMAIN s : ~Ungraded(s[i])
  \/ \E i \in DOMAIN s :
       /\ Ungraded(s[i]) /\ code = CodeOf(s[i])
       /\ \A j \in DOMAIN s : j > i => ~Ungraded(s[j])

LastFailure == CodeAfter(row.failure_code, reports)

IInv == TypeOK /\ CasesSettled /\ LastFailure /\ FailurePriority /\ CreditIsEarned

-----------------------------------------------------------------------------
(* What grade makes of a report.                                           *)

\* The status id of a case tells what its report calls for.
LEMMA GradeMeaning ==
  ASSUME NEW r \in Answer
  PROVE  /\ Grade(r) \in GradeCodes
         /\ Grade(r) = ACCEPTED <=> Right(r)
         /\ Grade(r) = WRONG_ANSWER <=> Wrong(r)
         /\ Grade(r) = TIME_LIMIT_EXCEEDED <=> TooSlow(r)
         /\ Grade(r) = SIGXFSZ <=> TooMuchOutput(r)
         /\ Grade(r) = INTERNAL_ERROR <=> Ungraded(r)
         /\ Grade(r) \in RuntimeIds <=> Broken(r)
<1> USE DEF ACCEPTED, WRONG_ANSWER, TIME_LIMIT_EXCEEDED, COMPILATION_ERROR, SIGSEGV,
            SIGXFSZ, SIGFPE, SIGABRT, NZEC, RUNTIME_OTHER, INTERNAL_ERROR,
            EXEC_FORMAT_ERROR
<1> DEFINE Meanings(i) ==
     /\ i \in GradeCodes
     /\ i = ACCEPTED <=> Right(r)
     /\ i = WRONG_ANSWER <=> Wrong(r)
     /\ i = TIME_LIMIT_EXCEEDED <=> TooSlow(r)
     /\ i = SIGXFSZ <=> TooMuchOutput(r)
     /\ i = INTERNAL_ERROR <=> Ungraded(r)
     /\ i \in RuntimeIds <=> Broken(r)
<1> DEFINE status == r.status
           id == Grade(r)
<1>1. \/ status = "lost"
      \/ status \in SandboxStatus /\ r.signal \in Signal
  BY DEF Answer, Lost, RunReport
<1>2. CASE r.status = "Accepted"
  <2>1. Grade(r) = AcceptedCode(r)
    BY <1>2 DEF Grade
  <2>2. Meanings(AcceptedCode(r))
    BY <1>2 DEF AcceptedCode, GradeCodes, TerminalIds, RuntimeIds, Right, Wrong, Exited,
      TooSlow, TooMuchOutput, Ungraded, Broken
  <2> QED
    BY <2>1, <2>2
<1>3. CASE r.status = "Signalled" /\ r.signal \in Signal
  <2>1. Grade(r) = SignalCode(r.signal)
    BY <1>3 DEF Grade
  <2>2. Meanings(SignalCode(r.signal))
    BY <1>3 DEF Signal, SignalCode, GradeCodes, TerminalIds, RuntimeIds, Right, Wrong,
      Exited, TooSlow, TooMuchOutput, Ungraded, Broken
  <2> QED
    BY <2>1, <2>2
<1>4. CASE status \notin {"Accepted", "Signalled"}
  <2>1. /\ status = "Time Limit Exceeded" => id = TIME_LIMIT_EXCEEDED
        /\ status = "Output Limit Exceeded" => id = SIGXFSZ
        /\ status = "Nonzero Exit Status" => id = NZEC
        /\ status \in {"Memory Limit Exceeded", "Dangerous Syscall"} => id = RUNTIME_OTHER
        /\ status \in {"lost", "Internal Error"} => id = INTERNAL_ERROR
    BY DEF Grade
  <2>2. /\ ~Right(r) /\ ~Wrong(r)
        /\ TooSlow(r) <=> status = "Time Limit Exceeded"
        /\ TooMuchOutput(r) <=> status = "Output Limit Exceeded"
        /\ Ungraded(r) <=> status \in {"lost", "Internal Error"}
        /\ Broken(r) <=>
             status \notin {"Time Limit Exceeded", "Output Limit Exceeded",
                              "lost", "Internal Error"}
    BY <1>4 DEF Right, Wrong, Exited, TooSlow, TooMuchOutput, Ungraded, Broken
  <2>3. status \in {"Time Limit Exceeded", "Output Limit Exceeded", "Nonzero Exit Status",
                    "Memory Limit Exceeded", "Dangerous Syscall", "lost", "Internal Error"}
    BY <1>1, <1>4 DEF SandboxStatus
  <2> DEFINE Only(slow, much, ungraded, broken) ==
               /\ ~Right(r) /\ ~Wrong(r)
               /\ TooSlow(r) <=> slow
               /\ TooMuchOutput(r) <=> much
               /\ Ungraded(r) <=> ungraded
               /\ Broken(r) <=> broken
  <2>4. \/ id = TIME_LIMIT_EXCEEDED /\ Only(TRUE, FALSE, FALSE, FALSE)
        \/ id = SIGXFSZ /\ Only(FALSE, TRUE, FALSE, FALSE)
        \/ id = INTERNAL_ERROR /\ Only(FALSE, FALSE, TRUE, FALSE)
        \/ id \in {NZEC, RUNTIME_OTHER} /\ Only(FALSE, FALSE, FALSE, TRUE)
    <3> HIDE DEF status, id
    <3> QED
      BY <2>1, <2>2, <2>3, Zenon
  <2> HIDE DEF id
  <2>5. Meanings(id)
    BY <2>4 DEF GradeCodes, TerminalIds, RuntimeIds
  <2> QED
    BY <2>5 DEF id
<1> QED
  BY <1>1, <1>2, <1>3, <1>4

\* The error category a report leads to.
LEMMA CategoryMeaning ==
  ASSUME NEW r \in Answer
  PROVE  /\ ErrorForStatus(Grade(r)) \in ErrorCategory \cup {NONE}
         /\ ErrorForStatus(Grade(r)) # "compile_error"
         /\ ErrorForStatus(Grade(r)) = "timeout" <=> TooSlow(r)
         /\ ErrorForStatus(Grade(r)) = "resource_limit" <=> TooMuchOutput(r)
         /\ ErrorForStatus(Grade(r)) = "runtime_error" <=> Broken(r)
         /\ ErrorForStatus(Grade(r)) = "wrong_answer" <=> Wrong(r)
<1>1. ASSUME NEW id \in GradeCodes
      PROVE  /\ ErrorForStatus(id) \in ErrorCategory \cup {NONE}
             /\ ErrorForStatus(id) # "compile_error"
             /\ ErrorForStatus(id) = "timeout" <=> id = TIME_LIMIT_EXCEEDED
             /\ ErrorForStatus(id) = "resource_limit" <=> id = SIGXFSZ
             /\ ErrorForStatus(id) = "runtime_error" <=> id \in RuntimeIds
             /\ ErrorForStatus(id) = "wrong_answer" <=> id = WRONG_ANSWER
  BY DEF GradeCodes, TerminalIds, ErrorForStatus, ErrorCategory, RuntimeIds, NONE, ACCEPTED,
    WRONG_ANSWER, TIME_LIMIT_EXCEEDED, COMPILATION_ERROR, SIGSEGV, SIGXFSZ, SIGFPE,
    SIGABRT, NZEC, RUNTIME_OTHER, INTERNAL_ERROR, EXEC_FORMAT_ERROR
<1> DEFINE id == Grade(r)
<1>2. id \in GradeCodes
  BY GradeMeaning
<1> HIDE DEF id
<1>3. /\ ErrorForStatus(id) \in ErrorCategory \cup {NONE}
      /\ ErrorForStatus(id) # "compile_error"
      /\ ErrorForStatus(id) = "timeout" <=> id = TIME_LIMIT_EXCEEDED
      /\ ErrorForStatus(id) = "resource_limit" <=> id = SIGXFSZ
      /\ ErrorForStatus(id) = "runtime_error" <=> id \in RuntimeIds
      /\ ErrorForStatus(id) = "wrong_answer" <=> id = WRONG_ANSWER
  BY <1>1, <1>2
<1> QED
  BY <1>3, GradeMeaning DEF id

\* The primary error is the first category of ERROR_PRIORITY that occurs.
LEMMA PrimaryByPriority ==
  ASSUME NEW cases, Errors(cases) # {}, Errors(cases) \subseteq ErrorCategory
  PROVE  PrimaryError(cases) =
           IF "compile_error" \in Errors(cases) THEN "compile_error"
           ELSE IF "timeout" \in Errors(cases) THEN "timeout"
           ELSE IF "resource_limit" \in Errors(cases) THEN "resource_limit"
           ELSE IF "runtime_error" \in Errors(cases) THEN "runtime_error"
           ELSE "wrong_answer"
<1> DEFINE E == Errors(cases)
           P(i) == /\ ERROR_PRIORITY[i] \in E
                   /\ \A j \in 1..(i - 1) : ERROR_PRIORITY[j] \notin E
           first == CHOOSE i \in DOMAIN ERROR_PRIORITY : P(i)
<1>1. /\ DOMAIN ERROR_PRIORITY = 1..5
      /\ ERROR_PRIORITY[1] = "compile_error" /\ ERROR_PRIORITY[2] = "timeout"
      /\ ERROR_PRIORITY[3] = "resource_limit" /\ ERROR_PRIORITY[4] = "runtime_error"
      /\ ERROR_PRIORITY[5] = "wrong_answer"
  BY DEF ERROR_PRIORITY
<1>2. PrimaryError(cases) = ERROR_PRIORITY[first]
  BY DEF PrimaryError
<1>3. E # {} /\ E \subseteq ErrorCategory
  OBVIOUS
<1> HIDE DEF E
<1>4. ASSUME NEW i \in 1..5, P(i)
      PROVE  first = i
  <2>1. first \in 1..5 /\ P(first)
    BY <1>1, <1>4
  <2> HIDE DEF first
  <2>2. ~(first < i)
    <3>1. first < i => first \in 1..(i - 1)
      BY <2>1
    <3> QED
      BY <1>4, <2>1, <3>1
  <2>3. ~(i < first)
    <3>1. i < first => i \in 1..(first - 1)
      BY <2>1
    <3> QED
      BY <1>4, <2>1, <3>1
  <2> QED
    BY <2>1, <2>2, <2>3
<1> HIDE DEF first
<1>5. \A i \in 1..5 : \A j \in 1..(i - 1) : j = 1 \/ j = 2 \/ j = 3 \/ j = 4
  OBVIOUS
<1>6. CASE "compile_error" \in E
  <2>1. P(1)
    BY <1>1, <1>6
  <2>2. first = 1
    BY <2>1, <1>4
  <2> QED
    BY <1>1, <1>2, <1>6, <2>2 DEF E
<1>7. CASE "compile_error" \notin E /\ "timeout" \in E
  <2>1. P(2)
    BY <1>1, <1>7
  <2>2. first = 2
    BY <2>1, <1>4
  <2> QED
    BY <1>1, <1>2, <1>7, <2>2 DEF E
<1>8. CASE /\ "compile_error" \notin E /\ "timeout" \notin E /\ "resource_limit" \in E
  <2>1. P(3)
    BY <1>1, <1>8
  <2>2. first = 3
    BY <2>1, <1>4
  <2> QED
    BY <1>1, <1>2, <1>8, <2>2 DEF E
<1>9. CASE /\ "compile_error" \notin E /\ "timeout" \notin E /\ "resource_limit" \notin E
           /\ "runtime_error" \in E
  <2>1. P(4)
    BY <1>1, <1>9
  <2>2. first = 4
    BY <2>1, <1>4
  <2> QED
    BY <1>1, <1>2, <1>9, <2>2 DEF E
<1>10. CASE /\ "compile_error" \notin E /\ "timeout" \notin E /\ "resource_limit" \notin E
            /\ "runtime_error" \notin E
  <2>1. "wrong_answer" \in E
    BY <1>3, <1>10 DEF ErrorCategory
  <2>2. P(5)
    BY <1>1, <1>10, <2>1
  <2>3. first = 5
    BY <2>2, <1>4
  <2> QED
    BY <1>1, <1>2, <1>10, <2>3 DEF E
<1> QED
  BY <1>6, <1>7, <1>8, <1>9, <1>10

-----------------------------------------------------------------------------
(* What Finalize makes of the case rows.                                   *)

\* The case rows once every case has its report.
AllSettled(s) == [c \in Case |-> SettledCase(s[c])]

LEMMA SettledRows ==
  ASSUME NEW s \in Seq(Answer), Len(s) = NumCases
  PROVE  /\ DOMAIN s = Case /\ DOMAIN AllSettled(s) = Case /\ Case # {}
         /\ \A c \in Case : s[c] \in Answer
         /\ AllTerminal(AllSettled(s))
         /\ AnyInfra(AllSettled(s)) <=> \E c \in Case : Ungraded(s[c])
         /\ Passed(AllSettled(s)) = {c \in Case : Right(s[c])}
         /\ Errors(AllSettled(s)) =
              {ErrorForStatus(Grade(s[c])) : c \in Case} \ {NONE}
<1>1. DOMAIN s = Case /\ Case # {}
  BY DEF Case
<1>2. DOMAIN AllSettled(s) = Case
  BY DEF AllSettled
<1>3. \A c \in Case : s[c] \in Answer
  BY <1>1
<1>4. \A c \in Case : AllSettled(s)[c] = SettledCase(s[c])
  BY DEF AllSettled
<1>5. \A c \in Case : /\ AllSettled(s)[c].status = Grade(s[c])
                      /\ AllSettled(s)[c].infra <=> Ungraded(s[c])
  <2>1. \A r : SettledCase(r).status = Grade(r)
    BY DEF SettledCase
  <2>2. \A r \in Answer : SettledCase(r).infra <=> Ungraded(r)
    <3>1. \A r : SettledCase(r).infra <=> Grade(r) = INTERNAL_ERROR
      BY DEF SettledCase
    <3> QED
      BY <3>1, GradeMeaning
  <2> QED
    BY <1>3, <1>4, <2>1, <2>2
<1>6. AllTerminal(AllSettled(s))
  <2>1. \A c \in Case : Grade(s[c]) \in GradeCodes
    BY <1>3, GradeMeaning
  <2>2. \A id \in GradeCodes : IsTerminal(id)
    BY DEF GradeCodes, TerminalIds, IsTerminal, ACCEPTED, EXEC_FORMAT_ERROR
  <2> QED
    BY <1>2, <1>5, <2>1, <2>2 DEF AllTerminal
<1>7. AnyInfra(AllSettled(s)) <=> \E c \in Case : Ungraded(s[c])
  BY <1>2, <1>5, Zenon DEF AnyInfra
<1>8. Passed(AllSettled(s)) = {c \in Case : Right(s[c])}
  <2>1. \A c \in Case : AllSettled(s)[c].status = ACCEPTED <=> Right(s[c])
    BY <1>3, <1>5, GradeMeaning, Zenon
  <2> QED
    BY <1>2, <2>1, Zenon DEF Passed
<1>9. Errors(AllSettled(s)) = {ErrorForStatus(Grade(s[c])) : c \in Case} \ {NONE}
  <2>1. {ErrorForStatus(AllSettled(s)[c].status) : c \in Case} =
          {ErrorForStatus(Grade(s[c])) : c \in Case}
    BY <1>5
  <2> QED
    BY <1>2, <2>1 DEF Errors
<1> QED
  BY <1>1, <1>2, <1>3, <1>6, <1>7, <1>8, <1>9

\* The verdict of D1_Detailed_Design.md:170, as a function of the reports.
VerdictOf(s) ==
  IF \E i \in DOMAIN s : Ungraded(s[i]) THEN "infrastructure_error"
  ELSE IF \E i \in DOMAIN s : TooSlow(s[i]) THEN "timeout"
  ELSE IF \E i \in DOMAIN s : TooMuchOutput(s[i]) THEN "resource_limit"
  ELSE IF \E i \in DOMAIN s : Broken(s[i]) THEN "runtime_error"
  ELSE IF \E i \in DOMAIN s : Wrong(s[i]) THEN "failed" ELSE "passed"

PassedOf(s) ==
  IF \E i \in DOMAIN s : Ungraded(s[i]) THEN NoScore
  ELSE Cardinality({i \in DOMAIN s : Right(s[i])})

LEMMA FinalizeVoided ==
  ASSUME NEW s \in Seq(Answer), Len(s) = NumCases,
         \E i \in DOMAIN s : Ungraded(s[i]),
         NEW w \in SubmissionRow, w.status = "queued", w.failure_code # NONE
  PROVE  /\ Finalize(w, AllSettled(s)) \in SubmissionRow
         /\ Finalize(w, AllSettled(s)).failure_code = w.failure_code
         /\ Finalize(w, AllSettled(s)).status = VerdictOf(s)
         /\ Finalize(w, AllSettled(s)).passed = PassedOf(s)
<1>1. w.status \notin TerminalStatus
  BY DEF TerminalStatus, GradedStatus
<1>2. Finalize(w, AllSettled(s)) = Abandoned(w)
  BY <1>1, SettledRows DEF Finalize
<1>3. /\ Abandoned(w) \in SubmissionRow
      /\ Abandoned(w).failure_code = w.failure_code
      /\ Abandoned(w).status = "infrastructure_error"
      /\ Abandoned(w).passed = NoScore
  BY DEF Abandoned, SubmissionRow, TerminalStatus
<1>4. VerdictOf(s) = "infrastructure_error" /\ PassedOf(s) = NoScore
  BY DEF VerdictOf, PassedOf
<1> QED
  BY <1>2, <1>3, <1>4

\* A report that is graded and not right has an error category.
LEMMA ReportKinds ==
  ASSUME NEW r \in Answer
  PROVE  /\ ErrorForStatus(Grade(r)) = NONE <=> Right(r) \/ Ungraded(r)
         /\ Right(r) \/ Wrong(r) \/ Ungraded(r) \/ TooMuchOutput(r) \/ TooSlow(r) \/ Broken(r)
<1>1. ASSUME NEW id \in GradeCodes
      PROVE  ErrorForStatus(id) = NONE <=> id = ACCEPTED \/ id = INTERNAL_ERROR
  BY DEF GradeCodes, TerminalIds, ErrorForStatus, RuntimeIds, NONE, ACCEPTED,
    WRONG_ANSWER, TIME_LIMIT_EXCEEDED, COMPILATION_ERROR, SIGSEGV, SIGXFSZ, SIGFPE,
    SIGABRT, NZEC, RUNTIME_OTHER, INTERNAL_ERROR, EXEC_FORMAT_ERROR
<1>2. ErrorForStatus(Grade(r)) = NONE <=> Grade(r) = ACCEPTED \/ Grade(r) = INTERNAL_ERROR
  BY <1>1, GradeMeaning
<1>3. Right(r) \/ Wrong(r) \/ Ungraded(r) \/ TooMuchOutput(r) \/ TooSlow(r) \/ Broken(r)
  BY Zenon DEF Broken
<1> QED
  BY <1>2, <1>3, GradeMeaning, Zenon

LEMMA FinalizeGraded ==
  ASSUME NEW s \in Seq(Answer), Len(s) = NumCases,
         ~\E i \in DOMAIN s : Ungraded(s[i]),
         NEW w \in SubmissionRow, w.status = "queued"
  PROVE  /\ Finalize(w, AllSettled(s)) \in SubmissionRow
         /\ Finalize(w, AllSettled(s)).failure_code = w.failure_code
         /\ Finalize(w, AllSettled(s)).status = VerdictOf(s)
         /\ Finalize(w, AllSettled(s)).passed = PassedOf(s)
<1> DEFINE f == AllSettled(s)
           E == Errors(f)
           right == {c \in Case : Right(s[c])}
<1>1. w.status \notin TerminalStatus
  BY DEF TerminalStatus, GradedStatus
<1>2. /\ DOMAIN s = Case /\ DOMAIN f = Case /\ Case # {}
      /\ \A c \in Case : s[c] \in Answer
      /\ AllTerminal(f) /\ ~AnyInfra(f)
      /\ Passed(f) = right
      /\ E = {ErrorForStatus(Grade(s[c])) : c \in Case} \ {NONE}
  BY SettledRows
<1>3. Finalize(w, f) = Graded(w, f)
  BY <1>1, <1>2 DEF Finalize
<1>4. Cardinality(right) \in Nat
  <2>1. IsFiniteSet(Case)
    BY FS_Interval DEF Case
  <2> QED
    BY <2>1, FS_Subset, FS_CardinalityType
<1>5. PassedOf(s) = Cardinality(right)
  BY <1>2 DEF PassedOf
<1>6. /\ "compile_error" \notin E
      /\ "timeout" \in E <=> \E c \in Case : TooSlow(s[c])
      /\ "resource_limit" \in E <=> \E c \in Case : TooMuchOutput(s[c])
      /\ "runtime_error" \in E <=> \E c \in Case : Broken(s[c])
      /\ "wrong_answer" \in E <=> \E c \in Case : Wrong(s[c])
      /\ E \subseteq ErrorCategory
  <2>1. \A e : e \in E <=> e # NONE /\ \E c \in Case : ErrorForStatus(Grade(s[c])) = e
    BY <1>2
  <2>2. \A c \in Case :
          /\ ErrorForStatus(Grade(s[c])) \in ErrorCategory \cup {NONE}
          /\ ErrorForStatus(Grade(s[c])) # "compile_error"
          /\ ErrorForStatus(Grade(s[c])) = "timeout" <=> TooSlow(s[c])
          /\ ErrorForStatus(Grade(s[c])) = "resource_limit" <=> TooMuchOutput(s[c])
          /\ ErrorForStatus(Grade(s[c])) = "runtime_error" <=> Broken(s[c])
          /\ ErrorForStatus(Grade(s[c])) = "wrong_answer" <=> Wrong(s[c])
    BY <1>2, CategoryMeaning
  <2>3. NONE \notin {"timeout", "resource_limit", "runtime_error", "wrong_answer"}
    BY DEF NONE
  <2> HIDE DEF E
  <2>4. "compile_error" \notin E /\ E \subseteq ErrorCategory
    BY <2>1, <2>2
  <2>5. "timeout" \in E <=> \E c \in Case : TooSlow(s[c])
    BY <2>1, <2>2, <2>3, Zenon
  <2>6. "resource_limit" \in E <=> \E c \in Case : TooMuchOutput(s[c])
    BY <2>1, <2>2, <2>3, Zenon
  <2>7. "runtime_error" \in E <=> \E c \in Case : Broken(s[c])
    BY <2>1, <2>2, <2>3, Zenon
  <2>8. "wrong_answer" \in E <=> \E c \in Case : Wrong(s[c])
    BY <2>1, <2>2, <2>3, Zenon
  <2> QED
    BY <2>4, <2>5, <2>6, <2>7, <2>8
<1>7. /\ VerdictOf(s) =
           IF \E c \in Case : TooSlow(s[c]) THEN "timeout"
           ELSE IF \E c \in Case : TooMuchOutput(s[c]) THEN "resource_limit"
           ELSE IF \E c \in Case : Broken(s[c]) THEN "runtime_error"
           ELSE IF \E c \in Case : Wrong(s[c]) THEN "failed" ELSE "passed"
  BY <1>2 DEF VerdictOf
<1> HIDE DEF f, E
<1>8. CASE right = Case
  <2>1. /\ Graded(w, f) \in SubmissionRow
        /\ Graded(w, f).failure_code = w.failure_code
        /\ Graded(w, f).status = "passed"
        /\ Graded(w, f).passed = Cardinality(right)
    BY <1>2, <1>4, <1>8 DEF Graded, SubmissionRow, TerminalStatus, GradedStatus
  <2>2. \A c \in Case : ErrorForStatus(Grade(s[c])) = NONE
    BY <1>2, <1>8, ReportKinds
  <2>3. E = {}
    BY <1>2, <2>2
  <2>4. VerdictOf(s) = "passed"
    BY <1>6, <1>7, <2>3
  <2> QED
    BY <1>3, <1>5, <2>1, <2>4 DEF f
<1>9. CASE right # Case
  <2>1. PICK c \in Case : ~Right(s[c])
    BY <1>9
  <2>2. ErrorForStatus(Grade(s[c])) # NONE
    BY <1>2, <2>1, ReportKinds
  <2>3. E # {}
    BY <1>2, <2>2
  <2>4. PrimaryError(f) =
          IF "compile_error" \in E THEN "compile_error"
          ELSE IF "timeout" \in E THEN "timeout"
          ELSE IF "resource_limit" \in E THEN "resource_limit"
          ELSE IF "runtime_error" \in E THEN "runtime_error"
          ELSE "wrong_answer"
    BY <1>6, <2>3, PrimaryByPriority DEF E
  <2>5. PrimaryError(f) \in ErrorCategory
    BY <2>4 DEF ErrorCategory
  <2>6. StatusForError(PrimaryError(f)) = VerdictOf(s)
    <3>1. PrimaryError(f) = "wrong_answer" => "wrong_answer" \in E
      BY <1>6, <2>3, <2>4 DEF ErrorCategory
    <3> QED
      BY <1>6, <1>7, <2>4, <3>1 DEF StatusForError
  <2>7. \A e \in ErrorCategory : StatusForError(e) \in GradedStatus
    BY DEF ErrorCategory, StatusForError, GradedStatus
  <2>8. /\ Graded(w, f) \in SubmissionRow
        /\ Graded(w, f).failure_code = w.failure_code
        /\ Graded(w, f).status = StatusForError(PrimaryError(f))
        /\ Graded(w, f).passed = Cardinality(right)
    BY <1>2, <1>4, <1>9, <2>5, <2>7 DEF Graded, SubmissionRow, TerminalStatus
  <2> QED
    BY <1>3, <1>5, <2>6, <2>8 DEF f
<1> QED
  BY <1>8, <1>9

-----------------------------------------------------------------------------
(* A case is settled.                                                      *)

LEMMA CodeAppended ==
  ASSUME NEW s \in Seq(Answer), NEW r \in Answer, NEW code, CodeAfter(code, s)
  PROVE  CodeAfter(IF Ungraded(r) THEN CodeOf(r) ELSE code, Append(s, r))
<1> DEFINE t == Append(s, r)
           n == Len(s) + 1
<1>1. /\ n \in Nat /\ DOMAIN t = 1..n /\ n \in DOMAIN t /\ DOMAIN s = 1..Len(s)
      /\ t[n] = r
      /\ \A i \in DOMAIN s : i \in DOMAIN t /\ i < n /\ t[i] = s[i]
      /\ \A i \in DOMAIN t : i \in DOMAIN s \/ i = n
  OBVIOUS
<1> HIDE DEF t, n
<1>2. CASE Ungraded(r)
  <2>1. \A j \in DOMAIN t : ~(j > n)
    BY <1>1
  <2> QED
    BY <1>1, <1>2, <2>1 DEF CodeAfter, t
<1>3. CASE ~Ungraded(r) /\ code = NONE /\ \A i \in DOMAIN s : ~Ungraded(s[i])
  <2>1. \A i \in DOMAIN t : ~Ungraded(t[i])
    BY <1>1, <1>3
  <2> QED
    BY <1>3, <2>1 DEF CodeAfter, t
<1>4. CASE /\ ~Ungraded(r)
           /\ \E i \in DOMAIN s :
                /\ Ungraded(s[i]) /\ code = CodeOf(s[i])
                /\ \A j \in DOMAIN s : j > i => ~Ungraded(s[j])
  <2>1. PICK i \in DOMAIN s : /\ Ungraded(s[i]) /\ code = CodeOf(s[i])
                              /\ \A j \in DOMAIN s : j > i => ~Ungraded(s[j])
    BY <1>4
  <2>2. /\ i \in DOMAIN t /\ Ungraded(t[i]) /\ code = CodeOf(t[i])
        /\ \A j \in DOMAIN t : j > i => ~Ungraded(t[j])
    BY <1>1, <1>4, <2>1
  <2> QED
    BY <1>4, <2>2 DEF CodeAfter, t
<1> QED
  BY <1>2, <1>3, <1>4 DEF CodeAfter

\* The reports hold an ungraded one exactly when there is a failure code.
LEMMA CodeTellsVoid ==
  ASSUME NEW s, NEW code, CodeAfter(code, s)
  PROVE  code # NONE <=> \E i \in DOMAIN s : Ungraded(s[i])
<1>1. \A r : CodeOf(r) # NONE
  BY DEF CodeOf, NONE
<1> QED
  BY <1>1, Zenon DEF CodeAfter

\* The submission row after report r, before the verdict is tried.
Coded(r) == IF Ungraded(r) THEN [row EXCEPT !.failure_code = CodeOf(r)] ELSE row

LEMMA SettleStep ==
  ASSUME IInv, cursor \in Case, NEW r \in Answer,
         results' = [results EXCEPT ![cursor] = SettledCase(r)],
         row' = Finalize(Coded(r), results'),
         reports' = Append(reports, r), UNCHANGED released
  PROVE  IInv'
<1> DEFINE n == cursor
           s == Append(reports, r)
           code == IF Ungraded(r) THEN CodeOf(r) ELSE row.failure_code
<1>1. /\ row \in SubmissionRow /\ reports \in Seq(Answer) /\ released \in BOOLEAN
      /\ CodeAfter(row.failure_code, reports)
      /\ row.status = "queued"
      /\ n = Len(reports) + 1 /\ n \in 1..NumCases
  BY DEF IInv, TypeOK, LastFailure, FailurePriority, cursor, Case
<1>2. /\ s \in Seq(Answer) /\ Len(s) = n
      /\ s[n] = r /\ \A c \in 1..(n - 1) : s[c] = reports[c]
  BY <1>1
<1>3. CodeAfter(code, s)
  BY <1>1, CodeAppended
<1>4. /\ Coded(r) \in SubmissionRow
      /\ Coded(r).status = "queued" /\ Coded(r).failure_code = code
  <2>1. CodeOf(r) \in FailureCode
    BY DEF CodeOf, FailureCode
  <2> QED
    BY <1>1, <2>1 DEF Coded, SubmissionRow
<1>5. results' = [c \in Case |-> IF c < n + 1 THEN SettledCase(s[c]) ELSE NewCase]
  <2>1. results = [c \in Case |-> IF c < n THEN SettledCase(reports[c]) ELSE NewCase]
    BY DEF IInv, CasesSettled
  <2>2. \A c \in Case : c < n + 1 <=> c < n \/ c = n
    BY <1>1 DEF Case
  <2>3. \A c \in Case : c < n => s[c] = reports[c]
    BY <1>1, <1>2 DEF Case
  <2> HIDE DEF s, n
  <2>4. results' = [results EXCEPT ![n] = SettledCase(r)]
    BY DEF n
  <2>5. ~(n < n)
    BY <1>1
  <2> QED
    BY <1>2, <2>1, <2>2, <2>3, <2>4, <2>5
<1>6. cursor' = n + 1 /\ reports' = s
  BY <1>2 DEF cursor
<1> HIDE DEF n, s
<1>7. CasesSettled'
  BY <1>5, <1>6 DEF CasesSettled, Case
<1>8. ASSUME /\ row' \in SubmissionRow
             /\ row'.failure_code = code
             /\ row'.status = IF n + 1 \in Case THEN "queued" ELSE VerdictOf(s)
             /\ row'.status \in TerminalStatus => row'.passed = PassedOf(s)
      PROVE  IInv'
  <2>1. TypeOK'
    BY <1>1, <1>2, <1>6, <1>8 DEF TypeOK
  <2>2. LastFailure'
    BY <1>3, <1>6, <1>8 DEF LastFailure
  <2>3. FailurePriority'
    BY <1>6, <1>8, Zenon DEF FailurePriority, Some, VerdictOf, Case
  <2>4. CreditIsEarned'
    BY <1>6, <1>8, Zenon DEF CreditIsEarned, Some, PassedOf
  <2> QED
    BY <1>7, <2>1, <2>2, <2>3, <2>4 DEF IInv
<1> HIDE DEF code
<1>9. CASE n < NumCases
  <2>1. n + 1 \in Case
    BY <1>1, <1>9 DEF Case
  <2>2. results'[n + 1] = NewCase /\ DOMAIN results' = Case
    BY <1>1, <1>5, <2>1
  <2>3. ~AllTerminal(results') /\ DOMAIN results' # {}
    BY <2>1, <2>2 DEF AllTerminal, NewCase, IsTerminal, NoStatus, ACCEPTED
  <2>4. "queued" \notin TerminalStatus
    BY DEF TerminalStatus, GradedStatus
  <2>5. row' = Waiting(Coded(r), results')
    BY <1>4, <2>3, <2>4 DEF Finalize
  <2>6. \A c \in Case : results'[c].status # PROCESSING
    <3>1. ASSUME NEW c \in Case, c < n + 1
          PROVE  SettledCase(s[c]).status # PROCESSING
      <4>1. s[c] \in Answer
        BY <1>1, <1>2, <3>1 DEF Case
      <4>2. Grade(s[c]) \in GradeCodes
        BY <4>1, GradeMeaning
      <4> QED
        BY <4>2 DEF SettledCase, GradeCodes, TerminalIds, PROCESSING, ACCEPTED,
          EXEC_FORMAT_ERROR
    <3> QED
      BY <1>5, <3>1 DEF NewCase, NoStatus, PROCESSING
  <2>7. Waiting(Coded(r), results') = [Coded(r) EXCEPT !.status = "queued"]
    BY <1>4, <2>2, <2>6 DEF Waiting
  <2>8. /\ row' \in SubmissionRow /\ row'.status = "queued"
        /\ row'.failure_code = code
    BY <1>4, <2>5, <2>7 DEF SubmissionRow, ActiveStatus
  <2> QED
    BY <1>8, <2>1, <2>4, <2>8
<1>10. CASE n = NumCases
  <2>1. n + 1 \notin Case /\ Len(s) = NumCases
    BY <1>1, <1>2, <1>10 DEF Case
  <2>2. results' = AllSettled(s)
    <3>1. \A c \in Case : c < n + 1
      BY <1>10 DEF Case
    <3> QED
      BY <1>5, <3>1 DEF AllSettled
  <2>3. code # NONE <=> \E i \in DOMAIN s : Ungraded(s[i])
    BY <1>3, CodeTellsVoid
  <2>4. /\ row' \in SubmissionRow
        /\ row'.failure_code = code
        /\ row'.status = VerdictOf(s)
        /\ row'.passed = PassedOf(s)
    <3>1. CASE \E i \in DOMAIN s : Ungraded(s[i])
      <4>1. Coded(r).failure_code # NONE
        BY <1>4, <2>3, <3>1
      <4>2. /\ Finalize(Coded(r), AllSettled(s)) \in SubmissionRow
            /\ Finalize(Coded(r), AllSettled(s)).failure_code = Coded(r).failure_code
            /\ Finalize(Coded(r), AllSettled(s)).status = VerdictOf(s)
            /\ Finalize(Coded(r), AllSettled(s)).passed = PassedOf(s)
        BY <1>2, <1>4, <2>1, <3>1, <4>1, FinalizeVoided
      <4> QED
        BY <1>4, <2>2, <4>2
    <3>2. CASE ~\E i \in DOMAIN s : Ungraded(s[i])
      <4>1. /\ Finalize(Coded(r), AllSettled(s)) \in SubmissionRow
            /\ Finalize(Coded(r), AllSettled(s)).failure_code = Coded(r).failure_code
            /\ Finalize(Coded(r), AllSettled(s)).status = VerdictOf(s)
            /\ Finalize(Coded(r), AllSettled(s)).passed = PassedOf(s)
        BY <1>2, <1>4, <2>1, <3>2, FinalizeGraded
      <4> QED
        BY <1>4, <2>2, <4>1
    <3> QED
      BY <3>1, <3>2
  <2> QED
    BY <1>8, <2>1, <2>4
<1> QED
  BY <1>1, <1>9, <1>10

-----------------------------------------------------------------------------
(* The steps.                                                              *)

CaseFields == {"status", "infra", "dispatched", "attempts"}

\* A case row is the record of its four fields.
LEMMA RowOfFields ==
  ASSUME NEW case, case = [x \in CaseFields |-> case[x]]
  PROVE  case = [status |-> case.status, infra |-> case.infra,
                 dispatched |-> case.dispatched, attempts |-> case.attempts]
<1> DEFINE record == [status |-> case.status, infra |-> case.infra,
                      dispatched |-> case.dispatched, attempts |-> case.attempts]
<1>1. record = [x \in CaseFields |-> record[x]]
  BY DEF CaseFields
<1>2. \A x \in CaseFields : record[x] = case[x]
  BY DEF CaseFields
<1> HIDE DEF record
<1>3. case = record
  BY <1>1, <1>2
<1> QED
  BY <1>3 DEF record

LEMMA OpenCaseDispatched ==
  ASSUME IInv, cursor \in Case
  PROVE  Dispatched = [status |-> PROCESSING, infra |-> FALSE, dispatched |-> TRUE,
                       attempts |-> 1]
<1>1. results[cursor] = NewCase
  <2>1. ~(cursor < cursor)
    BY DEF cursor, IInv, TypeOK
  <2> QED
    BY <2>1 DEF IInv, CasesSettled
<1>2. /\ Dispatched.status = PROCESSING /\ Dispatched.infra = FALSE
      /\ Dispatched.dispatched = TRUE /\ Dispatched.attempts = 1
  BY <1>1 DEF Dispatched, NewCase
<1>3. Dispatched = [x \in CaseFields |-> Dispatched[x]]
  BY <1>1 DEF Dispatched, NewCase, CaseFields
<1> QED
  BY <1>2, <1>3, RowOfFields

LEMMA ReportCaseStep ==
  ASSUME IInv, NEW r \in Report, ReportCase(r)
  PROVE  IInv'
<1>1. r \in Answer
  BY DEF Answer
<1>2. cursor \in Case
  BY DEF ReportCase
<1>3. UpdateCaseResult(Dispatched, Grade(r)) = SettledCase(r)
  <2> DEFINE case == UpdateCaseResult(Dispatched, Grade(r))
  <2>2. case = [Dispatched EXCEPT !.status = Grade(r), !.infra = (Grade(r) = INTERNAL_ERROR)]
    BY <1>2, OpenCaseDispatched DEF UpdateCaseResult, IsTerminal, PROCESSING, ACCEPTED
  <2> HIDE DEF case
  <2>4. /\ case.status = Grade(r) /\ case.dispatched = TRUE /\ case.attempts = 1
    BY <1>2, <2>2, OpenCaseDispatched
  <2>5. case.infra = (Grade(r) = INTERNAL_ERROR)
    BY <1>2, <2>2, OpenCaseDispatched
  <2>6. case = [x \in CaseFields |-> case[x]]
    <3>1. DOMAIN case = CaseFields
      BY <1>2, <2>2, OpenCaseDispatched DEF CaseFields
    <3> QED
      BY <2>2, <3>1
  <2>7. case = SettledCase(r)
    BY <2>4, <2>5, <2>6, RowOfFields DEF SettledCase
  <2> QED
    BY <2>7 DEF case
<1>4. r # Lost
  <2>1. r.status \in SandboxStatus
    BY DEF RunReport
  <2>2. Lost.status \notin SandboxStatus
    <3>1. Lost.status = "lost"
      BY DEF Lost
    <3> QED
      BY <3>1, Zenon DEF SandboxStatus
  <2> QED
    BY <2>1, <2>2
<1>5. SettledCase(r).infra <=> Ungraded(r)
  <2>1. SettledCase(r).infra <=> Grade(r) = INTERNAL_ERROR
    BY DEF SettledCase
  <2> QED
    BY <1>1, <2>1, GradeMeaning
<1>6. Settle(r, SettledCase(r), IF Ungraded(r) THEN "runner_internal_error" ELSE NONE)
  BY <1>3, <1>5 DEF ReportCase
<1>7. /\ results' = [results EXCEPT ![cursor] = SettledCase(r)]
      /\ row' = Finalize(Coded(r), results')
      /\ reports' = Append(reports, r) /\ UNCHANGED released
  BY <1>4, <1>6 DEF Settle, Coded, CodeOf, NONE
<1> QED
  BY <1>1, <1>2, <1>7, SettleStep

LEMMA LoseCaseStep ==
  ASSUME IInv, LoseCase
  PROVE  IInv'
<1>1. Lost \in Answer
  BY DEF Answer
<1>2. cursor \in Case
  BY DEF LoseCase
<1>3. Ungraded(Lost)
  BY DEF Ungraded, Lost
<1>4. MarkInfrastructureFailure(Dispatched) = SettledCase(Lost)
  <2>1. Grade(Lost) = INTERNAL_ERROR
    BY <1>1, <1>3, GradeMeaning
  <2> DEFINE case == MarkInfrastructureFailure(Dispatched)
  <2>2. case = [Dispatched EXCEPT !.status = INTERNAL_ERROR, !.infra = TRUE]
    BY DEF MarkInfrastructureFailure
  <2> HIDE DEF case
  <2>3. /\ case.status = INTERNAL_ERROR /\ case.infra = TRUE
        /\ case.dispatched = TRUE /\ case.attempts = 1
    BY <1>2, <2>2, OpenCaseDispatched
  <2>4. case = [x \in CaseFields |-> case[x]]
    <3>1. DOMAIN case = CaseFields
      BY <1>2, <2>2, OpenCaseDispatched DEF CaseFields
    <3> QED
      BY <2>2, <3>1
  <2>5. case = SettledCase(Lost)
    BY <2>1, <2>3, <2>4, RowOfFields DEF SettledCase
  <2> QED
    BY <2>5 DEF case
<1>5. /\ results' = [results EXCEPT ![cursor] = SettledCase(Lost)]
      /\ row' = Finalize(Coded(Lost), results')
      /\ reports' = Append(reports, Lost) /\ UNCHANGED released
  BY <1>3, <1>4 DEF LoseCase, Settle, Coded, CodeOf, NONE
<1> QED
  BY <1>1, <1>2, <1>5, SettleStep

\* The last Finalize leaves the verdict alone.
LEMMA VerdictTerminal ==
  ASSUME NEW s
  PROVE  VerdictOf(s) \in TerminalStatus
BY DEF VerdictOf, TerminalStatus, GradedStatus

LEMMA ReleaseStep ==
  ASSUME IInv, Release
  PROVE  IInv'
<1>1. row.status \in TerminalStatus
  <2>1. row.status = VerdictOf(reports)
    BY Zenon DEF IInv, FailurePriority, Release, Some, VerdictOf
  <2> QED
    BY <2>1, VerdictTerminal
<1>2. row' = row
  BY <1>1 DEF Release, Finalize
<1>3. UNCHANGED <<results, reports>> /\ released' \in BOOLEAN
  BY DEF Release
<1> QED
  BY <1>2, <1>3 DEF IInv, TypeOK, CasesSettled, LastFailure, FailurePriority,
    CreditIsEarned, Some, cursor, Case

LEMMA InitIInv == Init => IInv
<1> SUFFICES ASSUME Init
             PROVE  IInv
  OBVIOUS
<1>1. row = NewSubmission /\ reports = <<>> /\ released = FALSE
  BY DEF Init
<1>2. Len(reports) = 0 /\ DOMAIN reports = {} /\ reports \in Seq(Answer)
  BY <1>1
<1>3. cursor = 1 /\ cursor \in Case
  BY <1>2 DEF cursor, Case
<1>4. TypeOK
  <2>1. NewSubmission \in SubmissionRow
    BY DEF NewSubmission, SubmissionRow, ActiveStatus, TerminalStatus
  <2>2. Len(reports) <= NumCases
    BY <1>2
  <2> QED
    BY <1>1, <1>2, <2>1, <2>2, Zenon DEF TypeOK
<1>5. CasesSettled
  <2>1. \A c \in Case : ~(c < 1)
    BY DEF Case
  <2> QED
    BY <1>3, <2>1 DEF CasesSettled, Init
<1>6. LastFailure
  BY <1>1, <1>2 DEF LastFailure, CodeAfter, NewSubmission
<1>7. FailurePriority /\ CreditIsEarned
  BY <1>1, <1>3 DEF FailurePriority, CreditIsEarned, NewSubmission, TerminalStatus,
    GradedStatus
<1> QED
  BY <1>4, <1>5, <1>6, <1>7 DEF IInv

LEMMA NextIInv == IInv /\ [Next]_vars => IInv'
<1> SUFFICES ASSUME IInv, [Next]_vars
             PROVE  IInv'
  OBVIOUS
<1>1. ASSUME NEW r \in Report, ReportCase(r)
      PROVE  IInv'
  BY <1>1, ReportCaseStep
<1>2. CASE LoseCase
  BY <1>2, LoseCaseStep
<1>3. CASE Release
  BY <1>3, ReleaseStep
<1>4. CASE UNCHANGED vars
  BY <1>4 DEF vars, IInv, TypeOK, CasesSettled, LastFailure, FailurePriority,
    CreditIsEarned, Some, cursor, Case
<1> QED
  BY <1>1, <1>2, <1>3, <1>4 DEF Next

-----------------------------------------------------------------------------
(* The theorems.                                                           *)

\* The reports determine the case rows, the failure code and the verdict after
\* every case: the invariant the properties rest on.
THEOREM Invariance == Spec => []IInv
BY InitIInv, NextIInv, PTL DEF Spec

\* The verdict follows the priority of D1_Detailed_Design.md:170 whatever the
\* order of the reports and the number of the cases.
THEOREM PriorityHolds == Spec => []FailurePriority
<1>1. IInv => FailurePriority
  BY DEF IInv
<1> QED
  BY <1>1, Invariance, PTL

\* The numerator of the score counts the right runs, and a voided submission has
\* no score.
THEOREM CreditEarned == Spec => []CreditIsEarned
<1>1. IInv => CreditIsEarned
  BY DEF IInv
<1> QED
  BY <1>1, Invariance, PTL

\* The retry offer follows the last case that could not be graded.
LEMMA RetryFollows == IInv => RetryFollowsLastFailure
<1> SUFFICES ASSUME IInv
             PROVE  RetryFollowsLastFailure
  OBVIOUS
<1> DEFINE LastLost == \E i \in DOMAIN reports :
                         /\ reports[i] = Lost
                         /\ \A j \in DOMAIN reports : j > i => ~Ungraded(reports[j])
<1>1. CASE cursor \in Case
  <2>1. row.status = "queued"
    BY <1>1 DEF IInv, FailurePriority
  <2>2. ~Retryable(row)
    BY <2>1 DEF Retryable, TerminalStatus, GradedStatus
  <2> QED
    BY <1>1, <2>2 DEF RetryFollowsLastFailure
<1>2. CASE cursor \notin Case
  <2>1. row.status \in TerminalStatus
    <3>1. row.status = VerdictOf(reports)
      BY <1>2, Zenon DEF IInv, FailurePriority, Some, VerdictOf
    <3> QED
      BY <3>1, VerdictTerminal
  <2>2. CodeAfter(row.failure_code, reports)
    BY DEF IInv, LastFailure
  <2>3. DOMAIN reports \subseteq Int
    BY DEF IInv, TypeOK
  <2>4. Ungraded(Lost) /\ CodeOf(Lost) = "runner_outcome_unknown"
    BY DEF Ungraded, Lost, CodeOf
  <2>5. ASSUME row.failure_code = "runner_outcome_unknown"
        PROVE  LastLost
    <3>1. PICK i \in DOMAIN reports :
            /\ Ungraded(reports[i]) /\ row.failure_code = CodeOf(reports[i])
            /\ \A j \in DOMAIN reports : j > i => ~Ungraded(reports[j])
      BY <2>2, <2>5 DEF CodeAfter, NONE
    <3>2. reports[i] = Lost
      BY <2>5, <3>1 DEF CodeOf
    <3> QED
      BY <3>1, <3>2
  <2>6. ASSUME LastLost
        PROVE  row.failure_code = "runner_outcome_unknown"
    <3>1. PICK i \in DOMAIN reports :
            /\ reports[i] = Lost
            /\ \A j \in DOMAIN reports : j > i => ~Ungraded(reports[j])
      BY <2>6
    <3>2. PICK k \in DOMAIN reports :
            /\ Ungraded(reports[k]) /\ row.failure_code = CodeOf(reports[k])
            /\ \A j \in DOMAIN reports : j > k => ~Ungraded(reports[j])
      BY <2>2, <2>4, <3>1 DEF CodeAfter
    <3>3. ~(k > i) /\ ~(i > k)
      BY <2>4, <3>1, <3>2
    <3>4. k = i
      BY <2>3, <3>3
    <3> QED
      BY <2>4, <3>1, <3>2, <3>4
  <2> QED
    BY <1>2, <2>1, <2>5, <2>6 DEF RetryFollowsLastFailure, Retryable
<1> QED
  BY <1>1, <1>2

\* The student is offered a retry exactly when the last failure was a lost run.
THEOREM RetryIsLastFailure == Spec => []RetryFollowsLastFailure
BY RetryFollows, Invariance, PTL
=============================================================================
