---------------------- MODULE SubmissionWorkerProofs ----------------------
(***************************************************************************)
(* Proofs about SubmissionWorker for any number of workers, submissions    *)
(* and cases, any lease, and any number of crashes and stalls: the         *)
(* inductive invariant of the rows and the workers, what the claim and the *)
(* lease give, and that the queue implements AtMostOnceGrading.            *)
(*                                                                         *)
(* The lease plays no part in the first and the last: what keeps a case    *)
(* from running twice and a stale report from being stored is that the     *)
(* dispatch is committed before the call and that each transaction checks  *)
(* the claim under the lock.  Time matters where a worker that never       *)
(* stalls is to keep its claim: RUN_LIMIT <= LEASE and MaxPollAge <= LEASE.*)
(***************************************************************************)
EXTENDS SubmissionRefinement, FiniteSetTheorems, TLAPS

-----------------------------------------------------------------------------
(* What Finalize returns for a submission that is open.                    *)

\* Every code but an accepted one and an internal error names an error
\* category, so _finalize_submission always finds a primary error.
LEMMA FailedCaseHasCategory ==
  ASSUME NEW id \in TerminalIds, id # ACCEPTED, id # INTERNAL_ERROR
  PROVE  ErrorForStatus(id) \in ErrorCategory
BY DEF TerminalIds, ErrorForStatus, ErrorCategory, RuntimeIds, ACCEPTED, WRONG_ANSWER,
  TIME_LIMIT_EXCEEDED, COMPILATION_ERROR, SIGSEGV, SIGXFSZ, SIGFPE, SIGABRT, NZEC,
  RUNTIME_OTHER, INTERNAL_ERROR, EXEC_FORMAT_ERROR

LEMMA PrimaryErrorIsCategory ==
  ASSUME NEW f, Errors(f) # {}
  PROVE  PrimaryError(f) \in ErrorCategory
<1> DEFINE E == Errors(f)
           P(i) == /\ ERROR_PRIORITY[i] \in E
                   /\ \A j \in 1..(i - 1) : ERROR_PRIORITY[j] \notin E
<1>1. E \subseteq ErrorCategory
  BY DEF Errors, ErrorForStatus, ErrorCategory, RuntimeIds, NONE
<1>2. /\ DOMAIN ERROR_PRIORITY = 1..5
      /\ \A i \in 1..5 : ERROR_PRIORITY[i] \in ErrorCategory
      /\ \A e \in ErrorCategory : \E i \in 1..5 : ERROR_PRIORITY[i] = e
  BY DEF ERROR_PRIORITY, ErrorCategory
<1>3. \E i \in 1..5 : P(i)
  <2>1. PICK i0 \in 1..5 : ERROR_PRIORITY[i0] \in E
    BY <1>1, <1>2
  <2>2. \A i \in 1..5 : i = 1 \/ i = 2 \/ i = 3 \/ i = 4 \/ i = 5
    OBVIOUS
  <2> HIDE DEF E
  <2>3. CASE ERROR_PRIORITY[1] \in E
    BY <2>3
  <2>4. CASE ERROR_PRIORITY[1] \notin E /\ ERROR_PRIORITY[2] \in E
    BY <2>4
  <2>5. CASE /\ ERROR_PRIORITY[1] \notin E /\ ERROR_PRIORITY[2] \notin E
             /\ ERROR_PRIORITY[3] \in E
    BY <2>5
  <2>6. CASE /\ ERROR_PRIORITY[1] \notin E /\ ERROR_PRIORITY[2] \notin E
             /\ ERROR_PRIORITY[3] \notin E /\ ERROR_PRIORITY[4] \in E
    BY <2>6
  <2>7. CASE /\ ERROR_PRIORITY[1] \notin E /\ ERROR_PRIORITY[2] \notin E
             /\ ERROR_PRIORITY[3] \notin E /\ ERROR_PRIORITY[4] \notin E
    <3>1. i0 = 5
      BY <2>1, <2>2, <2>7
    <3>2. P(5)
      BY <3>1, <2>1, <2>7
    <3> QED
      BY <3>2
  <2> QED
    BY <2>3, <2>4, <2>5, <2>6, <2>7
<1>4. (CHOOSE i \in DOMAIN ERROR_PRIORITY : P(i)) \in 1..5
  BY <1>2, <1>3
<1>5. PrimaryError(f) = ERROR_PRIORITY[CHOOSE i \in DOMAIN ERROR_PRIORITY : P(i)]
  BY DEF PrimaryError
<1> QED
  BY <1>2, <1>4, <1>5

-----------------------------------------------------------------------------
(* Finalize on an open submission with case results f, by what is settled. *)

LEMMA FinalizeWaiting ==
  ASSUME NEW row \in SubmissionRow, row.status \in ActiveStatus,
         NEW f, ~AllTerminal(f)
  PROVE  /\ Finalize(row, f) \in SubmissionRow
         /\ Finalize(row, f).status \in ActiveStatus
         /\ Finalize(row, f).failure_code = row.failure_code
         /\ ~Decides(row, f)
<1>1. row.status \notin TerminalStatus
  BY DEF ActiveStatus, TerminalStatus, GradedStatus
<1>2. DOMAIN f # {}
  BY DEF AllTerminal
<1>3. Finalize(row, f) = Waiting(row, f)
  BY <1>1, <1>2 DEF Finalize
<1>4. /\ Waiting(row, f) \in SubmissionRow
      /\ Waiting(row, f).status \in ActiveStatus
      /\ Waiting(row, f).failure_code = row.failure_code
  BY DEF Waiting, SubmissionRow, ActiveStatus
<1>5. Waiting(row, f).status \notin GradedStatus
  BY <1>4 DEF ActiveStatus, GradedStatus
<1> QED
  BY <1>3, <1>4, <1>5 DEF Decides

LEMMA FinalizeAbandoned ==
  ASSUME NEW row \in SubmissionRow, row.status \in ActiveStatus,
         NEW f, DOMAIN f # {}, AllTerminal(f), AnyInfra(f)
  PROVE  /\ Finalize(row, f) \in SubmissionRow
         /\ Finalize(row, f).status = "infrastructure_error"
         /\ ~Decides(row, f)
<1>1. row.status \notin TerminalStatus
  BY DEF ActiveStatus, TerminalStatus, GradedStatus
<1>2. Finalize(row, f) = Abandoned(row)
  BY <1>1 DEF Finalize
<1>3. /\ Abandoned(row) \in SubmissionRow
      /\ Abandoned(row).status = "infrastructure_error"
  BY DEF Abandoned, SubmissionRow, TerminalStatus, FailureCode
<1> QED
  BY <1>2, <1>3 DEF Decides, GradedStatus

LEMMA FinalizeGraded ==
  ASSUME NEW row \in SubmissionRow, row.status \in ActiveStatus,
         NEW S, IsFiniteSet(S), S # {}, NEW f \in [S -> CaseRow],
         AllTerminal(f), ~AnyInfra(f),
         \A c \in S : f[c].status = INTERNAL_ERROR => f[c].infra
  PROVE  /\ Finalize(row, f) \in SubmissionRow
         /\ Finalize(row, f).status \in GradedStatus
         /\ Finalize(row, f).failure_code = row.failure_code
         /\ Finalize(row, f).passed = Cardinality(Passed(f))
         /\ Decides(row, f)
<1>1. row.status \notin TerminalStatus
  BY DEF ActiveStatus, TerminalStatus, GradedStatus
<1>2. DOMAIN f = S
  OBVIOUS
<1>3. Finalize(row, f) = Graded(row, f)
  BY <1>1, <1>2 DEF Finalize
<1>4. Cardinality(Passed(f)) \in Nat
  <2>1. Passed(f) \in SUBSET S
    BY <1>2 DEF Passed
  <2> QED
    BY <2>1, FS_Subset, FS_CardinalityType
<1>5. Passed(f) # DOMAIN f => PrimaryError(f) \in ErrorCategory
  <2> SUFFICES ASSUME Passed(f) # DOMAIN f
               PROVE  PrimaryError(f) \in ErrorCategory
    OBVIOUS
  <2>1. PICK c \in S : f[c].status # ACCEPTED
    BY <1>2 DEF Passed
  <2>2. f[c].status \in TerminalIds
    BY <1>2 DEF AllTerminal, IsTerminal, CaseRow, TerminalIds, ACCEPTED, NoStatus, PROCESSING
  <2>3. f[c].status # INTERNAL_ERROR
    BY <1>2 DEF AnyInfra
  <2>4. ErrorForStatus(f[c].status) \in ErrorCategory
    BY <2>1, <2>2, <2>3, FailedCaseHasCategory
  <2>5. ErrorForStatus(f[c].status) \in Errors(f)
    BY <1>2, <2>4 DEF Errors, ErrorCategory, NONE
  <2> QED
    BY <2>5, PrimaryErrorIsCategory
<1>6. \A e \in ErrorCategory : StatusForError(e) \in GradedStatus
  BY DEF ErrorCategory, StatusForError, GradedStatus
<1>7. /\ Graded(row, f) \in SubmissionRow
      /\ Graded(row, f).status \in GradedStatus
      /\ Graded(row, f).failure_code = row.failure_code
      /\ Graded(row, f).passed = Cardinality(Passed(f))
  <2>1. CASE Passed(f) = DOMAIN f
    BY <1>4, <2>1 DEF Graded, SubmissionRow, TerminalStatus, GradedStatus
  <2>2. CASE Passed(f) # DOMAIN f
    BY <1>4, <1>5, <1>6, <2>2 DEF Graded, SubmissionRow, TerminalStatus
  <2> QED
    BY <2>1, <2>2
<1> QED
  BY <1>1, <1>3, <1>7 DEF Decides

-----------------------------------------------------------------------------
USE WorkerAssumption

LEMMA CasesFinite == IsFiniteSet(Case) /\ Case # {}
<1>1. IsFiniteSet(1..NumCases)
  BY FS_Interval
<1>2. 1 \in 1..NumCases
  OBVIOUS
<1> QED
  BY <1>1, <1>2 DEF Case

LEMMA CodesTerminal ==
  \A code \in SandboxCodes : /\ code \in TerminalIds /\ code # UNKNOWN
                             /\ code # NoStatus /\ IsTerminal(code)
BY DEF GradeCodes, TerminalIds, UNKNOWN, NoStatus, IsTerminal, ACCEPTED,
  EXEC_FORMAT_ERROR, COMPILATION_ERROR

LEMMA StatusSetsDisjoint ==
  /\ ActiveStatus \cap TerminalStatus = {}
  /\ "absent" \notin ActiveStatus \cup TerminalStatus
  /\ GradedStatus \subseteq TerminalStatus
  /\ "infrastructure_error" \in TerminalStatus \ GradedStatus
  /\ \A row \in SubmissionRow :
       row.status \in ActiveStatus \/ row.status \in TerminalStatus \/ row.status = "absent"
BY DEF ActiveStatus, TerminalStatus, GradedStatus, SubmissionRow

\* A submission whose cases are not all settled has no verdict.
LEMMA OpenCaseOpenSubmission ==
  ASSUME TypeOK, VerdictMatchesCases, NEW s \in Submission, NEW c \in Case,
         ~IsTerminal(cases[s][c].status)
  PROVE  sub[s].status \notin TerminalStatus /\ ~AllTerminal(cases[s])
BY DEF TypeOK, VerdictMatchesCases, AllTerminal

-----------------------------------------------------------------------------
(* The part of the invariant that speaks of rows and runs only, and the    *)
(* part that speaks of the workers.                                        *)

RowInv ==
  /\ CaseHistory
  /\ RowHistory
  /\ AtMostOnce
  /\ GradesAreObserved
  /\ OneOpenCase
  /\ VerdictMatchesCases
  /\ CountedOnce

WorkerInv == WorkerAtCase /\ FlightIsOwn /\ FlightsDiffer

LEMMA IInvParts == IInv <=> TypeOK /\ RowInv /\ WorkerInv
BY DEF IInv, RowInv, WorkerInv

\* A settled case stays as it is, a dispatched one stays dispatched, and a
\* submission keeps its row.
Forward ==
  /\ \A s \in Submission, c \in Case :
       /\ IsTerminal(cases[s][c].status) => cases'[s][c] = cases[s][c]
       /\ cases[s][c].dispatched => cases'[s][c].dispatched
  /\ \A s \in Submission : sub[s].status # "absent" => sub'[s].status # "absent"

LEMMA InitIInv == Init => IInv
<1> SUFFICES ASSUME Init PROVE IInv
  OBVIOUS
<1>1. TypeOK
  <2>1. Absent \in SubmissionRow
    BY DEF Absent, NewSubmission, SubmissionRow, NONE, NoScore
  <2>2. NewCase \in CaseRow
    BY DEF NewCase, CaseRow, NoStatus
  <2> QED
    BY <2>1, <2>2, CasesFinite DEF Init, TypeOK, PC, OldAge, NoAge, UNKNOWN, NoStatus
<1>2. \A s \in Submission, c \in Case :
        cases[s][c] = NewCase /\ runs[s][c] = 0 /\ ~IsTerminal(cases[s][c].status)
  BY DEF Init, NewCase, IsTerminal, NoStatus, ACCEPTED
<1>3. \A s \in Submission : /\ sub[s].status = "absent" /\ sub[s].failure_code = NONE
                            /\ counted[s] = 0
                            /\ ~AllTerminal(cases[s])
  BY <1>2, CasesFinite DEF Init, Absent, NewSubmission, AllTerminal
<1>4. RowInv
  BY <1>2, <1>3, StatusSetsDisjoint DEF RowInv, CaseHistory, RowHistory, AtMostOnce,
    GradesAreObserved, OneOpenCase, VerdictMatchesCases, CountedOnce, NewCase, NoStatus,
    INTERNAL_ERROR
<1>5. WorkerInv
  BY DEF Init, WorkerInv, WorkerAtCase, FlightIsOwn, FlightsDiffer, Processing, InFlight
<1> QED
  BY <1>1, <1>4, <1>5, IInvParts

-----------------------------------------------------------------------------
(* Steps that touch no row and no run.                                     *)

LEMMA RowsUnchanged ==
  ASSUME RowInv, UNCHANGED <<sub, cases, counted, runs, observed>>
  PROVE  RowInv' /\ Forward
BY DEF RowInv, Forward, CaseHistory, RowHistory, AtMostOnce, GradesAreObserved, OneOpenCase,
  VerdictMatchesCases, CountedOnce, AllTerminal, AnyInfra

\* A worker that goes idle, or down, keeps nothing.
LEMMA GoesIdleInv ==
  ASSUME TypeOK, WorkerInv, NEW w \in Worker, NEW where \in {"idle", "down"},
         GoesIdle(w, where), UNCHANGED <<sub, cases, runs, observed>>
  PROVE  WorkerInv'
<1>1. /\ ~Processing(w)' /\ ~InFlight(w)' /\ pending'[w] = {}
      /\ \A v \in Worker \ {w} :
           /\ pc'[v] = pc[v] /\ job'[v] = job[v] /\ cursor'[v] = cursor[v]
           /\ attempt'[v] = attempt[v] /\ report'[v] = report[v] /\ pending'[v] = pending[v]
  BY DEF TypeOK, GoesIdle, Processing, InFlight
<1>2. WorkerAtCase'
  BY <1>1 DEF WorkerInv, WorkerAtCase, Processing
<1>3. FlightIsOwn'
  BY <1>1 DEF WorkerInv, FlightIsOwn, InFlight
<1>4. FlightsDiffer'
  BY <1>1 DEF WorkerInv, FlightsDiffer, InFlight
<1> QED
  BY <1>2, <1>3, <1>4 DEF WorkerInv

LEMMA GoesIdleTypes ==
  ASSUME TypeOK, NEW w \in Worker, NEW where \in {"idle", "down"}, GoesIdle(w, where)
  PROVE  /\ pc' \in [Worker -> PC]
         /\ job' \in [Worker -> 0..NumSubmissions]
         /\ cursor' \in [Worker -> 1..(NumCases + 1)]
         /\ attempt' \in [Worker -> Nat]
         /\ report' \in [Worker -> {UNKNOWN} \cup SandboxCodes]
         /\ pending' \in [Worker -> SUBSET Submission]
         /\ poll_age' \in [Worker -> 0..MaxPollAge]
         /\ run_age' \in [Worker -> 0..RUN_LIMIT]
BY DEF TypeOK, GoesIdle, PC

\* Steps in which a worker only goes idle.
LEMMA IdleStep ==
  ASSUME IInv, NEW w \in Worker, NEW where \in {"idle", "down"}, GoesIdle(w, where),
         UNCHANGED <<rows, sandbox, stalls>>, crashes' \in 0..MaxCrashes
  PROVE  IInv' /\ Forward
<1>1. TypeOK'
  BY IInvParts, GoesIdleTypes DEF TypeOK, rows, sandbox
<1>2. RowInv' /\ Forward
  BY IInvParts, RowsUnchanged DEF rows, sandbox
<1>3. WorkerInv'
  BY IInvParts, GoesIdleInv DEF rows, sandbox
<1> QED
  BY <1>1, <1>2, <1>3, IInvParts DEF IInv, RowInv, WorkerInv

-----------------------------------------------------------------------------
(* claim_submission.                                                       *)

LEMMA PollStep ==
  ASSUME IInv, NEW w \in Worker, Poll(w)
  PROVE  IInv' /\ Forward
<1>1. Candidates \subseteq {s \in Submission : sub[s].status # "absent"}
  BY DEF Candidates, ActiveStatus
<1>2. TypeOK'
  BY <1>1, IInvParts DEF TypeOK, Poll, PC, rows, sandbox, bounds
<1>3. RowInv' /\ Forward
  BY IInvParts, RowsUnchanged DEF Poll, rows, sandbox
<1>4. WorkerInv'
  <2>1. WorkerAtCase'
    BY <1>1, IInvParts DEF WorkerInv, WorkerAtCase, Poll, Processing, TypeOK, rows
  <2>2. FlightIsOwn' /\ FlightsDiffer'
    BY IInvParts DEF WorkerInv, FlightIsOwn, FlightsDiffer, Poll, InFlight, TypeOK, rows, sandbox
  <2> QED
    BY <2>1, <2>2 DEF WorkerInv
<1> QED
  BY <1>2, <1>3, <1>4 DEF IInv, RowInv, WorkerInv

LEMMA SkipCandidateStep ==
  ASSUME IInv, NEW w \in Worker, NEW s \in Submission, SkipCandidate(w, s)
  PROVE  IInv' /\ Forward
<1>1. TypeOK'
  BY IInvParts DEF TypeOK, SkipCandidate, rows, sandbox, bounds
<1>2. RowInv' /\ Forward
  BY IInvParts, RowsUnchanged DEF SkipCandidate, rows, sandbox
<1>3. WorkerInv'
  <2>1. WorkerAtCase'
    BY IInvParts DEF WorkerInv, WorkerAtCase, SkipCandidate, Processing, TypeOK, rows
  <2>2. FlightIsOwn' /\ FlightsDiffer'
    BY IInvParts
    DEF WorkerInv, FlightIsOwn, FlightsDiffer, SkipCandidate, InFlight, TypeOK, rows, sandbox
  <2> QED
    BY <2>1, <2>2 DEF WorkerInv
<1> QED
  BY <1>1, <1>2, <1>3 DEF IInv, RowInv, WorkerInv

LEMMA ClaimStep ==
  ASSUME IInv, NEW w \in Worker, NEW s \in Submission, Claim(w, s)
  PROVE  IInv' /\ Forward
<1>1. s \in pending[w] /\ pc[w] = "claiming"
  BY DEF Claim, AtCandidate
<1>2. sub[s].status # "absent"
  BY <1>1 DEF IInv, WorkerAtCase
<1>3. TypeOK'
  <2>1. claim_age' \in [Submission -> 0..OldAge \cup {NoAge}]
    <3>1. 0..MaxPollAge \subseteq 0..OldAge
      BY DEF OldAge
    <3> QED
      BY <3>1 DEF IInv, TypeOK, Claim
  <2>2. job' \in [Worker -> 0..NumSubmissions] /\ cursor' \in [Worker -> 1..(NumCases + 1)]
    BY DEF IInv, TypeOK, Claim, Submission
  <2>3. pc' \in [Worker -> PC]
    BY DEF IInv, TypeOK, Claim, PC
  <2> QED
    BY <2>1, <2>2, <2>3 DEF IInv, TypeOK, Claim, sandbox, bounds
<1>4. RowInv' /\ Forward
  BY IInvParts, RowsUnchanged DEF Claim, sandbox
<1>5. WorkerInv'
  <2>1. WorkerAtCase'
    <3> SUFFICES ASSUME NEW v \in Worker
                 PROVE  /\ pending'[v] \subseteq {t \in Submission : sub'[t].status # "absent"}
                        /\ Processing(v)' =>
                             /\ job'[v] \in Submission
                             /\ sub'[job'[v]].status # "absent"
                             /\ \A c \in Case :
                                  c < cursor'[v] => IsTerminal(cases'[job'[v]][c].status)
      BY DEF WorkerAtCase
    <3>1. CASE v = w
      <4>1. pending'[v] = {} /\ job'[v] = s /\ cursor'[v] = 1
        BY <3>1 DEF IInv, TypeOK, Claim
      <4> QED
        BY <1>2, <4>1 DEF Claim, Case
    <3>2. CASE v # w
      <4>1. /\ pending'[v] = pending[v] /\ job'[v] = job[v] /\ cursor'[v] = cursor[v]
            /\ pc'[v] = pc[v] /\ UNCHANGED <<sub, cases>>
        BY <3>2 DEF IInv, TypeOK, Claim
      <4> QED
        BY <4>1 DEF IInv, WorkerAtCase, Processing
    <3> QED
      BY <3>1, <3>2
  <2>2. FlightIsOwn' /\ FlightsDiffer'
    BY <1>1, IInvParts
    DEF WorkerInv, FlightIsOwn, FlightsDiffer, Claim, InFlight, TypeOK, sandbox
  <2> QED
    BY <2>1, <2>2 DEF WorkerInv
<1> QED
  BY <1>3, <1>4, <1>5 DEF IInv, RowInv, WorkerInv

-----------------------------------------------------------------------------
(* Steps of process_submission that store nothing.                         *)

LEMMA SkipSettledCaseStep ==
  ASSUME IInv, NEW w \in Worker, SkipSettledCase(w)
  PROVE  IInv' /\ Forward
<1>1. cursor[w] \in Case /\ pc[w] = "next" /\ IsTerminal(cases[job[w]][cursor[w]].status)
  BY DEF SkipSettledCase, AtCase, At
<1>2. TypeOK'
  <2>1. cursor' \in [Worker -> 1..(NumCases + 1)]
    <3>1. cursor' = [cursor EXCEPT ![w] = cursor[w] + 1] /\ cursor \in [Worker -> 1..(NumCases + 1)]
      BY DEF IInv, TypeOK, SkipSettledCase
    <3>2. cursor[w] + 1 \in 1..(NumCases + 1)
      BY <1>1 DEF Case
    <3> QED
      BY <3>1, <3>2
  <2> QED
    BY <2>1 DEF IInv, TypeOK, SkipSettledCase, rows, sandbox, bounds
<1>3. RowInv' /\ Forward
  BY IInvParts, RowsUnchanged DEF SkipSettledCase, rows, sandbox
<1>4. WorkerInv'
  <2>1. WorkerAtCase'
    <3>0. UNCHANGED <<pending, sub, cases, job, pc>>
      BY DEF SkipSettledCase, rows
    <3> SUFFICES ASSUME NEW v \in Worker, Processing(v)
                 PROVE  \A c \in Case : c < cursor'[v] => IsTerminal(cases[job[v]][c].status)
      BY <3>0 DEF IInv, WorkerAtCase, Processing
    <3>1. \A c \in Case : c < cursor[v] => IsTerminal(cases[job[v]][c].status)
      BY DEF IInv, WorkerAtCase, SkipSettledCase, Processing
    <3>2. cursor'[v] = cursor[v] \/ (v = w /\ cursor'[v] = cursor[v] + 1)
      BY DEF IInv, TypeOK, SkipSettledCase
    <3>3. \A c \in Case : c < cursor[v] + 1 => c < cursor[v] \/ c = cursor[v]
      <4>1. cursor[v] \in 1..(NumCases + 1)
        BY DEF IInv, TypeOK
      <4> QED
        BY <4>1 DEF Case
    <3> QED
      BY <1>1, <3>1, <3>2, <3>3
  <2>2. FlightIsOwn' /\ FlightsDiffer'
    BY <1>1
    DEF IInv, FlightIsOwn, FlightsDiffer, SkipSettledCase, InFlight, TypeOK, rows, sandbox
  <2> QED
    BY <2>1, <2>2 DEF WorkerInv
<1> QED
  BY <1>2, <1>3, <1>4 DEF IInv, RowInv, WorkerInv

\* After the last case every case is settled, so the submission has its verdict
\* and the final call of _finalize_submission changes nothing.
LEMMA ReleaseStep ==
  ASSUME IInv, NEW w \in Worker, Release(w)
  PROVE  IInv' /\ Forward /\ UNCHANGED <<sub, cases, counted>>
<1> DEFINE s == job[w]
<1>1. /\ s \in Submission
      /\ \A c \in Case : IsTerminal(cases[s][c].status)
  <2>1. pc[w] = "next" /\ cursor[w] = NumCases + 1
    BY DEF Release, IInv, TypeOK, Case
  <2> QED
    BY <2>1 DEF IInv, WorkerAtCase, Processing, Case
<1>2. sub[s].status \in TerminalStatus
  BY <1>1 DEF IInv, TypeOK, VerdictMatchesCases, AllTerminal
<1>3. Finalize(sub[s], cases[s]) = sub[s] /\ ~Decides(sub[s], cases[s])
  BY <1>2 DEF Finalize, Decides
<1>4. UNCHANGED <<sub, cases, counted>>
  BY <1>1, <1>3 DEF Release, FinalizeRow, IInv, TypeOK, rows
<1>5. GoesIdle(w, "idle") /\ UNCHANGED <<sandbox, bounds>>
  BY DEF Release
<1>6. TypeOK'
  <2>1. /\ claim_owner' \in [Submission -> Worker \cup {NoWorker}]
        /\ claim_age' \in [Submission -> 0..OldAge \cup {NoAge}]
    BY <1>1 DEF Release, IInv, TypeOK, rows
  <2> QED
    BY <1>4, <1>5, <2>1, GoesIdleTypes DEF IInv, TypeOK, sandbox, bounds
<1>7. RowInv' /\ Forward
  BY <1>4, <1>5, IInvParts, RowsUnchanged DEF sandbox
<1>8. WorkerInv'
  BY <1>4, <1>5, IInvParts, GoesIdleInv DEF sandbox
<1> QED
  BY <1>4, <1>6, <1>7, <1>8 DEF IInv, RowInv, WorkerInv

LEMMA TickStep ==
  ASSUME IInv, Tick
  PROVE  IInv' /\ Forward
<1>1. TypeOK'
  <2>1. stalls' \in 0..MaxStalls
    <3>1. Stalled \in SUBSET Worker
      BY DEF Stalled
    <3>2. Cardinality(Stalled) \in Nat
      BY <3>1, FS_Subset, FS_CardinalityType
    <3> QED
      BY <3>2 DEF IInv, TypeOK, Tick
  <2>2. claim_age' \in [Submission -> 0..OldAge \cup {NoAge}]
    <3> SUFFICES ASSUME NEW s \in Submission
                 PROVE  (IF claim_age[s] \in {NoAge, OldAge} THEN claim_age[s]
                         ELSE claim_age[s] + 1) \in 0..OldAge \cup {NoAge}
      BY DEF Tick
    <3> QED
      <4>1. claim_age[s] \in 0..OldAge \/ claim_age[s] = NoAge
        BY DEF IInv, TypeOK
      <4>2. OldAge \in Nat
        BY DEF OldAge
      <4>3. CASE claim_age[s] \in {NoAge, OldAge}
        BY <4>2, <4>3
      <4>4. CASE claim_age[s] \notin {NoAge, OldAge}
        BY <4>1, <4>2, <4>4
      <4> QED
        BY <4>3, <4>4
  <2>3. poll_age' \in [Worker -> 0..MaxPollAge]
    <3> SUFFICES ASSUME NEW w \in Worker
                 PROVE  (IF pc[w] = "claiming" THEN poll_age[w] + 1 ELSE poll_age[w])
                          \in 0..MaxPollAge
      BY DEF Tick
    <3> QED
      BY DEF IInv, TypeOK, Tick
  <2>4. run_age' \in [Worker -> 0..RUN_LIMIT]
    <3> SUFFICES ASSUME NEW w \in Worker
                 PROVE  (IF pc[w] = "executing" /\ run_age[w] < RUN_LIMIT
                         THEN run_age[w] + 1 ELSE run_age[w]) \in 0..RUN_LIMIT
      BY DEF Tick
    <3> QED
      BY DEF IInv, TypeOK
  <2> QED
    BY <2>1, <2>2, <2>3, <2>4 DEF IInv, TypeOK, Tick, sandbox
<1>2. RowInv' /\ Forward
  BY IInvParts, RowsUnchanged DEF Tick, sandbox
<1>3. WorkerInv'
  BY DEF IInv, WorkerInv, WorkerAtCase, FlightIsOwn, FlightsDiffer, Tick, Processing, InFlight,
    sandbox
<1> QED
  BY <1>1, <1>2, <1>3 DEF IInv, RowInv, WorkerInv

LEMMA RestartStep ==
  ASSUME IInv, NEW w \in Worker, Restart(w)
  PROVE  IInv' /\ Forward
<1>1. TypeOK'
  BY DEF IInv, TypeOK, Restart, PC, rows, sandbox, bounds
<1>2. RowInv' /\ Forward
  BY IInvParts, RowsUnchanged DEF Restart, rows, sandbox
<1>3. WorkerInv'
  BY DEF IInv, TypeOK, WorkerInv, WorkerAtCase, FlightIsOwn, FlightsDiffer, Restart, Processing,
    InFlight, rows, sandbox
<1> QED
  BY <1>1, <1>2, <1>3 DEF IInv, RowInv, WorkerInv

-----------------------------------------------------------------------------
(* The sandbox runs the case of a call in flight.                          *)

\* The case of an executing worker has not run, so it has no grade to lose.
LEMMA SandboxRunsRows ==
  ASSUME IInv, NEW w \in Worker, pc[w] = "executing", NEW code \in SandboxCodes,
         SandboxRuns(w, code), UNCHANGED <<sub, cases, counted>>
  PROVE  /\ RowInv' /\ Forward
         /\ runs' \in [Submission -> [Case -> Nat]]
         /\ observed' \in [Submission -> [Case -> {NoStatus} \cup SandboxCodes]]
         /\ runs'[job[w]][cursor[w]] = 1
         /\ observed'[job[w]][cursor[w]] = code
         /\ \A s \in Submission, c \in Case : (s # job[w] \/ c # cursor[w]) =>
              runs'[s][c] = runs[s][c] /\ observed'[s][c] = observed[s][c]
<1>1. /\ job[w] \in Submission /\ cursor[w] \in Case
      /\ cases[job[w]][cursor[w]].dispatched
      /\ runs[job[w]][cursor[w]] = 0
  BY DEF IInv, WorkerAtCase, FlightIsOwn, Processing, InFlight
<1>2. /\ runs' \in [Submission -> [Case -> Nat]]
      /\ observed' \in [Submission -> [Case -> {NoStatus} \cup SandboxCodes]]
      /\ runs'[job[w]][cursor[w]] = 1
      /\ observed'[job[w]][cursor[w]] = code
      /\ \A s \in Submission, c \in Case : (s # job[w] \/ c # cursor[w]) =>
           runs'[s][c] = runs[s][c] /\ observed'[s][c] = observed[s][c]
  <2> DEFINE s0 == job[w]
             c0 == cursor[w]
             R == [runs[s0] EXCEPT ![c0] = runs[s0][c0] + 1]
             O == [observed[s0] EXCEPT ![c0] = code]
  <2>1. runs[s0] \in [Case -> Nat] /\ observed[s0] \in [Case -> {NoStatus} \cup SandboxCodes]
    BY <1>1 DEF IInv, TypeOK
  <2>2. runs' = [runs EXCEPT ![s0] = R] /\ observed' = [observed EXCEPT ![s0] = O]
    BY DEF SandboxRuns
  <2>3. /\ R \in [Case -> Nat] /\ O \in [Case -> {NoStatus} \cup SandboxCodes]
        /\ R[c0] = 1 /\ O[c0] = code
        /\ \A c \in Case : c # c0 => R[c] = runs[s0][c] /\ O[c] = observed[s0][c]
    BY <1>1, <2>1
  <2> HIDE DEF R, O
  <2> QED
    BY <1>1, <2>2, <2>3 DEF IInv, TypeOK
<1>3. CaseHistory'
  BY <1>1, <1>2 DEF IInv, CaseHistory
<1>4. AtMostOnce'
  BY <1>1, <1>2 DEF IInv, AtMostOnce
<1>5. GradesAreObserved'
  BY <1>1, <1>2 DEF IInv, GradesAreObserved
<1>6. VerdictMatchesCases'
  <2> SUFFICES ASSUME NEW s \in Submission, sub[s].status \in GradedStatus
               PROVE  \A c \in Case : observed'[s][c] = observed[s][c]
    <3>1. \A s \in Submission :
            (\A c \in Case : observed'[s][c] = observed[s][c]) =>
              {c \in Case : observed'[s][c] = ACCEPTED} = {c \in Case : observed[s][c] = ACCEPTED}
      OBVIOUS
    <3> QED
      BY <3>1 DEF IInv, VerdictMatchesCases, AllTerminal, AnyInfra
  <2>1. AllTerminal(cases[s]) /\ ~AnyInfra(cases[s])
    BY StatusSetsDisjoint DEF IInv, VerdictMatchesCases
  <2>2. \A c \in Case : runs[s][c] = 1
    BY <2>1 DEF IInv, TypeOK, GradesAreObserved, AllTerminal, AnyInfra
  <2> QED
    BY <1>1, <1>2, <2>2
<1>7. RowHistory' /\ OneOpenCase' /\ CountedOnce' /\ Forward
  BY DEF IInv, RowHistory, OneOpenCase, CountedOnce, AnyInfra, Forward
<1> QED
  BY <1>2, <1>3, <1>4, <1>5, <1>6, <1>7 DEF RowInv

LEMMA ExecuteStep ==
  ASSUME IInv, NEW w \in Worker, Execute(w)
  PROVE  IInv' /\ Forward
<1>1. PICK code \in SandboxCodes : SandboxRuns(w, code) /\ report' = [report EXCEPT ![w] = code]
  BY DEF Execute
<1>2. pc[w] = "executing" /\ pc' = [pc EXCEPT ![w] = "save"]
      /\ UNCHANGED <<rows, job, cursor, attempt, pending, poll_age, bounds>>
      /\ run_age' = [run_age EXCEPT ![w] = 0]
  BY DEF Execute
<1>3. UNCHANGED <<sub, cases, counted>>
  BY <1>2 DEF rows
<1>4. TypeOK'
  BY <1>1, <1>2, <1>3, SandboxRunsRows DEF IInv, TypeOK, PC, rows, bounds
<1>5. RowInv' /\ Forward
  BY <1>1, <1>2, <1>3, SandboxRunsRows
<1>6. WorkerInv'
  <2>1. WorkerAtCase'
    BY <1>2, <1>3 DEF IInv, TypeOK, WorkerAtCase, Processing
  <2>2. FlightIsOwn'
    <3> SUFFICES ASSUME NEW v \in Worker, InFlight(v)'
                 PROVE  /\ cursor[v] \in Case
                        /\ cases[job[v]][cursor[v]].dispatched
                        /\ attempt[v] = 1
                        /\ pc'[v] = "executing" => runs'[job[v]][cursor[v]] = 0
                        /\ pc'[v] = "save" /\ report'[v] # UNKNOWN =>
                             /\ runs'[job[v]][cursor[v]] = 1
                             /\ observed'[job[v]][cursor[v]] = report'[v]
      BY <1>2, <1>3 DEF FlightIsOwn
    <3>1. InFlight(v) /\ job[v] \in Submission
      BY <1>2 DEF IInv, TypeOK, InFlight, WorkerAtCase, Processing
    <3>2. CASE v = w
      BY <1>1, <1>2, <1>3, <3>1, <3>2, SandboxRunsRows DEF IInv, TypeOK, FlightIsOwn
    <3>3. CASE v # w
      <4>1. pc'[v] = pc[v] /\ report'[v] = report[v]
        BY <1>1, <1>2, <3>3 DEF IInv, TypeOK
      <4>2. job[v] # job[w] \/ cursor[v] # cursor[w]
        BY <1>2, <3>1, <3>3 DEF IInv, FlightsDiffer, InFlight
      <4>3. cursor[v] \in Case
        BY <3>1 DEF IInv, FlightIsOwn
      <4>4. /\ runs'[job[v]][cursor[v]] = runs[job[v]][cursor[v]]
            /\ observed'[job[v]][cursor[v]] = observed[job[v]][cursor[v]]
        BY <1>1, <1>2, <1>3, <3>1, <4>2, <4>3, SandboxRunsRows
      <4> QED
        BY <3>1, <4>1, <4>4 DEF IInv, FlightIsOwn
    <3> QED
      BY <3>2, <3>3
  <2>3. FlightsDiffer'
    BY <1>2 DEF IInv, TypeOK, FlightsDiffer, InFlight
  <2> QED
    BY <2>1, <2>2, <2>3 DEF WorkerInv
<1> QED
  BY <1>4, <1>5, <1>6 DEF IInv, RowInv, WorkerInv

\* The report is lost, or the worker dies, whether or not the sandbox ran.
LEMMA MayRunRows ==
  ASSUME IInv, NEW w \in Worker, pc[w] = "executing", MayRun(w),
         UNCHANGED <<sub, cases, counted>>
  PROVE  /\ RowInv' /\ Forward
         /\ runs' \in [Submission -> [Case -> Nat]]
         /\ observed' \in [Submission -> [Case -> {NoStatus} \cup SandboxCodes]]
         /\ \A s \in Submission, c \in Case : (s # job[w] \/ c # cursor[w]) =>
              runs'[s][c] = runs[s][c] /\ observed'[s][c] = observed[s][c]
<1>1. CASE UNCHANGED sandbox
  BY <1>1, IInvParts, RowsUnchanged DEF sandbox, IInv, TypeOK
<1>2. ASSUME NEW code \in SandboxCodes, SandboxRuns(w, code)
      PROVE  /\ RowInv' /\ Forward
             /\ runs' \in [Submission -> [Case -> Nat]]
             /\ observed' \in [Submission -> [Case -> {NoStatus} \cup SandboxCodes]]
             /\ \A s \in Submission, c \in Case : (s # job[w] \/ c # cursor[w]) =>
                  runs'[s][c] = runs[s][c] /\ observed'[s][c] = observed[s][c]
  BY <1>2, SandboxRunsRows
<1> QED
  BY <1>1, <1>2 DEF MayRun

\* The other workers' calls are for other cases, so a run does not touch them.
LEMMA OtherFlights ==
  ASSUME IInv, NEW w \in Worker, pc[w] = "executing",
         NEW v \in Worker, v # w, InFlight(v),
         \A s \in Submission, c \in Case : (s # job[w] \/ c # cursor[w]) =>
           runs'[s][c] = runs[s][c] /\ observed'[s][c] = observed[s][c]
  PROVE  /\ runs'[job[v]][cursor[v]] = runs[job[v]][cursor[v]]
         /\ observed'[job[v]][cursor[v]] = observed[job[v]][cursor[v]]
<1>1. job[v] # job[w] \/ cursor[v] # cursor[w]
  BY DEF IInv, FlightsDiffer, InFlight
<1>2. job[v] \in Submission /\ cursor[v] \in Case
  BY DEF IInv, FlightIsOwn, WorkerAtCase, Processing, InFlight
<1> QED
  BY <1>1, <1>2

LEMMA ExecuteUnknownStep ==
  ASSUME IInv, NEW w \in Worker, ExecuteUnknown(w)
  PROVE  IInv' /\ Forward
<1>1. /\ pc[w] = "executing" /\ MayRun(w)
      /\ pc' = [pc EXCEPT ![w] = "save"] /\ report' = [report EXCEPT ![w] = UNKNOWN]
      /\ run_age' = [run_age EXCEPT ![w] = 0]
      /\ UNCHANGED <<rows, job, cursor, attempt, pending, poll_age, bounds>>
  BY DEF ExecuteUnknown
<1>2. UNCHANGED <<sub, cases, counted>>
  BY <1>1 DEF rows
<1>3. TypeOK'
  BY <1>1, <1>2, MayRunRows DEF IInv, TypeOK, PC, rows, bounds
<1>4. RowInv' /\ Forward
  BY <1>1, <1>2, MayRunRows
<1>5. WorkerAtCase'
  BY <1>1, <1>2 DEF IInv, TypeOK, WorkerAtCase, Processing
<1>6. FlightIsOwn'
  <2> SUFFICES ASSUME NEW v \in Worker, InFlight(v)'
               PROVE  /\ cursor[v] \in Case
                      /\ cases[job[v]][cursor[v]].dispatched
                      /\ attempt[v] = 1
                      /\ pc'[v] = "executing" => runs'[job[v]][cursor[v]] = 0
                      /\ pc'[v] = "save" /\ report'[v] # UNKNOWN =>
                           /\ runs'[job[v]][cursor[v]] = 1
                           /\ observed'[job[v]][cursor[v]] = report'[v]
    BY <1>1, <1>2 DEF FlightIsOwn
  <2>1. InFlight(v)
    BY <1>1 DEF IInv, TypeOK, InFlight
  <2>2. CASE v = w
    BY <1>1, <2>1, <2>2 DEF IInv, TypeOK, FlightIsOwn
  <2>3. CASE v # w
    <3>1. pc'[v] = pc[v] /\ report'[v] = report[v]
      BY <1>1, <2>3 DEF IInv, TypeOK
    <3>2. /\ runs'[job[v]][cursor[v]] = runs[job[v]][cursor[v]]
          /\ observed'[job[v]][cursor[v]] = observed[job[v]][cursor[v]]
      BY <1>1, <1>2, <2>1, <2>3, MayRunRows, OtherFlights
    <3> QED
      BY <2>1, <3>1, <3>2 DEF IInv, FlightIsOwn
  <2> QED
    BY <2>2, <2>3
<1>7. FlightsDiffer'
  BY <1>1 DEF IInv, TypeOK, FlightsDiffer, InFlight
<1> QED
  BY <1>3, <1>4, <1>5, <1>6, <1>7 DEF IInv, RowInv

LEMMA CrashStep ==
  ASSUME IInv, NEW w \in Worker, Crash(w)
  PROVE  IInv' /\ Forward
<1>1. GoesIdle(w, "down") /\ UNCHANGED <<rows, stalls>> /\ crashes' \in 0..MaxCrashes
  BY DEF Crash, IInv, TypeOK
<1>2. CASE pc[w] # "executing"
  BY <1>1, <1>2, IdleStep DEF Crash
<1>3. CASE pc[w] = "executing"
  <2>1. MayRun(w) /\ UNCHANGED <<sub, cases, counted>>
    BY <1>1, <1>3 DEF Crash, rows
  <2>2. TypeOK'
    BY <1>1, <1>3, <2>1, MayRunRows, GoesIdleTypes DEF IInv, TypeOK, rows
  <2>3. RowInv' /\ Forward
    BY <1>3, <2>1, MayRunRows
  <2>4. /\ ~Processing(w)' /\ ~InFlight(w)' /\ pending'[w] = {}
        /\ \A v \in Worker \ {w} :
             /\ pc'[v] = pc[v] /\ job'[v] = job[v] /\ cursor'[v] = cursor[v]
             /\ attempt'[v] = attempt[v] /\ report'[v] = report[v] /\ pending'[v] = pending[v]
    BY <1>1 DEF IInv, TypeOK, GoesIdle, Processing, InFlight
  <2>5. WorkerAtCase'
    BY <2>1, <2>4 DEF IInv, WorkerAtCase, Processing
  <2>6. FlightIsOwn'
    <3> SUFFICES ASSUME NEW v \in Worker, v # w, InFlight(v)
                 PROVE  /\ runs'[job[v]][cursor[v]] = runs[job[v]][cursor[v]]
                        /\ observed'[job[v]][cursor[v]] = observed[job[v]][cursor[v]]
      BY <2>1, <2>4 DEF IInv, FlightIsOwn, InFlight
    <3> QED
      BY <1>3, <2>1, MayRunRows, OtherFlights
  <2>7. FlightsDiffer'
    BY <2>4 DEF IInv, FlightsDiffer, InFlight
  <2> QED
    BY <2>2, <2>3, <2>5, <2>6, <2>7 DEF IInv, RowInv
<1> QED
  BY <1>2, <1>3

-----------------------------------------------------------------------------
(* Steps that change rows.                                                 *)

LEMMA SubmitStep ==
  ASSUME IInv, NEW s \in Submission, Submit(s)
  PROVE  IInv' /\ Forward
<1>1. /\ sub[s].status = "absent" /\ sub' = [sub EXCEPT ![s] = NewSubmission]
      /\ UNCHANGED <<cases, claim_owner, claim_age, counted, local, sandbox, bounds>>
  BY DEF Submit
<1>2. NewSubmission \in SubmissionRow /\ NewSubmission.status \in ActiveStatus
      /\ NewSubmission.failure_code = NONE
  BY DEF NewSubmission, SubmissionRow, ActiveStatus, NONE, NoScore
<1>3. TypeOK'
  BY <1>1, <1>2 DEF IInv, TypeOK, local, sandbox, bounds
<1>4. /\ sub'[s] = NewSubmission
      /\ \A t \in Submission \ {s} : sub'[t] = sub[t]
      /\ UNCHANGED <<cases, counted, runs, observed>>
  BY <1>1 DEF IInv, TypeOK, sandbox
<1>5. sub[s].status \notin TerminalStatus /\ NewSubmission.status \notin TerminalStatus
  BY <1>1, <1>2, StatusSetsDisjoint
<1>6. VerdictMatchesCases'
  <2>1. NewSubmission.status \notin GradedStatus /\ NewSubmission.status # "infrastructure_error"
    BY <1>5, StatusSetsDisjoint
  <2>2. ~AllTerminal(cases[s])
    BY <1>5 DEF IInv, VerdictMatchesCases
  <2> QED
    BY <1>4, <1>5, <2>1, <2>2 DEF IInv, VerdictMatchesCases, AllTerminal, AnyInfra
<1>7. CountedOnce'
  <2>1. sub[s].status \notin GradedStatus /\ NewSubmission.status \notin GradedStatus
    BY <1>5, StatusSetsDisjoint
  <2> QED
    BY <1>4, <2>1 DEF IInv, CountedOnce
<1>8. RowHistory'
  <2>1. NewSubmission.status # "absent"
    BY <1>2, StatusSetsDisjoint
  <2> QED
    BY <1>2, <1>4, <2>1 DEF IInv, RowHistory, AnyInfra
<1>9. /\ CaseHistory' /\ AtMostOnce' /\ GradesAreObserved' /\ OneOpenCase' /\ Forward
  <2>1. NewSubmission.status # "absent"
    BY <1>2, StatusSetsDisjoint
  <2> QED
    BY <1>4, <2>1 DEF IInv, CaseHistory, AtMostOnce, GradesAreObserved, OneOpenCase, Forward
<1>10. WorkerInv'
  BY <1>1, <1>4, <1>9 DEF IInv, WorkerInv, WorkerAtCase, FlightIsOwn, FlightsDiffer, Processing,
    InFlight, Forward, local
<1> QED
  BY <1>3, <1>6, <1>7, <1>8, <1>9, <1>10 DEF IInv, WorkerInv

\* What a worker at a case of its claim relies on.
LEMMA AtOpenCase ==
  ASSUME IInv, NEW w \in Worker, AtCase(w), ~IsTerminal(At(w).status)
  PROVE  /\ pc[w] = "next" /\ job[w] \in Submission /\ cursor[w] \in Case
         /\ sub[job[w]].status \in ActiveStatus
         /\ ~IsTerminal(cases[job[w]][cursor[w]].status)
         /\ \A c \in Case : c < cursor[w] => IsTerminal(cases[job[w]][c].status)
<1>1. pc[w] = "next" /\ cursor[w] \in Case /\ sub[job[w]].status \notin TerminalStatus
      /\ ~IsTerminal(cases[job[w]][cursor[w]].status)
  BY DEF AtCase, At
<1>2. job[w] \in Submission /\ sub[job[w]].status # "absent"
      /\ \A c \in Case : c < cursor[w] => IsTerminal(cases[job[w]][c].status)
  BY <1>1 DEF IInv, WorkerAtCase, Processing
<1>3. sub[job[w]].status \in ActiveStatus
  BY <1>1, <1>2, StatusSetsDisjoint DEF IInv, TypeOK
<1> QED
  BY <1>1, <1>2, <1>3

LEMMA DispatchStep ==
  ASSUME IInv, NEW w \in Worker, Dispatch(w)
  PROVE  IInv' /\ Forward
<1> DEFINE s == job[w]
           c == cursor[w]
           old == cases[s][c]
           new == Dispatched(old)
<1>1. /\ pc[w] = "next" /\ s \in Submission /\ c \in Case
      /\ sub[s].status \in ActiveStatus
      /\ \A d \in Case : d < c => IsTerminal(cases[s][d].status)
  BY AtOpenCase DEF Dispatch
<1>2. /\ ~old.dispatched
      /\ cases' = [cases EXCEPT ![s][c] = new]
      /\ attempt' = [attempt EXCEPT ![w] = old.attempts + 1]
      /\ claim_age' = [claim_age EXCEPT ![s] = 0]
      /\ pc' = [pc EXCEPT ![w] = "executing"]
      /\ UNCHANGED <<sub, claim_owner, counted, job, cursor, report, pending,
                     poll_age, run_age, sandbox, bounds>>
  BY DEF Dispatch, LeaseRenewed, At
<1>3. old = NewCase /\ runs[s][c] = 0
  BY <1>1, <1>2 DEF IInv, CaseHistory
<1>4. /\ new \in CaseRow /\ new.dispatched /\ new.attempts = 1 /\ new.status = PROCESSING
      /\ ~new.infra /\ ~IsTerminal(new.status) /\ new.status # NoStatus
      /\ new.status # INTERNAL_ERROR
  <2>1. NewCase \in CaseRow /\ NewCase.attempts = 0 /\ ~NewCase.infra
    BY DEF NewCase, CaseRow, NoStatus
  <2>2. \A case \in CaseRow :
          /\ Dispatched(case) \in CaseRow
          /\ Dispatched(case).dispatched
          /\ Dispatched(case).attempts = case.attempts + 1
          /\ Dispatched(case).status = PROCESSING
          /\ Dispatched(case).infra = case.infra
    <3> SUFFICES ASSUME NEW case \in CaseRow
                 PROVE  /\ Dispatched(case) \in CaseRow
                        /\ Dispatched(case).dispatched
                        /\ Dispatched(case).attempts = case.attempts + 1
                        /\ Dispatched(case).status = PROCESSING
                        /\ Dispatched(case).infra = case.infra
      OBVIOUS
    <3>1. case.attempts + 1 \in Nat
      BY DEF CaseRow
    <3>2. Dispatched(case) \in CaseRow
      BY <3>1 DEF Dispatched, CaseRow
    <3>3. Dispatched(case).dispatched /\ Dispatched(case).infra = case.infra
      BY DEF Dispatched, CaseRow
    <3>4. Dispatched(case).attempts = case.attempts + 1 /\ Dispatched(case).status = PROCESSING
      BY DEF Dispatched, CaseRow
    <3> QED
      BY <3>2, <3>3, <3>4
  <2> QED
    BY <1>3, <2>1, <2>2 DEF IsTerminal, PROCESSING, ACCEPTED, NoStatus, INTERNAL_ERROR
<1>5. /\ cases' \in [Submission -> [Case -> CaseRow]]
      /\ cases'[s][c] = new
      /\ \A t \in Submission, d \in Case : (t # s \/ d # c) => cases'[t][d] = cases[t][d]
  <2> HIDE DEF new
  <2> QED
    BY <1>1, <1>2, <1>4 DEF IInv, TypeOK
<1> HIDE DEF new
<1>6. TypeOK'
  <2>1. attempt' \in [Worker -> Nat]
    <3>1. old.attempts + 1 \in Nat
      BY <1>3 DEF NewCase
    <3> QED
      BY <1>2, <3>1 DEF IInv, TypeOK
  <2>2. claim_age' \in [Submission -> 0..OldAge \cup {NoAge}]
    <3>1. 0 \in 0..OldAge
      BY DEF OldAge
    <3>2. claim_age \in [Submission -> 0..OldAge \cup {NoAge}]
      BY DEF IInv, TypeOK
    <3> QED
      BY <1>2, <3>1, <3>2
  <2> QED
    BY <1>2, <1>5, <2>1, <2>2 DEF IInv, TypeOK, PC, sandbox, bounds
<1>7. UNCHANGED <<sub, counted, runs, observed>>
  BY <1>2 DEF sandbox
<1>8. ~IsTerminal(old.status) /\ ~old.infra
  BY <1>3 DEF NewCase, IsTerminal, NoStatus, ACCEPTED
<1>9. Forward
  BY <1>1, <1>4, <1>5, <1>7, <1>8 DEF Forward
<1>10. CaseHistory' /\ AtMostOnce' /\ GradesAreObserved' /\ CountedOnce'
  BY <1>1, <1>2, <1>3, <1>4, <1>5, <1>7 DEF IInv, CaseHistory, AtMostOnce, GradesAreObserved,
    CountedOnce
<1>11. OneOpenCase'
  <2> SUFFICES ASSUME NEW t \in Submission, NEW a \in Case, NEW b \in Case,
                      a < b, ~IsTerminal(cases'[t][a].status)
               PROVE  ~cases'[t][b].dispatched
    BY DEF OneOpenCase
  <2>1. ~IsTerminal(cases[t][a].status)
    BY <1>1, <1>5, <1>8
  <2>2. t # s \/ b # c
    BY <1>1, <2>1
  <2> QED
    BY <1>5, <2>1, <2>2 DEF IInv, OneOpenCase
<1>12. \A t \in Submission : /\ AllTerminal(cases'[t]) <=> AllTerminal(cases[t])
                             /\ AnyInfra(cases'[t]) <=> AnyInfra(cases[t])
  <2>1. \A t \in Submission : DOMAIN cases'[t] = Case /\ DOMAIN cases[t] = Case
    BY <1>5 DEF IInv, TypeOK
  <2>2. \A t \in Submission, d \in Case :
          /\ IsTerminal(cases'[t][d].status) <=> IsTerminal(cases[t][d].status)
          /\ cases'[t][d].infra <=> cases[t][d].infra
    BY <1>4, <1>5, <1>8
  <2> QED
    BY <2>1, <2>2 DEF AllTerminal, AnyInfra
<1>13. VerdictMatchesCases' /\ RowHistory'
  <2>1. VerdictMatchesCases'
    BY <1>7, <1>12 DEF IInv, VerdictMatchesCases
  <2>2. RowHistory'
    BY <1>1, <1>5, <1>7, <1>12, StatusSetsDisjoint DEF IInv, RowHistory
  <2> QED
    BY <2>1, <2>2
<1>14. WorkerAtCase'
  <2>1. \A v \in Worker : Processing(v)' => Processing(v)
    BY <1>1, <1>2 DEF IInv, TypeOK, Processing
  <2> QED
    BY <1>2, <1>9, <2>1 DEF IInv, WorkerAtCase, Forward
<1>15. FlightIsOwn'
  <2> SUFFICES ASSUME NEW v \in Worker, InFlight(v)'
               PROVE  /\ cursor[v] \in Case
                      /\ cases'[job[v]][cursor[v]].dispatched
                      /\ attempt'[v] = 1
                      /\ pc'[v] = "executing" => runs[job[v]][cursor[v]] = 0
                      /\ pc'[v] = "save" /\ report[v] # UNKNOWN =>
                           /\ runs[job[v]][cursor[v]] = 1
                           /\ observed[job[v]][cursor[v]] = report[v]
    BY <1>2, <1>7 DEF FlightIsOwn
  <2>1. CASE v = w
    BY <1>1, <1>2, <1>3, <1>4, <1>5, <2>1 DEF IInv, TypeOK, NewCase
  <2>2. CASE v # w
    <3>1. InFlight(v) /\ pc'[v] = pc[v] /\ attempt'[v] = attempt[v]
      BY <1>2, <2>2 DEF IInv, TypeOK, InFlight
    <3>2. job[v] \in Submission
      BY <3>1 DEF IInv, WorkerAtCase, Processing, InFlight
    <3> QED
      BY <1>9, <3>1, <3>2 DEF IInv, FlightIsOwn, Forward
  <2> QED
    BY <2>1, <2>2
<1>16. FlightsDiffer'
  <2>1. \A v \in Worker : v # w /\ InFlight(v)' => InFlight(v)
    BY <1>2 DEF IInv, TypeOK, InFlight
  <2>2. \A v \in Worker : InFlight(v) => s # job[v] \/ c # cursor[v]
    BY <1>2 DEF IInv, FlightIsOwn
  <2> QED
    BY <1>2, <2>1, <2>2 DEF IInv, FlightsDiffer
<1> QED
  BY <1>6, <1>9, <1>10, <1>11, <1>13, <1>14, <1>15, <1>16 DEF IInv

\* A dispatched case without a result belongs to a submission that is open.
LEMMA DispatchedCaseIsActive ==
  ASSUME IInv, NEW s \in Submission, NEW c \in Case,
         cases[s][c].dispatched, ~IsTerminal(cases[s][c].status)
  PROVE  sub[s].status \in ActiveStatus
BY OpenCaseOpenSubmission, StatusSetsDisjoint DEF IInv, TypeOK, RowHistory

\* What _finalize_submission makes of an open row whose failure code, if any,
\* goes with an infrastructure failure among the results f.
LEMMA FinalizeOpenRow ==
  ASSUME NEW row \in SubmissionRow, row.status \in ActiveStatus,
         NEW f \in [Case -> CaseRow],
         \A c \in Case : f[c].status = INTERNAL_ERROR => f[c].infra,
         row.failure_code # NONE => AnyInfra(f)
  PROVE  LET fin == Finalize(row, f)
         IN  /\ fin \in SubmissionRow
             /\ fin.status # "absent"
             /\ fin.status \in TerminalStatus <=> AllTerminal(f)
             /\ fin.status = "infrastructure_error" => AnyInfra(f)
             /\ fin.status \in GradedStatus =>
                  ~AnyInfra(f) /\ fin.passed = Cardinality(Passed(f)) /\ fin.failure_code = NONE
             /\ fin.failure_code # NONE => AnyInfra(f)
             /\ Decides(row, f) <=> fin.status \in GradedStatus
<1>1. CASE ~AllTerminal(f)
  BY <1>1, FinalizeWaiting, StatusSetsDisjoint
<1>2. CASE AllTerminal(f) /\ AnyInfra(f)
  <2>1. DOMAIN f # {}
    BY CasesFinite
  <2> QED
    BY <1>2, <2>1, FinalizeAbandoned, StatusSetsDisjoint
<1>3. CASE AllTerminal(f) /\ ~AnyInfra(f)
  <2>1. /\ Finalize(row, f) \in SubmissionRow
        /\ Finalize(row, f).status \in GradedStatus
        /\ Finalize(row, f).failure_code = row.failure_code
        /\ Finalize(row, f).passed = Cardinality(Passed(f))
        /\ Decides(row, f)
    BY <1>3, CasesFinite, FinalizeGraded
  <2> QED
    BY <1>3, <2>1, StatusSetsDisjoint
<1> QED
  BY <1>1, <1>2, <1>3

\* A result stored for a dispatched case keeps the invariant of the rows.  A
\* grade must be what the sandbox reported, and a failure code comes with an
\* infrastructure failure.
LEMMA StoreResultRows ==
  ASSUME IInv, NEW s \in Submission, NEW c \in Case,
         cases[s][c].dispatched, ~IsTerminal(cases[s][c].status),
         \A d \in Case : d < c => IsTerminal(cases[s][d].status),
         NEW result \in CaseRow, result.dispatched, result.attempts = 1,
         IsTerminal(result.status), result.infra <=> result.status = INTERNAL_ERROR,
         ~result.infra => runs[s][c] = 1 /\ result.status = observed[s][c],
         NEW code \in FailureCode \cup {NONE}, code # NONE => result.infra,
         StoreResult(s, c, result, code), UNCHANGED <<runs, observed>>
  PROVE  /\ RowInv' /\ Forward
         /\ sub' \in [Submission -> SubmissionRow]
         /\ cases' \in [Submission -> [Case -> CaseRow]]
         /\ counted' \in [Submission -> Nat]
         /\ IsTerminal(cases'[s][c].status)
<1> DEFINE row == IF code = NONE THEN sub[s] ELSE [sub[s] EXCEPT !.failure_code = code]
           f == [cases[s] EXCEPT ![c] = result]
           fin == Finalize(row, f)
<1>1. sub[s].status \in ActiveStatus /\ ~AllTerminal(cases[s])
  BY DispatchedCaseIsActive, OpenCaseOpenSubmission DEF IInv
<1>2. /\ row \in SubmissionRow /\ row.status = sub[s].status
      /\ row.failure_code # NONE => sub[s].failure_code # NONE \/ code # NONE
  <2>1. sub[s] \in SubmissionRow
    BY DEF IInv, TypeOK
  <2>2. /\ [sub[s] EXCEPT !.failure_code = code] \in SubmissionRow
        /\ [sub[s] EXCEPT !.failure_code = code].status = sub[s].status
        /\ [sub[s] EXCEPT !.failure_code = code].failure_code = code
    BY <2>1 DEF SubmissionRow
  <2> QED
    BY <2>1, <2>2
<1>3. /\ f \in [Case -> CaseRow] /\ f[c] = result
      /\ \A d \in Case \ {c} : f[d] = cases[s][d]
  BY DEF IInv, TypeOK
<1>4. /\ cases' = [cases EXCEPT ![s] = f]
      /\ sub' = [sub EXCEPT ![s] = fin]
      /\ counted' = [counted EXCEPT ![s] =
           IF Decides(row, f) /\ s \notin Practice THEN counted[s] + 1 ELSE counted[s]]
  BY DEF StoreResult, FinalizeRow
<1>5. ~cases[s][c].infra
  BY DEF IInv, CaseHistory, IsTerminal, INTERNAL_ERROR, ACCEPTED
<1>6. \A d \in Case : f[d].status = INTERNAL_ERROR => f[d].infra
  BY <1>3 DEF IInv, CaseHistory
<1>7. row.failure_code # NONE => AnyInfra(f)
  <2>1. DOMAIN f = Case /\ DOMAIN cases[s] = Case
    BY <1>3 DEF IInv, TypeOK
  <2>2. AnyInfra(cases[s]) => AnyInfra(f)
    BY <1>3, <1>5, <2>1 DEF AnyInfra
  <2>3. code # NONE => AnyInfra(f)
    BY <1>3, <2>1 DEF AnyInfra
  <2> QED
    BY <1>2, <2>2, <2>3 DEF IInv, RowHistory
<1> HIDE DEF row, f
<1>8. /\ fin \in SubmissionRow
      /\ fin.status # "absent"
      /\ fin.status \in TerminalStatus <=> AllTerminal(f)
      /\ fin.status = "infrastructure_error" => AnyInfra(f)
      /\ fin.status \in GradedStatus =>
           ~AnyInfra(f) /\ fin.passed = Cardinality(Passed(f)) /\ fin.failure_code = NONE
      /\ fin.failure_code # NONE => AnyInfra(f)
      /\ Decides(row, f) <=> fin.status \in GradedStatus
  BY <1>1, <1>2, <1>3, <1>6, <1>7, FinalizeOpenRow
<1> HIDE DEF fin
<1>9. /\ cases'[s] = f /\ sub'[s] = fin
      /\ counted'[s] = IF Decides(row, f) /\ s \notin Practice THEN counted[s] + 1
                       ELSE counted[s]
      /\ \A t \in Submission \ {s} : /\ cases'[t] = cases[t] /\ sub'[t] = sub[t]
                                     /\ counted'[t] = counted[t]
  BY <1>4 DEF IInv, TypeOK
<1>10. /\ sub' \in [Submission -> SubmissionRow]
       /\ cases' \in [Submission -> [Case -> CaseRow]]
       /\ counted' \in [Submission -> Nat]
  <2>1. sub' \in [Submission -> SubmissionRow]
    BY <1>4, <1>8 DEF IInv, TypeOK
  <2>2. cases' \in [Submission -> [Case -> CaseRow]]
    BY <1>3, <1>4 DEF IInv, TypeOK
  <2>3. (IF Decides(row, f) /\ s \notin Practice THEN counted[s] + 1 ELSE counted[s]) \in Nat
    BY DEF IInv, TypeOK
  <2>4. counted' \in [Submission -> Nat]
    BY <1>4, <2>3 DEF IInv, TypeOK
  <2> QED
    BY <2>1, <2>2, <2>4
<1>11. /\ cases'[s][c] = result
       /\ \A t \in Submission, d \in Case : (t # s \/ d # c) => cases'[t][d] = cases[t][d]
  BY <1>3, <1>9
<1>12. Forward
  BY <1>8, <1>9, <1>11 DEF Forward
<1>13. CaseHistory'
  BY <1>11 DEF IInv, CaseHistory, IsTerminal, NoStatus, ACCEPTED
<1>14. RowHistory'
  BY <1>8, <1>9 DEF IInv, RowHistory
<1>15. AtMostOnce' /\ GradesAreObserved'
  <2>1. AtMostOnce'
    BY DEF IInv, AtMostOnce
  <2>2. GradesAreObserved'
    <3> SUFFICES ASSUME NEW t \in Submission, NEW d \in Case,
                        IsTerminal(cases'[t][d].status), ~cases'[t][d].infra
                 PROVE  runs[t][d] = 1 /\ cases'[t][d].status = observed[t][d]
      BY DEF GradesAreObserved
    <3>1. CASE t = s /\ d = c
      BY <1>11, <3>1
    <3>2. CASE t # s \/ d # c
      BY <1>11, <3>2 DEF IInv, GradesAreObserved
    <3> QED
      BY <3>1, <3>2
  <2> QED
    BY <2>1, <2>2
<1>16. OneOpenCase'
  <2> SUFFICES ASSUME NEW t \in Submission, NEW a \in Case, NEW b \in Case,
                      a < b, ~IsTerminal(cases'[t][a].status)
               PROVE  ~cases'[t][b].dispatched
    BY DEF OneOpenCase
  <2>1. ~IsTerminal(cases[t][a].status)
    BY <1>12 DEF Forward
  <2>2. t # s \/ b # c
    BY <2>1
  <2> QED
    BY <1>11, <2>1, <2>2 DEF IInv, OneOpenCase
<1>17. CountedOnce'
  <2>1. sub[s].status \notin GradedStatus
    BY <1>1, StatusSetsDisjoint
  <2>2. counted[s] = 0
    BY <2>1 DEF IInv, CountedOnce
  <2> QED
    BY <1>8, <1>9, <2>2 DEF IInv, CountedOnce
<1>18. VerdictMatchesCases'
  <2>1. ASSUME NEW t \in Submission, t # s
        PROVE  /\ sub'[t].status \in TerminalStatus <=> AllTerminal(cases'[t])
               /\ sub'[t].status = "infrastructure_error" => AnyInfra(cases'[t])
               /\ sub'[t].status \in GradedStatus =>
                    /\ ~AnyInfra(cases'[t])
                    /\ sub'[t].passed = Cardinality({d \in Case : observed'[t][d] = ACCEPTED})
                    /\ sub'[t].failure_code = NONE
    BY <1>9, <2>1 DEF IInv, VerdictMatchesCases
  <2>2. AllTerminal(f) /\ ~AnyInfra(f)
          => Passed(f) = {d \in Case : observed'[s][d] = ACCEPTED}
    <3>1. DOMAIN f = Case
      BY <1>3
    <3>2. AllTerminal(f) /\ ~AnyInfra(f) => \A d \in Case : f[d].status = observed'[s][d]
      BY <1>9, <1>15, <3>1 DEF GradesAreObserved, AllTerminal, AnyInfra
    <3> QED
      BY <3>1, <3>2 DEF Passed
  <2>3. /\ sub'[s].status \in TerminalStatus <=> AllTerminal(cases'[s])
        /\ sub'[s].status = "infrastructure_error" => AnyInfra(cases'[s])
        /\ sub'[s].status \in GradedStatus =>
             /\ ~AnyInfra(cases'[s])
             /\ sub'[s].passed = Cardinality({d \in Case : observed'[s][d] = ACCEPTED})
             /\ sub'[s].failure_code = NONE
    BY <1>8, <1>9, <2>2, StatusSetsDisjoint
  <2> QED
    BY <2>1, <2>3 DEF VerdictMatchesCases
<1> QED
  BY <1>10, <1>11, <1>12, <1>13, <1>14, <1>15, <1>16, <1>17, <1>18 DEF RowInv

\* The worker whose case is settled moves on; the other workers are where they
\* were.
LEMMA AdvanceWorkers ==
  ASSUME IInv, Forward, NEW w \in Worker, Processing(w), cursor[w] \in Case,
         IsTerminal(cases'[job[w]][cursor[w]].status),
         pc' = [pc EXCEPT ![w] = "next"],
         cursor' = [cursor EXCEPT ![w] = cursor[w] + 1],
         \A v \in Worker \ {w} : attempt'[v] = attempt[v] /\ report'[v] = report[v],
         UNCHANGED <<job, pending, runs, observed>>
  PROVE  WorkerInv' /\ cursor' \in [Worker -> 1..(NumCases + 1)]
<1>1. job[w] \in Submission /\ cursor[w] + 1 \in 1..(NumCases + 1)
  BY DEF IInv, WorkerAtCase, Case
<1>2. \A v \in Worker \ {w} : pc'[v] = pc[v] /\ cursor'[v] = cursor[v]
  BY DEF IInv, TypeOK
<1>3. pc'[w] = "next" /\ cursor'[w] = cursor[w] + 1
  BY DEF IInv, TypeOK
<1>4. WorkerAtCase'
  <2>1. \A v \in Worker : pending'[v] \subseteq {s \in Submission : sub'[s].status # "absent"}
    BY DEF IInv, WorkerAtCase, Forward
  <2>2. \A v \in Worker : Processing(v)' => Processing(v)
    BY <1>2 DEF Processing
  <2>3. \A v \in Worker : Processing(v)' => job[v] \in Submission /\ sub'[job[v]].status # "absent"
    BY <2>2 DEF IInv, WorkerAtCase, Forward
  <2>4. ASSUME NEW v \in Worker, Processing(v)', NEW d \in Case, d < cursor'[v]
        PROVE  IsTerminal(cases'[job[v]][d].status)
    <3>1. CASE v = w /\ d = cursor[w]
      BY <3>1
    <3>2. CASE v # w \/ d # cursor[w]
      <4>1. d < cursor[v]
        BY <1>2, <1>3, <2>4, <3>2 DEF IInv, TypeOK, Case
      <4>2. IsTerminal(cases[job[v]][d].status) /\ job[v] \in Submission
        BY <2>2, <2>4, <4>1 DEF IInv, WorkerAtCase
      <4> QED
        BY <4>2 DEF Forward
    <3> QED
      BY <3>1, <3>2
  <2> QED
    BY <2>1, <2>3, <2>4 DEF WorkerAtCase
<1>5. \A v \in Worker : InFlight(v)' => v # w /\ InFlight(v)
  BY <1>2, <1>3 DEF InFlight
<1>6. FlightIsOwn'
  <2> SUFFICES ASSUME NEW v \in Worker, v # w, InFlight(v)
               PROVE  cases'[job[v]][cursor[v]].dispatched
    BY <1>2, <1>5 DEF IInv, FlightIsOwn
  <2> QED
    BY DEF IInv, FlightIsOwn, WorkerAtCase, Forward, Processing, InFlight
<1>7. FlightsDiffer'
  BY <1>2, <1>5 DEF IInv, FlightsDiffer
<1>8. cursor' \in [Worker -> 1..(NumCases + 1)]
  BY <1>1 DEF IInv, TypeOK
<1> QED
  BY <1>4, <1>6, <1>7, <1>8 DEF WorkerInv

\* An infrastructure failure settles a case and leaves its dispatch on record.
LEMMA MarkedCase ==
  ASSUME NEW case \in CaseRow
  PROVE  LET marked == MarkInfrastructureFailure(case)
         IN  /\ marked \in CaseRow
             /\ marked.dispatched = case.dispatched
             /\ marked.attempts = case.attempts
             /\ marked.infra
             /\ marked.status = INTERNAL_ERROR
             /\ IsTerminal(marked.status)
<1>1. INTERNAL_ERROR \in TerminalIds /\ IsTerminal(INTERNAL_ERROR)
  BY DEF TerminalIds, INTERNAL_ERROR, ACCEPTED, EXEC_FORMAT_ERROR, IsTerminal
<1>2. MarkInfrastructureFailure(case) \in CaseRow
  BY <1>1 DEF MarkInfrastructureFailure, CaseRow
<1>3. /\ MarkInfrastructureFailure(case).dispatched = case.dispatched
      /\ MarkInfrastructureFailure(case).attempts = case.attempts
      /\ MarkInfrastructureFailure(case).infra
      /\ MarkInfrastructureFailure(case).status = INTERNAL_ERROR
  BY DEF MarkInfrastructureFailure, CaseRow
<1> QED
  BY <1>1, <1>2, <1>3

LEMMA MarkUnknownStep ==
  ASSUME IInv, NEW w \in Worker, MarkUnknown(w)
  PROVE  IInv' /\ Forward
<1> DEFINE s == job[w]
           c == cursor[w]
           result == MarkInfrastructureFailure(cases[s][c])
<1>1. /\ pc[w] = "next" /\ s \in Submission /\ c \in Case
      /\ ~IsTerminal(cases[s][c].status)
      /\ \A d \in Case : d < c => IsTerminal(cases[s][d].status)
  BY AtOpenCase DEF MarkUnknown
<1>2. /\ cases[s][c].dispatched
      /\ StoreResult(s, c, result, "runner_outcome_unknown")
      /\ cursor' = [cursor EXCEPT ![w] = cursor[w] + 1]
      /\ UNCHANGED <<claim_owner, claim_age, pc, job, attempt, report, pending,
                     poll_age, run_age, sandbox, bounds>>
  BY DEF MarkUnknown, At
<1>3. /\ result \in CaseRow /\ result.dispatched /\ result.attempts = 1
      /\ result.infra /\ result.status = INTERNAL_ERROR
  <2>1. cases[s][c] \in CaseRow /\ cases[s][c].attempts = 1
    BY <1>1, <1>2 DEF IInv, TypeOK, CaseHistory
  <2> QED
    BY <1>2, <2>1, MarkedCase
<1>4. IsTerminal(result.status) /\ "runner_outcome_unknown" \in FailureCode
  BY <1>3 DEF IsTerminal, INTERNAL_ERROR, ACCEPTED, FailureCode
<1> HIDE DEF result
<1>5. /\ RowInv' /\ Forward
      /\ sub' \in [Submission -> SubmissionRow]
      /\ cases' \in [Submission -> [Case -> CaseRow]]
      /\ counted' \in [Submission -> Nat]
      /\ IsTerminal(cases'[s][c].status)
  BY <1>1, <1>2, <1>3, <1>4, StoreResultRows DEF sandbox
<1>6. pc' = [pc EXCEPT ![w] = "next"]
  BY <1>1, <1>2 DEF IInv, TypeOK
<1>7. WorkerInv' /\ cursor' \in [Worker -> 1..(NumCases + 1)]
  BY <1>1, <1>2, <1>5, <1>6, AdvanceWorkers DEF sandbox, Processing
<1>8. TypeOK'
  BY <1>2, <1>5, <1>7 DEF IInv, TypeOK, sandbox, bounds
<1> QED
  BY <1>5, <1>7, <1>8 DEF IInv, RowInv, WorkerInv

LEMMA StoreReportStep ==
  ASSUME IInv, NEW w \in Worker, StoreReport(w)
  PROVE  IInv' /\ Forward
<1> DEFINE s == job[w]
           c == cursor[w]
           result == SettledCase(w)
           code == FailureOf(w)
<1>1. /\ pc[w] = "save" /\ ~IsTerminal(cases[s][c].status)
      /\ StoreResult(s, c, result, code)
      /\ pc' = [pc EXCEPT ![w] = "next"]
      /\ cursor' = [cursor EXCEPT ![w] = cursor[w] + 1]
      /\ attempt' = [attempt EXCEPT ![w] = 0]
      /\ report' = [report EXCEPT ![w] = UNKNOWN]
      /\ UNCHANGED <<claim_owner, claim_age, job, pending, poll_age, run_age, sandbox, bounds>>
  BY DEF StoreReport, Fenced, At
<1>2. /\ s \in Submission
      /\ \A d \in Case : d < c => IsTerminal(cases[s][d].status)
  BY <1>1 DEF IInv, WorkerAtCase, Processing
<1>3. /\ c \in Case /\ cases[s][c].dispatched
      /\ report[w] # UNKNOWN => runs[s][c] = 1 /\ observed[s][c] = report[w]
  BY <1>1 DEF IInv, FlightIsOwn, InFlight
<1>4. cases[s][c] \in CaseRow /\ cases[s][c].attempts = 1 /\ report[w] \in {UNKNOWN} \cup SandboxCodes
  BY <1>2, <1>3 DEF IInv, TypeOK, CaseHistory
<1>5. /\ result \in CaseRow /\ result.dispatched /\ result.attempts = 1
      /\ IsTerminal(result.status)
      /\ result.infra <=> result.status = INTERNAL_ERROR
      /\ ~result.infra => report[w] # UNKNOWN /\ result.status = report[w]
  <2>1. CASE report[w] = UNKNOWN
    <3>1. result = MarkInfrastructureFailure(cases[s][c])
      BY <2>1 DEF SettledCase, At
    <3> QED
      BY <1>3, <1>4, <2>1, <3>1, MarkedCase
  <2>2. CASE report[w] # UNKNOWN
    <3>1. report[w] \in TerminalIds /\ IsTerminal(report[w])
      BY <1>4, <2>2, CodesTerminal
    <3>2. result = [cases[s][c] EXCEPT !.status = report[w],
                                       !.infra = (report[w] = INTERNAL_ERROR)]
      BY <1>1, <2>2 DEF SettledCase, UpdateCaseResult, At
    <3>3. result \in CaseRow
      BY <1>4, <3>1, <3>2 DEF CaseRow
    <3>4. /\ result.dispatched = cases[s][c].dispatched
          /\ result.attempts = cases[s][c].attempts
          /\ result.status = report[w]
          /\ result.infra = (report[w] = INTERNAL_ERROR)
      BY <1>4, <3>2 DEF CaseRow
    <3> QED
      BY <1>3, <1>4, <2>2, <3>1, <3>3, <3>4
  <2> QED
    BY <2>1, <2>2
<1>6. code \in FailureCode \cup {NONE} /\ (code # NONE => result.infra)
  <2>1. CASE report[w] = UNKNOWN
    <3>1. result = MarkInfrastructureFailure(cases[s][c]) /\ code = "runner_outcome_unknown"
      BY <2>1 DEF SettledCase, FailureOf, At
    <3> QED
      BY <1>4, <3>1, MarkedCase DEF FailureCode
  <2>2. CASE report[w] # UNKNOWN
    BY <2>2 DEF FailureOf, FailureCode
  <2> QED
    BY <2>1, <2>2
<1> HIDE DEF result, code
<1>7. /\ RowInv' /\ Forward
      /\ sub' \in [Submission -> SubmissionRow]
      /\ cases' \in [Submission -> [Case -> CaseRow]]
      /\ counted' \in [Submission -> Nat]
      /\ IsTerminal(cases'[s][c].status)
  <2>1. ~result.infra => runs[s][c] = 1 /\ result.status = observed[s][c]
    BY <1>3, <1>5
  <2> QED
    BY <1>1, <1>2, <1>3, <1>5, <1>6, <2>1, StoreResultRows DEF sandbox
<1>8. \A v \in Worker \ {w} : attempt'[v] = attempt[v] /\ report'[v] = report[v]
  BY <1>1 DEF IInv, TypeOK
<1>9. WorkerInv' /\ cursor' \in [Worker -> 1..(NumCases + 1)]
  BY <1>1, <1>3, <1>7, <1>8, AdvanceWorkers DEF sandbox, Processing
<1>10. TypeOK'
  BY <1>1, <1>7, <1>9 DEF IInv, TypeOK, PC, sandbox, bounds
<1> QED
  BY <1>7, <1>9, <1>10 DEF IInv, RowInv, WorkerInv

-----------------------------------------------------------------------------
(* The theorems.                                                           *)

LEMMA NextIInv == IInv /\ [Next]_vars => IInv' /\ Forward
<1> SUFFICES ASSUME IInv, [Next]_vars PROVE IInv' /\ Forward
  OBVIOUS
<1>1. ASSUME NEW s \in Submission, Submit(s) PROVE IInv' /\ Forward
  BY <1>1, SubmitStep
<1>2. ASSUME NEW w \in Worker, ClaimSubmission(w) PROVE IInv' /\ Forward
  <2>1. CASE Poll(w)
    BY <2>1, PollStep
  <2>2. CASE NoCandidate(w)
    BY <2>2, IdleStep DEF NoCandidate, bounds, IInv, TypeOK
  <2>3. ASSUME NEW s \in Submission, SkipCandidate(w, s) PROVE IInv' /\ Forward
    BY <2>3, SkipCandidateStep
  <2>4. ASSUME NEW s \in Submission, Claim(w, s) PROVE IInv' /\ Forward
    BY <2>4, ClaimStep
  <2> QED
    BY <1>2, <2>1, <2>2, <2>3, <2>4 DEF ClaimSubmission
<1>3. ASSUME NEW w \in Worker, ProcessSubmission(w) PROVE IInv' /\ Forward
  <2>1. CASE LoseClaim(w)
    BY <2>1, IdleStep DEF LoseClaim, bounds, IInv, TypeOK
  <2>2. CASE SkipSettledCase(w)
    BY <2>2, SkipSettledCaseStep
  <2>3. CASE MarkUnknown(w)
    BY <2>3, MarkUnknownStep
  <2>4. CASE Dispatch(w)
    BY <2>4, DispatchStep
  <2>5. CASE Execute(w)
    BY <2>5, ExecuteStep
  <2>6. CASE ExecuteUnknown(w)
    BY <2>6, ExecuteUnknownStep
  <2>7. CASE DropReport(w)
    BY <2>7, IdleStep DEF DropReport, bounds, IInv, TypeOK
  <2>8. CASE StoreReport(w)
    BY <2>8, StoreReportStep
  <2>9. CASE Release(w)
    BY <2>9, ReleaseStep
  <2> QED
    BY <1>3, <2>1, <2>2, <2>3, <2>4, <2>5, <2>6, <2>7, <2>8, <2>9 DEF ProcessSubmission
<1>4. ASSUME NEW w \in Worker, Crash(w) PROVE IInv' /\ Forward
  BY <1>4, CrashStep
<1>5. ASSUME NEW w \in Worker, Restart(w) PROVE IInv' /\ Forward
  BY <1>5, RestartStep
<1>6. CASE Tick
  BY <1>6, TickStep
<1>7. CASE UNCHANGED vars
  <2>1. UNCHANGED <<rows, local, sandbox, bounds>>
    BY <1>7 DEF vars
  <2>2. RowInv' /\ Forward
    BY <2>1, IInvParts, RowsUnchanged DEF rows, sandbox
  <2>3. TypeOK'
    BY <2>1 DEF IInv, TypeOK, rows, local, sandbox, bounds
  <2>4. WorkerInv'
    BY <2>1 DEF IInv, WorkerInv, WorkerAtCase, FlightIsOwn, FlightsDiffer, Processing,
      InFlight, rows, local, sandbox
  <2> QED
    BY <2>2, <2>3, <2>4 DEF IInv, RowInv, WorkerInv
<1> QED
  BY <1>1, <1>2, <1>3, <1>4, <1>5, <1>6, <1>7 DEF Next, WorkerStep

\* The inductive invariant holds throughout.
THEOREM Invariance == Spec => []IInv
<1>1. IInv /\ [Next]_vars => IInv'
  BY NextIInv
<1> QED
  BY InitIInv, <1>1, PTL DEF Spec

\* The rows, the workers' locals and the observer's counters keep their types.
THEOREM TypeCorrect == Spec => []TypeOK
<1>1. IInv => TypeOK
  BY DEF IInv
<1> QED
  BY Invariance, <1>1, PTL

\* However many workers crash, stall or take over each other's claims, the
\* sandbox runs a case at most once.
THEOREM RunsOnce == Spec => []AtMostOnce
<1>1. IInv => AtMostOnce
  BY DEF IInv
<1> QED
  BY Invariance, <1>1, PTL

\* A stored grade is the code the sandbox reported for that case.
THEOREM StoresWhatRan == Spec => []GradesAreObserved
<1>1. IInv => GradesAreObserved
  BY DEF IInv
<1> QED
  BY Invariance, <1>1, PTL

\* A submission has the verdict its settled cases call for, and none before.
THEOREM VerdictCorrect == Spec => []VerdictMatchesCases
<1>1. IInv => VerdictMatchesCases
  BY DEF IInv
<1> QED
  BY Invariance, <1>1, PTL

\* The student's progress counts a graded submission exactly once.
THEOREM CountsOnce == Spec => []CountedOnce
<1>1. IInv => CountedOnce
  BY DEF IInv
<1> QED
  BY Invariance, <1>1, PTL

\* The cases of a submission are dispatched in order, one at a time.
THEOREM OneAtATime == Spec => []OneOpenCase
<1>1. IInv => OneOpenCase
  BY DEF IInv
<1> QED
  BY Invariance, <1>1, PTL

-----------------------------------------------------------------------------
(* Who may change a row.                                                   *)

\* Either no case row changes, or a worker that holds the claim of an open
\* submission changes the rows of that submission.
WriteByOwner ==
  \/ UNCHANGED <<sub, cases, counted>>
  \/ \E s \in Submission : Submit(s)
  \/ \E w \in Worker :
       /\ job[w] \in Submission
       /\ Owns(w)
       /\ sub[job[w]].status \notin TerminalStatus
       /\ pc'[w] # pc[w] \/ cursor'[w] # cursor[w]
       /\ \A t \in Submission \ {job[w]} :
            sub'[t] = sub[t] /\ cases'[t] = cases[t] /\ counted'[t] = counted[t]

LEMMA StoreResultWrites ==
  ASSUME TypeOK, NEW s \in Submission, NEW c, NEW result, NEW code,
         StoreResult(s, c, result, code)
  PROVE  \A t \in Submission \ {s} :
           sub'[t] = sub[t] /\ cases'[t] = cases[t] /\ counted'[t] = counted[t]
<1>1. \A t \in Submission \ {s} : cases'[t] = cases[t]
  BY DEF TypeOK, StoreResult
<1>2. \A t \in Submission \ {s} : sub'[t] = sub[t] /\ counted'[t] = counted[t]
  BY DEF TypeOK, StoreResult, FinalizeRow
<1> QED
  BY <1>1, <1>2

LEMMA StepWrites == IInv /\ [Next]_vars => WriteByOwner
<1> SUFFICES ASSUME IInv, [Next]_vars PROVE WriteByOwner
  OBVIOUS
<1>1. ASSUME NEW s \in Submission, Submit(s) PROVE WriteByOwner
  BY <1>1 DEF WriteByOwner
<1>2. ASSUME NEW w \in Worker, ClaimSubmission(w) PROVE WriteByOwner
  BY <1>2 DEF ClaimSubmission, Poll, NoCandidate, SkipCandidate, Claim, rows, WriteByOwner
<1>3. ASSUME NEW w \in Worker, ProcessSubmission(w) PROVE WriteByOwner
  <2>1. CASE LoseClaim(w) \/ SkipSettledCase(w) \/ Execute(w) \/ ExecuteUnknown(w) \/ DropReport(w)
    BY <2>1 DEF LoseClaim, SkipSettledCase, Execute, ExecuteUnknown, DropReport, rows,
      WriteByOwner
  <2>2. CASE MarkUnknown(w)
    <3>1. job[w] \in Submission /\ sub[job[w]].status \notin TerminalStatus /\ Owns(w)
      BY <2>2, AtOpenCase DEF MarkUnknown, AtCase
    <3>2. cursor'[w] = cursor[w] + 1 /\ cursor[w] \in Nat
      BY <2>2 DEF MarkUnknown, IInv, TypeOK
    <3>3. StoreResult(job[w], cursor[w], MarkInfrastructureFailure(At(w)), "runner_outcome_unknown")
      BY <2>2 DEF MarkUnknown
    <3>4. \A t \in Submission \ {job[w]} :
            sub'[t] = sub[t] /\ cases'[t] = cases[t] /\ counted'[t] = counted[t]
      BY <3>1, <3>3, StoreResultWrites DEF IInv
    <3>5. cursor'[w] # cursor[w]
      BY <3>2
    <3> QED
      BY <3>1, <3>4, <3>5 DEF WriteByOwner
  <2>3. CASE Dispatch(w)
    <3>1. job[w] \in Submission /\ sub[job[w]].status \notin TerminalStatus /\ Owns(w)
      BY <2>3, AtOpenCase DEF Dispatch, AtCase
    <3>2. pc'[w] = "executing" /\ pc[w] = "next" /\ UNCHANGED <<sub, counted>>
      BY <2>3, AtOpenCase DEF Dispatch, IInv, TypeOK
    <3>3. cases' = [cases EXCEPT ![job[w]][cursor[w]] = Dispatched(At(w))]
      BY <2>3 DEF Dispatch
    <3>4. \A t \in Submission \ {job[w]} : cases'[t] = cases[t]
      BY <3>3 DEF IInv, TypeOK
    <3> QED
      BY <3>1, <3>2, <3>4 DEF WriteByOwner
  <2>4. CASE StoreReport(w)
    <3>1. pc[w] = "save" /\ pc'[w] = "next" /\ Owns(w)
          /\ StoreResult(job[w], cursor[w], SettledCase(w), FailureOf(w))
          /\ ~IsTerminal(cases[job[w]][cursor[w]].status)
      BY <2>4 DEF StoreReport, Fenced, At, IInv, TypeOK
    <3>2. job[w] \in Submission /\ cursor[w] \in Case
      BY <3>1 DEF IInv, WorkerAtCase, FlightIsOwn, Processing, InFlight
    <3>3. sub[job[w]].status \notin TerminalStatus
      BY <3>1, <3>2, OpenCaseOpenSubmission DEF IInv
    <3>4. \A t \in Submission \ {job[w]} :
            sub'[t] = sub[t] /\ cases'[t] = cases[t] /\ counted'[t] = counted[t]
      BY <3>1, <3>2, StoreResultWrites DEF IInv
    <3> QED
      BY <3>1, <3>2, <3>3, <3>4 DEF WriteByOwner
  <2>5. CASE Release(w)
    BY <2>5, ReleaseStep DEF WriteByOwner
  <2> QED
    BY <1>3, <2>1, <2>2, <2>3, <2>4, <2>5 DEF ProcessSubmission
<1>4. ASSUME NEW w \in Worker, Crash(w) \/ Restart(w) PROVE WriteByOwner
  BY <1>4 DEF Crash, Restart, rows, WriteByOwner
<1>5. CASE Tick \/ UNCHANGED vars
  BY <1>5 DEF Tick, vars, rows, WriteByOwner
<1> QED
  BY <1>1, <1>2, <1>3, <1>4, <1>5 DEF Next, WorkerStep

\* A verdict is final: no later step changes the submission, its cases or its
\* place in the student's progress.
THEOREM VerdictIsFinal == Spec => VerdictFinal
<1> DEFINE Final == \A s \in Submission : sub[s].status \in TerminalStatus =>
                      sub'[s] = sub[s] /\ cases'[s] = cases[s] /\ counted'[s] = counted[s]
<1>1. ASSUME IInv, [Next]_vars PROVE Final
  <2> SUFFICES ASSUME NEW s \in Submission, sub[s].status \in TerminalStatus
               PROVE  sub'[s] = sub[s] /\ cases'[s] = cases[s] /\ counted'[s] = counted[s]
    OBVIOUS
  <2>1. WriteByOwner
    BY <1>1, StepWrites
  <2>2. ASSUME NEW t \in Submission, Submit(t)
        PROVE  sub'[s] = sub[s] /\ cases'[s] = cases[s] /\ counted'[s] = counted[s]
    <3>1. s # t
      BY <2>2, StatusSetsDisjoint DEF Submit
    <3>2. sub' = [sub EXCEPT ![t] = NewSubmission] /\ UNCHANGED <<cases, counted>>
      BY <2>2 DEF Submit
    <3> QED
      BY <1>1, <3>1, <3>2 DEF IInv, TypeOK
  <2> QED
    BY <2>1, <2>2 DEF WriteByOwner
<1>2. IInv /\ [Next]_vars => [Final]_vars
  BY <1>1
<1> QED
  BY Invariance, <1>2, PTL DEF Spec, VerdictFinal

\* Only the process that holds the claim of a submission changes its case rows.
THEOREM OwnerWrites == Spec => OnlyOwnerWrites
<1> DEFINE Owned == \A s \in Submission : cases'[s] # cases[s] =>
                      \E w \in Worker : /\ claim_owner[s] = w
                                        /\ job[w] = s
                                        /\ pc'[w] # pc[w] \/ cursor'[w] # cursor[w]
<1>1. ASSUME IInv, [Next]_vars PROVE Owned
  <2>1. WriteByOwner
    BY <1>1, StepWrites
  <2>2. \A t \in Submission : Submit(t) => UNCHANGED cases
    BY DEF Submit
  <2> QED
    BY <2>1, <2>2 DEF WriteByOwner, Owns
<1>2. IInv /\ [Next]_vars => [Owned]_vars
  BY <1>1
<1> QED
  BY Invariance, <1>2, PTL DEF Spec, OnlyOwnerWrites

-----------------------------------------------------------------------------
(* The lease of a worker that keeps time.                                  *)

\* While no worker has stalled, the claim of a submission in work is held by the
\* worker that works on it, and is as young as the lease allows; during a call
\* of the sandbox it is no older than the call.
LeaseInv ==
  stalls = 0 => \A w \in Worker : Processing(w) =>
    /\ Owns(w)
    /\ claim_age[job[w]] \in 0..LEASE
    /\ pc[w] = "executing" => claim_age[job[w]] <= run_age[w]

\* Steps that touch no claim and start no work.
LEMMA QuietLease ==
  ASSUME LeaseInv, UNCHANGED <<claim_owner, claim_age, stalls>>,
         \A v \in Worker : Processing(v)' =>
           /\ Processing(v)
           /\ job'[v] = job[v]
           /\ pc'[v] = "executing" => pc[v] = "executing" /\ run_age'[v] = run_age[v]
  PROVE  LeaseInv'
BY DEF LeaseInv, Owns

LEMMA ClaimLease ==
  ASSUME IInv, LeaseInv, NEW w \in Worker, NEW s \in Submission, Claim(w, s)
  PROVE  LeaseInv'
<1> SUFFICES ASSUME stalls = 0, NEW v \in Worker, Processing(v)'
             PROVE  /\ Owns(v)'
                    /\ claim_age'[job'[v]] \in 0..LEASE
                    /\ pc'[v] = "executing" => claim_age'[job'[v]] <= run_age'[v]
  BY DEF LeaseInv, Claim, bounds
<1>1. /\ claim_owner' = [claim_owner EXCEPT ![s] = w]
      /\ claim_age' = [claim_age EXCEPT ![s] = poll_age[w]]
      /\ pc' = [pc EXCEPT ![w] = "next"] /\ job' = [job EXCEPT ![w] = s]
      /\ UNCHANGED run_age
  BY DEF Claim
<1>2. poll_age[w] \in 0..MaxPollAge
  BY DEF IInv, TypeOK
<1>3. claim_age[s] \notin 0..LEASE
  <2>1. claim_age[s] = NoAge \/ claim_age[s] - poll_age[w] > LEASE
    BY DEF Claim, Taken, Expired
  <2>2. claim_age[s] \in 0..OldAge \cup {NoAge}
    BY DEF IInv, TypeOK
  <2> QED
    BY <1>2, <2>1, <2>2 DEF NoAge, OldAge
<1>4. CASE v = w
  <2>1. claim_owner'[s] = w /\ claim_age'[s] = poll_age[w] /\ job'[w] = s /\ pc'[w] = "next"
    BY <1>1 DEF IInv, TypeOK
  <2> QED
    BY <1>2, <1>4, <2>1 DEF Owns
<1>5. CASE v # w
  <2>1. pc'[v] = pc[v] /\ job'[v] = job[v]
    BY <1>1, <1>5 DEF IInv, TypeOK
  <2>2. Processing(v) /\ job[v] \in Submission
    BY <2>1 DEF IInv, WorkerAtCase, Processing
  <2>3. /\ Owns(v) /\ claim_age[job[v]] \in 0..LEASE
        /\ pc[v] = "executing" => claim_age[job[v]] <= run_age[v]
    BY <2>2 DEF LeaseInv
  <2>4. job[v] # s
    BY <1>3, <2>3
  <2>5. claim_owner'[job[v]] = claim_owner[job[v]] /\ claim_age'[job[v]] = claim_age[job[v]]
    BY <1>1, <2>2, <2>4 DEF IInv, TypeOK
  <2> QED
    BY <1>1, <2>1, <2>3, <2>5 DEF Owns
<1> QED
  BY <1>4, <1>5

\* The other workers that hold a claim hold another one.
LEMMA OtherClaims ==
  ASSUME LeaseInv, stalls = 0, NEW w \in Worker, Owns(w),
         NEW v \in Worker, v # w, Processing(v)
  PROVE  job[v] # job[w]
BY DEF LeaseInv, Owns

LEMMA DispatchLease ==
  ASSUME IInv, LeaseInv, NEW w \in Worker, Dispatch(w)
  PROVE  LeaseInv'
<1> SUFFICES ASSUME stalls = 0, NEW v \in Worker, Processing(v)'
             PROVE  /\ Owns(v)'
                    /\ claim_age'[job'[v]] \in 0..LEASE
                    /\ pc'[v] = "executing" => claim_age'[job'[v]] <= run_age'[v]
  BY DEF LeaseInv, Dispatch, bounds
<1>1. /\ claim_age' = [claim_age EXCEPT ![job[w]] = 0]
      /\ pc' = [pc EXCEPT ![w] = "executing"] /\ pc[w] = "next"
      /\ UNCHANGED <<job, claim_owner, run_age>> /\ Owns(w)
  BY DEF Dispatch, LeaseRenewed, AtCase
<1>2. Processing(v) /\ job[v] \in Submission
  BY <1>1 DEF IInv, TypeOK, WorkerAtCase, Processing
<1>3. /\ Owns(v) /\ claim_age[job[v]] \in 0..LEASE
      /\ pc[v] = "executing" => claim_age[job[v]] <= run_age[v]
  BY <1>2 DEF LeaseInv
<1>4. CASE v = w
  <2>1. claim_age'[job[v]] = 0 /\ run_age[v] \in Nat
    BY <1>1, <1>2, <1>4 DEF IInv, TypeOK
  <2> QED
    BY <1>1, <1>3, <2>1 DEF Owns
<1>5. CASE v # w
  <2>1. pc'[v] = pc[v] /\ claim_age'[job[v]] = claim_age[job[v]]
    <3>1. job[v] # job[w]
      BY <1>1, <1>2, <1>5, OtherClaims
    <3>2. claim_age'[job[v]] = claim_age[job[v]]
      BY <1>1, <1>2, <3>1 DEF IInv, TypeOK
    <3>3. pc'[v] = pc[v]
      BY <1>1, <1>5 DEF IInv, TypeOK
    <3> QED
      BY <3>2, <3>3
  <2> QED
    BY <1>1, <1>3, <2>1 DEF Owns
<1> QED
  BY <1>4, <1>5

LEMMA ReleaseLease ==
  ASSUME IInv, LeaseInv, NEW w \in Worker, Release(w)
  PROVE  LeaseInv'
<1> SUFFICES ASSUME stalls = 0, NEW v \in Worker, Processing(v)'
             PROVE  /\ Owns(v)'
                    /\ claim_age'[job'[v]] \in 0..LEASE
                    /\ pc'[v] = "executing" => claim_age'[job'[v]] <= run_age'[v]
  BY DEF LeaseInv, Release, bounds
<1>1. /\ v # w /\ pc'[v] = pc[v] /\ job'[v] = job[v] /\ run_age'[v] = run_age[v]
  BY DEF Release, GoesIdle, IInv, TypeOK, Processing
<1>2. Processing(v) /\ job[v] \in Submission
  BY <1>1 DEF IInv, WorkerAtCase, Processing
<1>3. /\ Owns(v) /\ claim_age[job[v]] \in 0..LEASE
      /\ pc[v] = "executing" => claim_age[job[v]] <= run_age[v]
  BY <1>2 DEF LeaseInv
<1>4. claim_owner'[job[v]] = claim_owner[job[v]] /\ claim_age'[job[v]] = claim_age[job[v]]
  <2>1. CASE Owns(w)
    <3>1. job[v] # job[w]
      BY <1>1, <1>2, <2>1, OtherClaims
    <3>2. /\ claim_owner' = [claim_owner EXCEPT ![job[w]] = NoWorker]
          /\ claim_age' = [claim_age EXCEPT ![job[w]] = NoAge]
      BY <2>1 DEF Release
    <3> QED
      BY <1>2, <3>1, <3>2 DEF IInv, TypeOK
  <2>2. CASE ~Owns(w)
    BY <2>2 DEF Release, rows
  <2> QED
    BY <2>1, <2>2
<1> QED
  BY <1>1, <1>3, <1>4 DEF Owns

\* A tick that stalls nobody finds every busy worker in a call that has time
\* left, and the claim ages with the call.
LEMMA TickLease ==
  ASSUME IInv, LeaseInv, Tick
  PROVE  LeaseInv'
<1> SUFFICES ASSUME stalls' = 0, NEW v \in Worker, Processing(v)'
             PROVE  /\ Owns(v)'
                    /\ claim_age'[job'[v]] \in 0..LEASE
                    /\ pc'[v] = "executing" => claim_age'[job'[v]] <= run_age'[v]
  BY DEF LeaseInv
<1>1. UNCHANGED <<pc, job, claim_owner>> /\ stalls' = stalls + Cardinality(Stalled)
  BY DEF Tick
<1>2. stalls = 0 /\ Stalled = {}
  <2>1. IsFiniteSet(Stalled)
    <3>1. Stalled \in SUBSET Worker
      BY DEF Stalled
    <3> QED
      BY <3>1, FS_Subset
  <2>2. Cardinality(Stalled) \in Nat
    BY <2>1, FS_CardinalityType
  <2>3. stalls = 0 /\ Cardinality(Stalled) = 0
    BY <1>1, <2>2 DEF IInv, TypeOK
  <2> QED
    BY <2>1, <2>3, FS_EmptySet
<1>3. Processing(v) /\ job[v] \in Submission
  BY <1>1 DEF IInv, WorkerAtCase, Processing
<1>4. pc[v] = "executing" /\ run_age[v] # RUN_LIMIT /\ run_age[v] \in 0..RUN_LIMIT
  BY <1>2, <1>3 DEF Stalled, IInv, TypeOK
<1>5. Owns(v) /\ claim_age[job[v]] \in 0..LEASE /\ claim_age[job[v]] <= run_age[v]
  BY <1>2, <1>3, <1>4 DEF LeaseInv
<1>6. run_age'[v] = run_age[v] + 1
  <2>1. run_age[v] < RUN_LIMIT
    BY <1>4
  <2> QED
    BY <1>4, <2>1 DEF Tick
<1>7. claim_age'[job[v]] = claim_age[job[v]] + 1
  <2>1. claim_age[job[v]] \notin {NoAge, OldAge}
    BY <1>5 DEF NoAge, OldAge
  <2> QED
    BY <1>3, <2>1 DEF Tick
<1>8. Owns(v)'
  BY <1>1, <1>5 DEF Owns
<1> QED
  BY <1>1, <1>4, <1>5, <1>6, <1>7, <1>8

LEMMA NextLease == IInv /\ LeaseInv /\ [Next]_vars => LeaseInv'
<1> SUFFICES ASSUME IInv, LeaseInv, [Next]_vars PROVE LeaseInv'
  OBVIOUS
<1>1. ASSUME NEW s \in Submission, Submit(s) PROVE LeaseInv'
  BY <1>1, QuietLease DEF Submit, local, bounds, Processing
<1>2. ASSUME NEW w \in Worker, ClaimSubmission(w) PROVE LeaseInv'
  <2>1. CASE Poll(w)
    BY <2>1, QuietLease DEF Poll, rows, bounds, Processing, IInv, TypeOK
  <2>2. CASE NoCandidate(w)
    BY <2>2, QuietLease DEF NoCandidate, GoesIdle, rows, bounds, Processing, IInv, TypeOK
  <2>3. ASSUME NEW s \in Submission, SkipCandidate(w, s) PROVE LeaseInv'
    BY <2>3, QuietLease DEF SkipCandidate, rows, bounds, Processing
  <2>4. ASSUME NEW s \in Submission, Claim(w, s) PROVE LeaseInv'
    BY <2>4, ClaimLease
  <2> QED
    BY <1>2, <2>1, <2>2, <2>3, <2>4 DEF ClaimSubmission
<1>3. ASSUME NEW w \in Worker, ProcessSubmission(w) PROVE LeaseInv'
  <2>1. CASE LoseClaim(w)
    BY <2>1, QuietLease DEF LoseClaim, GoesIdle, rows, bounds, Processing, IInv, TypeOK
  <2>2. CASE SkipSettledCase(w)
    BY <2>2, QuietLease DEF SkipSettledCase, rows, bounds, Processing
  <2>3. CASE MarkUnknown(w)
    BY <2>3, QuietLease DEF MarkUnknown, bounds, Processing
  <2>4. CASE Dispatch(w)
    BY <2>4, DispatchLease
  <2>5. CASE Execute(w)
    BY <2>5, QuietLease DEF Execute, rows, bounds, Processing, IInv, TypeOK
  <2>6. CASE ExecuteUnknown(w)
    BY <2>6, QuietLease DEF ExecuteUnknown, rows, bounds, Processing, IInv, TypeOK
  <2>7. CASE DropReport(w)
    BY <2>7, QuietLease DEF DropReport, GoesIdle, rows, bounds, Processing, IInv, TypeOK
  <2>8. CASE StoreReport(w)
    BY <2>8, QuietLease DEF StoreReport, bounds, Processing, IInv, TypeOK
  <2>9. CASE Release(w)
    BY <2>9, ReleaseLease
  <2> QED
    BY <1>3, <2>1, <2>2, <2>3, <2>4, <2>5, <2>6, <2>7, <2>8, <2>9 DEF ProcessSubmission
<1>4. ASSUME NEW w \in Worker, Crash(w) PROVE LeaseInv'
  BY <1>4, QuietLease DEF Crash, GoesIdle, rows, Processing, IInv, TypeOK
<1>5. ASSUME NEW w \in Worker, Restart(w) PROVE LeaseInv'
  BY <1>5, QuietLease DEF Restart, rows, bounds, Processing, IInv, TypeOK
<1>6. CASE Tick
  BY <1>6, TickLease
<1>7. CASE UNCHANGED vars
  BY <1>7, QuietLease DEF vars, rows, local, bounds, Processing
<1> QED
  BY <1>1, <1>2, <1>3, <1>4, <1>5, <1>6, <1>7 DEF Next, WorkerStep

\* While no worker stalls, a worker that processes a submission holds its claim,
\* for any lease that outlives a call of the sandbox and a poll of the queue.
THEOREM KeepsClaim == Spec => []PromptWorkerKeepsClaim
<1>1. Init => LeaseInv
  BY DEF Init, LeaseInv, Processing
<1>2. LeaseInv => PromptWorkerKeepsClaim
  BY DEF LeaseInv, PromptWorkerKeepsClaim
<1> QED
  BY Invariance, <1>1, <1>2, NextLease, PTL DEF Spec

-----------------------------------------------------------------------------
(* The queue implements AtMostOnceGrading.  IInv determines the abstract   *)
(* verdict of a submission from its case rows, so a step is translated from*)
(* what it does to these rows and to the sandbox.                          *)

\* The abstract verdict is the judgement of the settled results.
Judged == [s \in Submission |-> IF AllTerminal(cases[s])
                                 THEN Grading!Judge(resultBar[s]) ELSE Open]

LEMMA VerdictIsJudgement == IInv => verdictBar = Judged
<1> SUFFICES ASSUME IInv, NEW s \in Submission
             PROVE  VerdictOf(sub[s]) = IF AllTerminal(cases[s])
                                        THEN Grading!Judge(resultBar[s]) ELSE Open
  BY DEF verdictBar, Judged
<1> DEFINE f == resultBar[s]
<1>1. DOMAIN cases[s] = Case /\ sub[s] \in SubmissionRow
  BY DEF IInv, TypeOK
<1>2. CASE ~AllTerminal(cases[s])
  <2>1. sub[s].status \notin TerminalStatus
    BY <1>2 DEF IInv, VerdictMatchesCases
  <2> QED
    BY <1>2, <2>1, StatusSetsDisjoint DEF VerdictOf
<1>3. CASE AllTerminal(cases[s])
  <2>1. \A c \in Case : f[c] = IF cases[s][c].infra THEN INTERNAL_ERROR ELSE cases[s][c].status
    BY <1>1, <1>3 DEF resultBar, ResultOf, AllTerminal
  <2>2. \A c \in Case : cases[s][c].infra <=> cases[s][c].status = INTERNAL_ERROR
    BY DEF IInv, CaseHistory
  <2>3. sub[s].status \in TerminalStatus
    BY <1>3 DEF IInv, VerdictMatchesCases
  <2>4. AnyInfra(cases[s]) <=> \E c \in Case : f[c] = INTERNAL_ERROR
    BY <1>1, <2>1, <2>2 DEF AnyInfra
  <2>5. CASE AnyInfra(cases[s])
    <3>1. sub[s].status = "infrastructure_error"
      BY <2>3, <2>5 DEF IInv, VerdictMatchesCases, TerminalStatus
    <3>2. VerdictOf(sub[s]) = Void
      BY <3>1, StatusSetsDisjoint DEF VerdictOf
    <3>3. Grading!Judge(f) = Void
      BY <2>4, <2>5 DEF Grading!Judge
    <3> QED
      BY <1>3, <3>2, <3>3
  <2>6. CASE ~AnyInfra(cases[s])
    <3>1. sub[s].status \in GradedStatus
      BY <2>3, <2>6 DEF IInv, VerdictMatchesCases, TerminalStatus
    <3>2. VerdictOf(sub[s]) = Cardinality({c \in Case : observed[s][c] = ACCEPTED})
      BY <3>1 DEF VerdictOf, IInv, VerdictMatchesCases
    <3>3. \A c \in Case : f[c] = observed[s][c]
      BY <1>1, <1>3, <2>1, <2>6 DEF IInv, GradesAreObserved, AllTerminal, AnyInfra
    <3> HIDE DEF f
    <3>4. Grading!Judge(f) = Cardinality({c \in Case : f[c] = ACCEPTED})
      BY <2>4, <2>6 DEF Grading!Judge, Grading!Cardinality, Cardinality
    <3>5. {c \in Case : f[c] = ACCEPTED} = {c \in Case : observed[s][c] = ACCEPTED}
      BY <3>3
    <3> QED
      BY <1>3, <3>2, <3>4, <3>5 DEF f
  <2> QED
    BY <2>5, <2>6
<1> QED
  BY <1>2, <1>3

\* What the queue has promised does not see claims, workers and the clock.
LEMMA InvisibleStep ==
  ASSUME UNCHANGED <<sub, cases, runs, observed>>
  PROVE  UNCHANGED Grading!gvars
BY DEF Grading!gvars, handedIn, phaseBar, resultBar, verdictBar

LEMMA SubmitRefines ==
  ASSUME IInv, NEW s \in Submission, Submit(s)
  PROVE  Grading!HandIn(s)
<1>1. /\ sub[s].status = "absent" /\ sub' = [sub EXCEPT ![s] = NewSubmission]
      /\ UNCHANGED <<cases, runs, observed>>
  BY DEF Submit, sandbox
<1>2. sub'[s] = NewSubmission /\ \A t \in Submission \ {s} : sub'[t] = sub[t]
  BY <1>1 DEF IInv, TypeOK
<1>3. s \notin handedIn /\ handedIn' = handedIn \cup {s}
  BY <1>1, <1>2 DEF handedIn, NewSubmission
<1>4. VerdictOf(sub[s]) = Open /\ VerdictOf(NewSubmission) = Open
  BY <1>1 DEF VerdictOf, GradedStatus, NewSubmission
<1>5. verdictBar' = verdictBar
  BY <1>2, <1>4 DEF verdictBar
<1>6. UNCHANGED <<phaseBar, resultBar>>
  BY <1>1 DEF phaseBar, resultBar
<1> QED
  BY <1>1, <1>3, <1>5, <1>6 DEF Grading!HandIn

\* A step that changes one case row, seen through the mapping.
LEMMA OneCaseSeen ==
  ASSUME NEW s \in Submission, NEW c \in Case, NEW p, NEW r,
         PhaseOf(cases'[s][c]) = p, ResultOf(cases'[s][c]) = r,
         \A t \in Submission, d \in Case : (t # s \/ d # c) => cases'[t][d] = cases[t][d]
  PROVE  /\ phaseBar' = [phaseBar EXCEPT ![s][c] = p]
         /\ resultBar' = [resultBar EXCEPT ![s][c] = r]
<1>2. \A t \in Submission, d \in Case :
        /\ phaseBar'[t][d] = IF t = s /\ d = c THEN p ELSE phaseBar[t][d]
        /\ resultBar'[t][d] = IF t = s /\ d = c THEN r ELSE resultBar[t][d]
  BY DEF phaseBar, resultBar
<1>3. \A bar \in {phaseBar, phaseBar', resultBar, resultBar'} :
        bar = [t \in Submission |-> [d \in Case |-> bar[t][d]]]
  BY DEF phaseBar, resultBar
<1>4. phaseBar' = [phaseBar EXCEPT ![s][c] = p]
  BY <1>2, <1>3
<1>5. resultBar' = [resultBar EXCEPT ![s][c] = r]
  BY <1>2, <1>3
<1> QED
  BY <1>4, <1>5

LEMMA DispatchRefines ==
  ASSUME IInv, NEW w \in Worker, Dispatch(w)
  PROVE  Grading!Begin(job[w], cursor[w])
<1> DEFINE s == job[w]
           c == cursor[w]
<1>1. /\ s \in Submission /\ c \in Case /\ sub[s].status \in ActiveStatus
      /\ ~IsTerminal(cases[s][c].status)
  BY AtOpenCase DEF Dispatch
<1>2. /\ ~cases[s][c].dispatched
      /\ cases' = [cases EXCEPT ![s] = [cases[s] EXCEPT ![c] = Dispatched(cases[s][c])]]
      /\ UNCHANGED <<sub, runs, observed>>
  BY DEF Dispatch, At, sandbox
<1>3. PhaseOf(Dispatched(cases[s][c])) = "begun" /\ ResultOf(Dispatched(cases[s][c])) = NoStatus
  <2>1. cases[s][c] \in CaseRow
    BY <1>1 DEF IInv, TypeOK
  <2>2. Dispatched(cases[s][c]).status = PROCESSING /\ Dispatched(cases[s][c]).dispatched
    BY <2>1 DEF Dispatched, CaseRow
  <2> QED
    BY <2>2 DEF PhaseOf, ResultOf, IsTerminal, PROCESSING, ACCEPTED
<1>4. phaseBar[s][c] = "waiting" /\ resultBar[s][c] = NoStatus
  BY <1>1, <1>2 DEF phaseBar, resultBar, PhaseOf, ResultOf
<1>5. /\ phaseBar' = [phaseBar EXCEPT ![s][c] = "begun"]
      /\ resultBar' = [resultBar EXCEPT ![s][c] = NoStatus]
  <2>1. /\ cases'[s][c] = Dispatched(cases[s][c])
        /\ \A t \in Submission, d \in Case : (t # s \/ d # c) => cases'[t][d] = cases[t][d]
    BY <1>1, <1>2 DEF IInv, TypeOK
  <2> QED
    BY <1>1, <1>3, <2>1, OneCaseSeen
<1>6. resultBar' = resultBar
  <2>1. resultBar[s] = [resultBar[s] EXCEPT ![c] = NoStatus]
    BY <1>1, <1>4 DEF resultBar
  <2>2. resultBar = [resultBar EXCEPT ![s] = resultBar[s]]
    BY DEF resultBar
  <2> QED
    BY <1>5, <2>1, <2>2
<1>7. s \in handedIn /\ UNCHANGED <<handedIn, verdictBar>>
  BY <1>1, <1>2, StatusSetsDisjoint DEF handedIn, verdictBar
<1> QED
  BY <1>1, <1>2, <1>4, <1>5, <1>6, <1>7 DEF Grading!Begin

LEMMA RunRefines ==
  ASSUME IInv, NEW w \in Worker, pc[w] = "executing", NEW code \in SandboxCodes,
         SandboxRuns(w, code), UNCHANGED <<sub, cases>>
  PROVE  /\ job[w] \in Submission /\ cursor[w] \in Case
         /\ Grading!Run(job[w], cursor[w], code)
<1> DEFINE s == job[w]
           c == cursor[w]
<1>1. s \in Submission /\ c \in Case /\ cases[s][c].dispatched /\ runs[s][c] = 0
  BY DEF IInv, WorkerAtCase, FlightIsOwn, Processing, InFlight
<1>2. phaseBar[s][c] # "waiting"
  BY <1>1 DEF phaseBar, PhaseOf
<1>3. runs' = [runs EXCEPT ![s][c] = 1] /\ observed' = [observed EXCEPT ![s][c] = code]
  BY <1>1 DEF SandboxRuns
<1>4. UNCHANGED <<handedIn, phaseBar, resultBar, verdictBar>>
  BY DEF handedIn, phaseBar, resultBar, verdictBar
<1> QED
  BY <1>1, <1>2, <1>3, <1>4 DEF Grading!Run

LEMMA MayRunRefines ==
  ASSUME IInv, NEW w \in Worker, pc[w] = "executing", MayRun(w), UNCHANGED <<sub, cases>>
  PROVE  [Grading!GNext]_(Grading!gvars)
<1>1. CASE UNCHANGED sandbox
  BY <1>1, InvisibleStep DEF sandbox
<1>2. ASSUME NEW code \in SandboxCodes, SandboxRuns(w, code)
      PROVE  Grading!GNext
  BY <1>2, RunRefines DEF Grading!GNext
<1> QED
  BY <1>1, <1>2 DEF MayRun

\* The result stored for a dispatched case settles it, and with it, if it is
\* the last one, the submission.
LEMMA StoreResultRefines ==
  ASSUME IInv, IInv', NEW s \in Submission, NEW c \in Case, NEW result, NEW code,
         cases[s][c].dispatched, ~IsTerminal(cases[s][c].status),
         IsTerminal(result.status),
         StoreResult(s, c, result, code), UNCHANGED <<runs, observed>>
  PROVE  Grading!GNext
<1> DEFINE r == ResultOf(result)
<1>1. cases' = [cases EXCEPT ![s] = [cases[s] EXCEPT ![c] = result]]
  BY DEF StoreResult
<1>2. /\ cases'[s][c] = result
      /\ \A t \in Submission, d \in Case : (t # s \/ d # c) => cases'[t][d] = cases[t][d]
  BY <1>1 DEF IInv, TypeOK
<1>3. phaseBar[s][c] = "begun"
  BY DEF phaseBar, PhaseOf
<1>4. /\ phaseBar' = [phaseBar EXCEPT ![s][c] = "settled"]
      /\ resultBar' = [resultBar EXCEPT ![s][c] = r]
  <2>1. PhaseOf(result) = "settled"
    BY DEF PhaseOf
  <2> QED
    BY <1>2, <2>1, OneCaseSeen
<1>5. r \in SandboxCodes \cup {INTERNAL_ERROR} /\ (r # INTERNAL_ERROR => runs[s][c] = 1 /\ r = observed[s][c])
  <2>1. CASE result.infra
    BY <2>1 DEF ResultOf
  <2>2. CASE ~result.infra
    <3>1. r = result.status /\ runs[s][c] = 1 /\ r = observed[s][c]
      BY <1>2, <2>2 DEF ResultOf, IInv, GradesAreObserved
    <3>2. r \in SandboxCodes
      BY <3>1, CodesTerminal DEF IInv, TypeOK, IsTerminal, NoStatus, ACCEPTED
    <3> QED
      BY <3>1, <3>2
  <2> QED
    BY <2>1, <2>2
<1>6. verdictBar' = [verdictBar EXCEPT ![s] =
        IF \A d \in Case \ {c} : phaseBar[s][d] = "settled"
        THEN Grading!Judge([resultBar[s] EXCEPT ![c] = r]) ELSE Open]
  <2>1. verdictBar' = [t \in Submission |-> IF AllTerminal(cases'[t])
                                            THEN Grading!Judge(resultBar'[t]) ELSE Open]
    <3>1. IInv' => (verdictBar = Judged)'
      BY VerdictIsJudgement, PTL
    <3> QED
      BY <3>1 DEF Judged
  <2>2. verdictBar = [t \in Submission |-> IF AllTerminal(cases[t])
                                           THEN Grading!Judge(resultBar[t]) ELSE Open]
    BY VerdictIsJudgement DEF Judged
  <2>3. \A t \in Submission \ {s} : cases'[t] = cases[t] /\ resultBar'[t] = resultBar[t]
    BY <1>1 DEF IInv, TypeOK, resultBar
  <2>4. resultBar'[s] = [resultBar[s] EXCEPT ![c] = r]
    BY <1>4 DEF resultBar
  <2>5. AllTerminal(cases'[s]) <=> \A d \in Case \ {c} : phaseBar[s][d] = "settled"
    <3>1. DOMAIN cases'[s] = Case
      BY <1>1 DEF IInv, TypeOK
    <3>2. \A d \in Case : IsTerminal(cases[s][d].status) <=> phaseBar[s][d] = "settled"
      BY DEF phaseBar, PhaseOf
    <3> QED
      BY <1>2, <3>1, <3>2 DEF AllTerminal
  <2> QED
    BY <2>1, <2>2, <2>3, <2>4, <2>5
<1>7. handedIn' = handedIn
  <2>1. \A t \in Submission \ {s} : sub'[t] = sub[t]
    BY DEF IInv, TypeOK, StoreResult, FinalizeRow
  <2>2. sub[s].status # "absent"
    BY DEF IInv, RowHistory
  <2>3. sub'[s].status # "absent"
    BY <1>2 DEF IInv, RowHistory, CaseHistory, NewCase, IsTerminal, NoStatus, ACCEPTED
  <2> QED
    BY <2>1, <2>2, <2>3 DEF handedIn
<1>8. Grading!Settle(s, c, r)
  BY <1>3, <1>4, <1>5, <1>6, <1>7 DEF Grading!Settle
<1> QED
  BY <1>5, <1>8 DEF Grading!GNext, Grading!Advance

LEMMA StepRefines == IInv /\ IInv' /\ [Next]_vars => [Grading!GNext]_(Grading!gvars)
<1> SUFFICES ASSUME IInv, IInv', [Next]_vars
             PROVE  [Grading!GNext]_(Grading!gvars)
  OBVIOUS
<1>1. ASSUME NEW s \in Submission, Submit(s) PROVE Grading!GNext
  BY <1>1, SubmitRefines DEF Grading!GNext
<1>2. ASSUME NEW w \in Worker, ClaimSubmission(w) PROVE UNCHANGED Grading!gvars
  BY <1>2, InvisibleStep DEF ClaimSubmission, Poll, NoCandidate, SkipCandidate, Claim, rows, sandbox
<1>3. ASSUME NEW w \in Worker, ProcessSubmission(w) PROVE [Grading!GNext]_(Grading!gvars)
  <2>1. CASE LoseClaim(w) \/ SkipSettledCase(w) \/ DropReport(w)
    BY <2>1, InvisibleStep DEF LoseClaim, SkipSettledCase, DropReport, rows, sandbox
  <2>2. CASE MarkUnknown(w)
    <3>1. job[w] \in Submission /\ cursor[w] \in Case /\ ~IsTerminal(At(w).status) /\ At(w).dispatched
      BY <2>2, AtOpenCase DEF MarkUnknown, At
    <3>2. IsTerminal(MarkInfrastructureFailure(At(w)).status)
      BY <3>1, MarkedCase DEF IInv, TypeOK, At
    <3> QED
      BY <2>2, <3>1, <3>2, StoreResultRefines DEF MarkUnknown, At, sandbox
  <2>3. CASE Dispatch(w)
    <3>1. job[w] \in Submission /\ cursor[w] \in Case
      BY <2>3, AtOpenCase DEF Dispatch
    <3> QED
      BY <2>3, <3>1, DispatchRefines DEF Grading!GNext, Grading!Advance
  <2>4. CASE Execute(w)
    BY <2>4, RunRefines DEF Execute, Grading!GNext, rows
  <2>5. CASE ExecuteUnknown(w)
    BY <2>5, MayRunRefines DEF ExecuteUnknown, rows
  <2>6. CASE StoreReport(w)
    <3>1. pc[w] = "save" /\ ~IsTerminal(At(w).status)
      BY <2>6 DEF StoreReport, Fenced
    <3>2. job[w] \in Submission /\ cursor[w] \in Case /\ At(w).dispatched
      BY <3>1 DEF IInv, WorkerAtCase, FlightIsOwn, Processing, InFlight, At
    <3>3. IsTerminal(SettledCase(w).status)
      <4>1. At(w) \in CaseRow /\ report[w] \in {UNKNOWN} \cup SandboxCodes
        BY <3>2 DEF IInv, TypeOK, At
      <4>2. CASE report[w] = UNKNOWN
        BY <4>1, <4>2, MarkedCase DEF SettledCase
      <4>3. CASE report[w] # UNKNOWN
        BY <3>1, <4>1, <4>3, CodesTerminal DEF SettledCase, UpdateCaseResult, CaseRow
      <4> QED
        BY <4>2, <4>3
    <3> QED
      BY <2>6, <3>1, <3>2, <3>3, StoreResultRefines DEF StoreReport, At, sandbox
  <2>7. CASE Release(w)
    BY <2>7, ReleaseStep, InvisibleStep DEF Release, sandbox
  <2> QED
    BY <1>3, <2>1, <2>2, <2>3, <2>4, <2>5, <2>6, <2>7 DEF ProcessSubmission
<1>4. ASSUME NEW w \in Worker, Crash(w) PROVE [Grading!GNext]_(Grading!gvars)
  <2>1. UNCHANGED <<sub, cases>>
    BY <1>4 DEF Crash, rows
  <2>2. CASE pc[w] = "executing"
    BY <1>4, <2>1, <2>2, MayRunRefines DEF Crash
  <2>3. CASE pc[w] # "executing"
    BY <1>4, <2>1, <2>3, InvisibleStep DEF Crash, sandbox
  <2> QED
    BY <2>2, <2>3
<1>5. ASSUME NEW w \in Worker, Restart(w) PROVE UNCHANGED Grading!gvars
  BY <1>5, InvisibleStep DEF Restart, rows, sandbox
<1>6. CASE Tick \/ UNCHANGED vars
  BY <1>6, InvisibleStep DEF Tick, vars, rows, sandbox
<1> QED
  BY <1>1, <1>2, <1>3, <1>4, <1>5, <1>6 DEF Next, WorkerStep

LEMMA InitRefines == Init => Grading!GInit
<1> SUFFICES ASSUME Init PROVE Grading!GInit
  OBVIOUS
<1>1. PhaseOf(NewCase) = "waiting" /\ ResultOf(NewCase) = NoStatus
  BY DEF PhaseOf, ResultOf, NewCase, IsTerminal, NoStatus, ACCEPTED
<1>2. Absent.status = "absent" /\ VerdictOf(Absent) = Open
  BY DEF Absent, NewSubmission, VerdictOf, GradedStatus
<1> QED
  BY <1>1, <1>2 DEF Init, Grading!GInit, handedIn, phaseBar, resultBar, verdictBar

\* The safety part of GradingPromise: whatever the workers, the crashes and the
\* clock do, the rows and the sandbox show a behaviour of AtMostOnceGrading.
THEOREM QueueImplementsGrading == Spec => Grading!GSafety
<1>1. IInv /\ IInv' /\ [Next]_vars => [Grading!GNext]_(Grading!gvars)
  BY StepRefines
<1> QED
  BY Invariance, InitRefines, <1>1, PTL DEF Spec, Grading!GSafety
=============================================================================
