--------------------------- MODULE ComplexityQueue ---------------------------
(***************************************************************************)
(* The queue of advisory complexity estimates.  A worker claims a row,     *)
(* asks the model outside any transaction, and stores what it said.        *)
(*                                                                         *)
(* Nothing checks, when the answer is stored, that the claim is still held *)
(* and the row is not read again: the session still has the instance the   *)
(* claim loaded, decides from its attempt_count, and writes only the       *)
(* attributes that differ from what it loaded.                             *)
(***************************************************************************)
EXTENDS Integers, FiniteSets

CONSTANTS
  Worker,       \* complexity workers
  Submission,   \* submissions that are not practice runs
  Label,        \* COMPLEXITY_LABELS
  MaxAttempts,  \* BIG_O_ANALYSIS_MAX_ATTEMPTS
  MaxCrashes,   \* bound: crashes of workers
  MaxStalls     \* bound: leases outlasted by a worker that is alive

ASSUME ComplexityAssumption ==
  /\ MaxAttempts \in Nat \ {0} /\ MaxCrashes \in Nat /\ MaxStalls \in Nat
  /\ "none" \notin Label

VARIABLES
  rows,       \* submission_complexity_analyses
  graded,     \* submissions with completed_at
  oversized,  \* submissions whose code exceeds MAX_CODE_BYTES
  task,       \* what a worker is doing, or Idle
  crashes, stalls,
  answer,     \* history: what the model last said of a submission
  takeovers   \* history: claims of a row that another worker had claimed

vars == <<rows, graded, oversized, task, crashes, stalls, answer, takeovers>>

Idle == [step |-> "idle"]
Unasked == [time |-> "none", space |-> "none"]
Absent == [status |-> "absent", attempts |-> 0, lease |-> "none", due |-> TRUE,
           error |-> "none", estimate |-> Unasked]

Init ==
  /\ rows = [s \in Submission |-> Absent]
  /\ graded = {}
  /\ oversized \in SUBSET Submission
  /\ task = [w \in Worker |-> Idle]
  /\ crashes = 0 /\ stalls = 0
  /\ answer = [s \in Submission |-> Unasked]
  /\ takeovers = [s \in Submission |-> 0]

\* queue_submission_analysis, when the submission is created.
QueueAnalysis(s) ==
  /\ rows[s].status = "absent"
  /\ rows' = [rows EXCEPT ![s].status = "queued"]
  /\ UNCHANGED <<graded, oversized, task, crashes, stalls, answer, takeovers>>

\* The grading of the submission ends (SubmissionWorker).
CompleteSubmission(s) ==
  /\ rows[s].status # "absent" /\ s \notin graded
  /\ graded' = graded \cup {s}
  /\ UNCHANGED <<rows, oversized, task, crashes, stalls, answer, takeovers>>

-----------------------------------------------------------------------------
\* Mutant: only failed analyses are left out.
NotFailed(s) ==
  s \in graded /\ rows[s].due /\ rows[s].status \in {"queued", "processing", "complete"}
    /\ (rows[s].status = "processing" => rows[s].lease = "expired")

\* Mutant: an abandoned claim stays processing.
QueuedOnly(s) == s \in graded /\ rows[s].due /\ rows[s].status = "queued"

\* The rows claim_analysis selects; it does not look at the attempts.
Claimable(s) ==
  /\ s \in graded
  /\ \/ rows[s].status = "queued"
     \/ rows[s].status = "processing" /\ rows[s].lease = "expired"
  /\ rows[s].due

ClaimAnalysis(w) ==
  \E s \in Submission :
    /\ task[w] = Idle /\ Claimable(s)
    /\ rows' = [rows EXCEPT ![s].status = "processing", ![s].lease = "held",
                            ![s].attempts = @ + 1]
    /\ task' = [task EXCEPT ![w] =
         [step |-> "ask", sub |-> s, loaded |-> rows'[s]]]
    /\ takeovers' = [takeovers EXCEPT ![s] =
         IF rows[s].status = "processing" THEN @ + 1 ELSE @]
    /\ UNCHANGED <<graded, oversized, crashes, stalls, answer>>

\* classify_code: an estimate, or the code of a ComplexityError.
Ask(w) ==
  /\ task[w].step = "ask"
  /\ \E error \in IF task[w].sub \in oversized THEN {"code_too_large"}
                  ELSE {"none", "service_error"},
        time \in Label, space \in Label :
       /\ task' = [task EXCEPT ![w] =
            [step |-> "store", sub |-> task[w].sub, loaded |-> task[w].loaded,
             error |-> error,
             estimate |-> IF error = "none" THEN [time |-> time, space |-> space]
                          ELSE Unasked]]
       /\ answer' = IF error = "none"
                    THEN [answer EXCEPT ![task[w].sub] = [time |-> time, space |-> space]]
                    ELSE answer
  /\ UNCHANGED <<rows, graded, oversized, crashes, stalls, takeovers>>

\* An UPDATE sets the attributes that differ from what the session loaded.
Flushed(loaded, new, current) == IF new = loaded THEN current ELSE new

\* Mutant: an error code that was stored before is left in place.
ErrorKept(row, mine) ==
  [row EXCEPT !.status = "complete",
     !.estimate = [time |-> Flushed(mine.loaded.estimate.time, mine.estimate.time, @.time),
                   space |-> Flushed(mine.loaded.estimate.space, mine.estimate.space, @.space)]]

Succeeded(row, mine) ==
  [row EXCEPT !.status = "complete",
     !.error = Flushed(mine.loaded.error, "none", @),
     !.estimate = [time |-> Flushed(mine.loaded.estimate.time, mine.estimate.time, @.time),
                   space |-> Flushed(mine.loaded.estimate.space, mine.estimate.space, @.space)]]

\* The attempt_count compared is that of the worker's own claim.
MayRetry(mine) ==
  mine.error # "code_too_large" /\ mine.loaded.attempts < MaxAttempts

Failed(row, mine) ==
  LET noted == [row EXCEPT !.error = Flushed(mine.loaded.error, mine.error, @)]
  IN  IF MayRetry(mine) THEN [noted EXCEPT !.status = "queued", !.due = FALSE]
      ELSE [noted EXCEPT !.status = "failed"]

Store(w) ==
  /\ task[w].step = "store"
  /\ rows' = [rows EXCEPT ![task[w].sub] =
       IF task[w].error = "none" THEN Succeeded(@, task[w]) ELSE Failed(@, task[w])]
  /\ task' = [task EXCEPT ![w] = Idle]
  /\ UNCHANGED <<graded, oversized, crashes, stalls, answer, takeovers>>

-----------------------------------------------------------------------------
Crash(w) ==
  /\ task[w] # Idle /\ crashes < MaxCrashes
  /\ task' = [task EXCEPT ![w] = Idle]
  /\ crashes' = crashes + 1
  /\ UNCHANGED <<rows, graded, oversized, stalls, answer, takeovers>>

BackoffEnds(s) ==
  /\ ~rows[s].due
  /\ rows' = [rows EXCEPT ![s].due = TRUE]
  /\ UNCHANGED <<graded, oversized, task, crashes, stalls, answer, takeovers>>

\* The newest claim of the row is that of the worker.
Owns(w, s) ==
  task[w] # Idle /\ task[w].sub = s /\ task[w].loaded.attempts = rows[s].attempts
Abandoned(s) == ~\E w \in Worker : Owns(w, s)

\* The timeout of the model call is per read, so a call can outlast the lease.
LeaseExpires(s) ==
  /\ rows[s].status = "processing" /\ rows[s].lease = "held"
  /\ rows' = [rows EXCEPT ![s].lease = "expired"]
  /\ \/ Abandoned(s) /\ UNCHANGED stalls
     \/ ~Abandoned(s) /\ stalls < MaxStalls /\ stalls' = stalls + 1
  /\ UNCHANGED <<graded, oversized, task, crashes, answer, takeovers>>

Next ==
  \/ \E s \in Submission :
       QueueAnalysis(s) \/ CompleteSubmission(s) \/ BackoffEnds(s) \/ LeaseExpires(s)
  \/ \E w \in Worker : ClaimAnalysis(w) \/ Ask(w) \/ Store(w) \/ Crash(w)

\* The main loop of a worker claims again and again, a call ends, time passes.
Fairness ==
  /\ \A w \in Worker : WF_vars(ClaimAnalysis(w)) /\ WF_vars(Ask(w) \/ Store(w))
  /\ \A s \in Submission : WF_vars(BackoffEnds(s)) /\ WF_vars(LeaseExpires(s))

Spec == Init /\ [][Next]_vars /\ Fairness

-----------------------------------------------------------------------------
(* Properties.                                                             *)

Status == {"absent", "queued", "processing", "complete", "failed"}
ErrorCode == {"none", "service_error", "code_too_large"}
Estimate == [time : Label \cup {"none"}, space : Label \cup {"none"}]
Analysis == [status : Status, attempts : Nat, lease : {"none", "held", "expired"},
             due : BOOLEAN, error : ErrorCode, estimate : Estimate]
Task == {Idle}
  \cup [step : {"ask"}, sub : Submission, loaded : Analysis]
  \cup [step : {"store"}, sub : Submission, loaded : Analysis, error : ErrorCode,
        estimate : Estimate]

TypeOK ==
  /\ rows \in [Submission -> Analysis]
  /\ graded \subseteq Submission /\ oversized \subseteq Submission
  /\ task \in [Worker -> Task]
  /\ crashes \in 0..MaxCrashes /\ stalls \in 0..MaxStalls
  /\ answer \in [Submission -> Estimate]
  /\ takeovers \in [Submission -> Nat]

\* A finished analysis is reopened, failed or estimated anew only when a claim
\* of it was taken over: two workers, one beyond its lease, answer in any order.
FinishedStays ==
  [][\A s \in Submission :
       /\ rows[s].status \in {"complete", "failed"}
       /\ rows'[s] # rows[s]
       => takeovers[s] > 0]_vars

\* While no claim is taken over, a complete analysis shows the two labels of one
\* answer, the last, and no error of an earlier attempt.
CompleteIsTheAnswer ==
  \A s \in Submission :
    rows[s].status = "complete" /\ takeovers[s] = 0 =>
      rows[s].estimate = answer[s] /\ rows[s].error = "none"

\* The analysis of a graded submission ends, whatever the model answers and
\* wherever workers crash.
EveryAnalysisEnds ==
  \A s \in Submission :
    s \in graded ~> rows[s].status \in {"complete", "failed"}
=============================================================================
