------------------------- MODULE SubmissionWorker -------------------------
(***************************************************************************)
(* The submission queue and the worker processes that drain it.            *)
(*                                                                         *)
(* Workers share nothing but the database.  Each transaction of a worker   *)
(* locks the submission and its case rows (_load_submission) before it     *)
(* reads them, so a transaction is one action; between two transactions a  *)
(* worker holds only its local variables, and any other worker, a stall    *)
(* longer than the lease or a crash may come in between.  The sandbox runs *)
(* outside every transaction.                                              *)
(*                                                                         *)
(* Time is kept as ages, in ticks: claim_age is the time since claimed_at, *)
(* poll_age the time since claim_submission read the clock, run_age the    *)
(* time the call of the sandbox has taken.  A database transaction takes   *)
(* no tick and a call of the sandbox at most RUN_LIMIT of them, unless the *)
(* worker stalls.                                                          *)
(***************************************************************************)
EXTENDS Verdict

CONSTANTS
  Worker,         \* worker processes (claim owners)
  NumSubmissions, \* submissions the students hand in; ids are 1..NumSubmissions
  NumCases,       \* test cases of every submission, in case_order
  Practice,       \* the submissions that are practice runs
  SandboxCodes,   \* the codes the sandbox reports in this instance
  LEASE,          \* ticks in WORKER_LEASE_SECONDS
  RUN_LIMIT,      \* ticks in the time limit of a call of the sandbox
  MaxPollAge,     \* bound: ticks a worker may spend inside claim_submission
  MaxCrashes,     \* bound: crashes of workers
  MaxStalls       \* bound: ticks a worker stalls beyond the time a step takes

Submission == 1..NumSubmissions
Case == 1..NumCases
NoWorker == "no worker"
NoAge == -1

ASSUME WorkerAssumption ==
  /\ IsFiniteSet(Worker)
  /\ NoWorker \notin Worker
  /\ NumSubmissions \in Nat
  /\ NumCases \in Nat \ {0}
  /\ Practice \subseteq Submission
  /\ SandboxCodes \subseteq GradeCodes
  /\ LEASE \in Nat
  /\ RUN_LIMIT \in 0..LEASE   \* config.py: GO_JUDGE_WALL_SECONDS < the lease - 20
  /\ MaxPollAge \in 0..LEASE
  /\ MaxCrashes \in Nat
  /\ MaxStalls \in Nat

VARIABLES
  \* the database
  sub,          \* submission rows
  cases,        \* case rows of each submission
  claim_owner,  \* who holds the claim of a submission
  claim_age,    \* age of claimed_at, or NoAge for NULL
  counted,      \* how often finalize_progress counted the submission
  \* the worker processes
  pc, job, cursor, attempt, report, pending, poll_age, run_age,
  \* the sandbox, as an observer sees it
  runs,         \* how often the sandbox ran a case
  observed,     \* the code of its last run
  \* bounds
  crashes, stalls

rows == <<sub, cases, claim_owner, claim_age, counted>>
local == <<pc, job, cursor, attempt, report, pending, poll_age, run_age>>
sandbox == <<runs, observed>>
bounds == <<crashes, stalls>>
vars == <<rows, local, sandbox, bounds>>

\* A submission the student has not handed in yet has no row.
Absent == [NewSubmission EXCEPT !.status = "absent"]
UNKNOWN == 0  \* go_judge.OutcomeUnknown: no report

Init ==
  /\ sub = [s \in Submission |-> Absent]
  /\ cases = [s \in Submission |-> [c \in Case |-> NewCase]]
  /\ claim_owner = [s \in Submission |-> NoWorker]
  /\ claim_age = [s \in Submission |-> NoAge]
  /\ counted = [s \in Submission |-> 0]
  /\ pc = [w \in Worker |-> "idle"]
  /\ job = [w \in Worker |-> 0]
  /\ cursor = [w \in Worker |-> 1]
  /\ attempt = [w \in Worker |-> 0]
  /\ report = [w \in Worker |-> UNKNOWN]
  /\ pending = [w \in Worker |-> {}]
  /\ poll_age = [w \in Worker |-> 0]
  /\ run_age = [w \in Worker |-> 0]
  /\ runs = [s \in Submission |-> [c \in Case |-> 0]]
  /\ observed = [s \in Submission |-> [c \in Case |-> NoStatus]]
  /\ crashes = 0
  /\ stalls = 0

-----------------------------------------------------------------------------
(* Helpers.                                                                *)

\* The worker leaves process_submission or claim_submission and forgets.
GoesIdle(w, where) ==
  /\ pc' = [pc EXCEPT ![w] = where]
  /\ job' = [job EXCEPT ![w] = 0]
  /\ cursor' = [cursor EXCEPT ![w] = 1]
  /\ attempt' = [attempt EXCEPT ![w] = 0]
  /\ report' = [report EXCEPT ![w] = UNKNOWN]
  /\ pending' = [pending EXCEPT ![w] = {}]
  /\ poll_age' = [poll_age EXCEPT ![w] = 0]
  /\ run_age' = [run_age EXCEPT ![w] = 0]

\* _finalize_submission on the row of s, with the progress it counts.
FinalizeRow(s, row, results) ==
  /\ sub' = [sub EXCEPT ![s] = Finalize(row, results)]
  /\ counted' = [counted EXCEPT ![s] =
       IF Decides(row, results) /\ s \notin Practice THEN @ + 1 ELSE @]

\* A case result is stored, the failure code recorded, the verdict tried.
StoreResult(s, c, result, code) ==
  LET row == IF code = NONE THEN sub[s] ELSE [sub[s] EXCEPT !.failure_code = code]
      results == [cases[s] EXCEPT ![c] = result]
  IN  /\ cases' = [cases EXCEPT ![s] = results]
      /\ FinalizeRow(s, row, results)

Owns(w) == claim_owner[job[w]] = w

\* The worker is between the claim and the release of job[w].
Processing(w) == pc[w] \in {"next", "executing", "save"}

-----------------------------------------------------------------------------
(* The student's request (create_submission, run_public_cases) commits the *)
(* row with its case rows.                                                 *)

Submit(s) ==
  /\ sub[s].status = "absent"
  /\ sub' = [sub EXCEPT ![s] = NewSubmission]
  /\ UNCHANGED <<cases, claim_owner, claim_age, counted, local, sandbox, bounds>>

-----------------------------------------------------------------------------
(* claim_submission.                                                       *)

\* Mutant: a claim lasts for ever.
ExpiredNever(s, delay) == claim_age[s] = NoAge

\* claimed_at is NULL or older than the lease, seen from a clock read delay
\* ticks ago.
Expired(s, delay) == claim_age[s] = NoAge \/ claim_age[s] - delay > LEASE

Candidates == {s \in Submission : sub[s].status \in ActiveStatus /\ Expired(s, 0)}

\* The unlocked query for candidates.
Poll(w) ==
  /\ pc[w] = "idle"
  /\ Candidates # {}
  /\ pc' = [pc EXCEPT ![w] = "claiming"]
  /\ pending' = [pending EXCEPT ![w] = Candidates]
  /\ UNCHANGED <<rows, job, cursor, attempt, report, poll_age, run_age, sandbox, bounds>>

\* The candidates are tried in the order of their ids.
AtCandidate(w, s) ==
  /\ pc[w] = "claiming"
  /\ s \in pending[w]
  /\ \A t \in pending[w] : s <= t

\* The locked candidate was finished or claimed since the query.
Taken(w, s) == sub[s].status \in TerminalStatus \/ ~Expired(s, poll_age[w])

SkipCandidate(w, s) ==
  /\ AtCandidate(w, s)
  /\ Taken(w, s)
  /\ pending' = [pending EXCEPT ![w] = @ \ {s}]
  /\ UNCHANGED <<rows, pc, job, cursor, attempt, report, poll_age, run_age, sandbox, bounds>>

NoCandidate(w) ==
  /\ pc[w] = "claiming"
  /\ pending[w] = {}
  /\ GoesIdle(w, "idle")
  /\ UNCHANGED <<rows, sandbox, bounds>>

\* claimed_at is the clock as it was read before the query.
Claim(w, s) ==
  /\ AtCandidate(w, s)
  /\ ~Taken(w, s)
  /\ claim_owner' = [claim_owner EXCEPT ![s] = w]
  /\ claim_age' = [claim_age EXCEPT ![s] = poll_age[w]]
  /\ pc' = [pc EXCEPT ![w] = "next"]
  /\ job' = [job EXCEPT ![w] = s]
  /\ cursor' = [cursor EXCEPT ![w] = 1]
  /\ pending' = [pending EXCEPT ![w] = {}]
  /\ poll_age' = [poll_age EXCEPT ![w] = 0]
  /\ UNCHANGED <<sub, cases, counted, attempt, report, run_age, sandbox, bounds>>

-----------------------------------------------------------------------------
(* process_submission, one transaction at a time.                          *)

\* The case a worker is at, and its row.
At(w) == cases[job[w]][cursor[w]]

\* The load at the head of the loop finds another owner or a verdict.
LoseClaim(w) ==
  /\ pc[w] = "next"
  /\ cursor[w] \in Case
  /\ ~Owns(w) \/ sub[job[w]].status \in TerminalStatus
  /\ GoesIdle(w, "idle")
  /\ UNCHANGED <<rows, sandbox, bounds>>

\* The load succeeds: the worker holds the claim of an open submission.
AtCase(w) ==
  /\ pc[w] = "next"
  /\ cursor[w] \in Case
  /\ Owns(w)
  /\ sub[job[w]].status \notin TerminalStatus

SkipSettledCase(w) ==
  /\ AtCase(w)
  /\ IsTerminal(At(w).status)
  /\ cursor' = [cursor EXCEPT ![w] = @ + 1]
  /\ UNCHANGED <<rows, pc, job, attempt, report, pending, poll_age, run_age, sandbox, bounds>>

\* A previous owner recorded the dispatch and never stored a result.
MarkUnknown(w) ==
  /\ AtCase(w)
  /\ ~IsTerminal(At(w).status)
  /\ At(w).dispatched
  /\ StoreResult(job[w], cursor[w], MarkInfrastructureFailure(At(w)),
                 "runner_outcome_unknown")
  /\ cursor' = [cursor EXCEPT ![w] = @ + 1]
  /\ UNCHANGED <<claim_owner, claim_age, pc, job, attempt, report, pending,
                 poll_age, run_age, sandbox, bounds>>

\* Mutant: the dispatch leaves no durable mark.
DispatchedUnmarked(case) ==
  [case EXCEPT !.attempts = case.attempts + 1, !.status = PROCESSING]

Dispatched(case) ==
  [case EXCEPT !.dispatched = TRUE, !.attempts = case.attempts + 1,
               !.status = PROCESSING]

\* Mutant: the lease runs from the claim.
LeaseNotRenewed(s) == claim_age

\* claimed_at is set to the present.
LeaseRenewed(s) == [claim_age EXCEPT ![s] = 0]

\* The attempt is committed, and the lease renewed, before the sandbox is
\* called.  The attempt token is a fresh uuid; the count of the attempts at
\* this case identifies it among them.
Dispatch(w) ==
  /\ AtCase(w)
  /\ ~IsTerminal(At(w).status)
  /\ ~At(w).dispatched
  /\ cases' = [cases EXCEPT ![job[w]][cursor[w]] = Dispatched(At(w))]
  /\ attempt' = [attempt EXCEPT ![w] = At(w).attempts + 1]
  /\ claim_age' = LeaseRenewed(job[w])
  /\ pc' = [pc EXCEPT ![w] = "executing"]
  /\ UNCHANGED <<sub, claim_owner, counted, job, cursor, report, pending,
                 poll_age, run_age, sandbox, bounds>>

\* The sandbox runs the case of worker w and reports a code.
SandboxRuns(w, code) ==
  /\ runs' = [runs EXCEPT ![job[w]][cursor[w]] = @ + 1]
  /\ observed' = [observed EXCEPT ![job[w]][cursor[w]] = code]

\* go_judge.execute returns a report.
Execute(w) ==
  /\ pc[w] = "executing"
  /\ \E code \in SandboxCodes :
       /\ SandboxRuns(w, code)
       /\ report' = [report EXCEPT ![w] = code]
  /\ pc' = [pc EXCEPT ![w] = "save"]
  /\ run_age' = [run_age EXCEPT ![w] = 0]
  /\ UNCHANGED <<rows, job, cursor, attempt, pending, poll_age, bounds>>

\* The request fails before the run, or the report of the run is lost.
MayRun(w) == UNCHANGED sandbox \/ \E code \in SandboxCodes : SandboxRuns(w, code)

ExecuteUnknown(w) ==
  /\ pc[w] = "executing"
  /\ MayRun(w)
  /\ report' = [report EXCEPT ![w] = UNKNOWN]
  /\ pc' = [pc EXCEPT ![w] = "save"]
  /\ run_age' = [run_age EXCEPT ![w] = 0]
  /\ UNCHANGED <<rows, job, cursor, attempt, pending, poll_age, bounds>>

\* Mutant: the attempt token alone is checked.
FencedByToken(w) == At(w).attempts # attempt[w]

\* The claim, the attempt or the case is no longer this worker's to settle.
Fenced(w) ==
  \/ ~Owns(w)
  \/ At(w).attempts # attempt[w]
  \/ IsTerminal(At(w).status)

DropReport(w) ==
  /\ pc[w] = "save"
  /\ Fenced(w)
  /\ GoesIdle(w, "idle")
  /\ UNCHANGED <<rows, sandbox, bounds>>

\* Mutant: a lost report is graded as a wrong answer.
SettledWrong(w) ==
  UpdateCaseResult(At(w), IF report[w] = UNKNOWN THEN WRONG_ANSWER ELSE report[w])

SettledCase(w) ==
  IF report[w] = UNKNOWN THEN MarkInfrastructureFailure(At(w))
  ELSE UpdateCaseResult(At(w), report[w])

FailureOf(w) ==
  IF report[w] = UNKNOWN THEN "runner_outcome_unknown"
  ELSE IF SettledCase(w).infra THEN "runner_internal_error" ELSE NONE

StoreReport(w) ==
  /\ pc[w] = "save"
  /\ ~Fenced(w)
  /\ StoreResult(job[w], cursor[w], SettledCase(w), FailureOf(w))
  /\ pc' = [pc EXCEPT ![w] = "next"]
  /\ cursor' = [cursor EXCEPT ![w] = @ + 1]
  /\ attempt' = [attempt EXCEPT ![w] = 0]
  /\ report' = [report EXCEPT ![w] = UNKNOWN]
  /\ UNCHANGED <<claim_owner, claim_age, job, pending, poll_age, run_age, sandbox, bounds>>

\* After the last case: the claim is given back if it is still held.
Release(w) ==
  /\ pc[w] = "next"
  /\ cursor[w] \notin Case
  /\ IF Owns(w)
     THEN /\ FinalizeRow(job[w], sub[job[w]], cases[job[w]])
          /\ claim_owner' = [claim_owner EXCEPT ![job[w]] = NoWorker]
          /\ claim_age' = [claim_age EXCEPT ![job[w]] = NoAge]
          /\ UNCHANGED cases
     ELSE UNCHANGED rows
  /\ GoesIdle(w, "idle")
  /\ UNCHANGED <<sandbox, bounds>>

-----------------------------------------------------------------------------
(* Crashes, restarts and time.                                             *)

\* The process dies, or an exception unwinds process_submission: nothing
\* uncommitted survives.  A request already sent may still be run.
Crash(w) ==
  /\ pc[w] # "down"
  /\ crashes < MaxCrashes
  /\ crashes' = crashes + 1
  /\ IF pc[w] = "executing" THEN MayRun(w) ELSE UNCHANGED sandbox
  /\ GoesIdle(w, "down")
  /\ UNCHANGED <<rows, stalls>>

Restart(w) ==
  /\ pc[w] = "down"
  /\ pc' = [pc EXCEPT ![w] = "idle"]
  /\ UNCHANGED <<rows, job, cursor, attempt, report, pending, poll_age, run_age, sandbox, bounds>>

\* The live workers the next tick finds busy for longer than a step takes.
Stalled == {w \in Worker : /\ Processing(w)
                           /\ pc[w] = "executing" => run_age[w] = RUN_LIMIT}

\* An age no comparison tells from a greater one.
OldAge == LEASE + 1 + MaxPollAge

Tick ==
  /\ \A w \in Worker : pc[w] = "claiming" => poll_age[w] < MaxPollAge
  /\ stalls + Cardinality(Stalled) <= MaxStalls
  /\ stalls' = stalls + Cardinality(Stalled)
  /\ claim_age' = [s \in Submission |->
       IF claim_age[s] \in {NoAge, OldAge} THEN claim_age[s] ELSE claim_age[s] + 1]
  /\ poll_age' = [w \in Worker |->
       IF pc[w] = "claiming" THEN poll_age[w] + 1 ELSE poll_age[w]]
  /\ run_age' = [w \in Worker |->
       IF pc[w] = "executing" /\ run_age[w] < RUN_LIMIT
       THEN run_age[w] + 1 ELSE run_age[w]]
  /\ UNCHANGED <<sub, cases, claim_owner, counted, pc, job, cursor, attempt,
                 report, pending, sandbox, crashes>>

-----------------------------------------------------------------------------
(* The specification.                                                      *)

ClaimSubmission(w) ==
  \/ Poll(w)
  \/ NoCandidate(w)
  \/ \E s \in Submission : SkipCandidate(w, s) \/ Claim(w, s)

ProcessSubmission(w) ==
  \/ LoseClaim(w)
  \/ SkipSettledCase(w)
  \/ MarkUnknown(w)
  \/ Dispatch(w)
  \/ Execute(w)
  \/ ExecuteUnknown(w)
  \/ DropReport(w)
  \/ StoreReport(w)
  \/ Release(w)

WorkerStep(w) == ClaimSubmission(w) \/ ProcessSubmission(w)

Next ==
  \/ \E s \in Submission : Submit(s)
  \/ \E w \in Worker : WorkerStep(w)
  \/ \E w \in Worker : Crash(w)
  \/ \E w \in Worker : Restart(w)
  \/ Tick

Spec == Init /\ [][Next]_vars

\* A live worker keeps executing its loop, a dead one is restarted, and the
\* clock advances.
Fairness ==
  /\ \A w \in Worker : WF_vars(WorkerStep(w)) /\ WF_vars(Restart(w))
  /\ WF_vars(Tick)

FairSpec == Spec /\ Fairness

-----------------------------------------------------------------------------
(* Properties.                                                             *)

PC == {"idle", "claiming", "next", "executing", "save", "down"}

\* Type invariant: the rows, the workers' locals and the observer's counters.
TypeOK ==
  /\ sub \in [Submission -> SubmissionRow]
  /\ cases \in [Submission -> [Case -> CaseRow]]
  /\ claim_owner \in [Submission -> Worker \cup {NoWorker}]
  /\ claim_age \in [Submission -> 0..OldAge \cup {NoAge}]
  /\ counted \in [Submission -> Nat]
  /\ pc \in [Worker -> PC]
  /\ job \in [Worker -> 0..NumSubmissions]
  /\ cursor \in [Worker -> 1..(NumCases + 1)]
  /\ attempt \in [Worker -> Nat]
  /\ report \in [Worker -> {UNKNOWN} \cup SandboxCodes]
  /\ pending \in [Worker -> SUBSET Submission]
  /\ poll_age \in [Worker -> 0..MaxPollAge]
  /\ run_age \in [Worker -> 0..RUN_LIMIT]
  /\ runs \in [Submission -> [Case -> Nat]]
  /\ observed \in [Submission -> [Case -> {NoStatus} \cup SandboxCodes]]
  /\ crashes \in 0..MaxCrashes
  /\ stalls \in 0..MaxStalls

\* The sandbox never runs a case twice, whatever workers crash, stall past
\* their lease or take over each other's claims: the dispatch is committed
\* before the call, and a later owner does not repeat it.
AtMostOnce == \A s \in Submission, c \in Case : runs[s][c] <= 1

\* A case result that is not an infrastructure error is the code the sandbox
\* reported for that very case: neither a stale worker nor a recovery ever
\* stores a grade that was not observed.
GradesAreObserved ==
  \A s \in Submission, c \in Case :
    LET case == cases[s][c]
    IN  IsTerminal(case.status) /\ ~case.infra
        => runs[s][c] = 1 /\ case.status = observed[s][c]

\* A submission has a verdict exactly when all its cases are settled: no
\* interleaving of owners leaves a fully settled submission open, nor closes
\* one with a case still to run.  An infrastructure failure of any case takes
\* the whole grade away, and a graded submission carries no failure code left
\* behind by an earlier owner.
VerdictMatchesCases ==
  \A s \in Submission :
    /\ sub[s].status \in TerminalStatus <=> AllTerminal(cases[s])
    /\ sub[s].status = "infrastructure_error" => AnyInfra(cases[s])
    /\ sub[s].status \in GradedStatus =>
         /\ ~AnyInfra(cases[s])
         /\ sub[s].passed = Cardinality({c \in Case : observed[s][c] = ACCEPTED})
         /\ sub[s].failure_code = NONE

\* The student's progress counts a graded submission once, and an ungraded or
\* a practice one never, although several owners finalize the same row.
CountedOnce ==
  \A s \in Submission :
    counted[s] = IF sub[s].status \in GradedStatus /\ s \notin Practice
                 THEN 1 ELSE 0

\* The cases of a submission are dispatched in order, one at a time: while one
\* has no result, those before it are settled and those after it untouched.
OneOpenCase ==
  \A s \in Submission : \A c, d \in Case :
    c < d /\ ~IsTerminal(cases[s][c].status) => ~cases[s][d].dispatched

\* While no worker stalls, a worker that is processing a submission still holds
\* its claim: the lease outlives every call of the sandbox because each
\* dispatch renews it.
PromptWorkerKeepsClaim ==
  stalls = 0 => \A w \in Worker : Processing(w) => Owns(w)

\* What makes the safety properties inductive.
InFlight(w) == pc[w] \in {"executing", "save"}

\* A case nobody dispatched has never run and has no result; a dispatched case
\* has had one attempt; the results flagged infra are the internal errors.
CaseHistory ==
  \A s \in Submission, c \in Case :
    LET case == cases[s][c]
    IN  /\ ~case.dispatched => case = NewCase /\ runs[s][c] = 0
        /\ case.dispatched => case.attempts = 1 /\ case.status # NoStatus
        /\ case.infra <=> case.status = INTERNAL_ERROR

\* Workers process submissions that exist, and the cases a worker has passed
\* are settled.
WorkerAtCase ==
  \A w \in Worker :
    /\ pending[w] \subseteq {s \in Submission : sub[s].status # "absent"}
    /\ Processing(w) =>
         /\ job[w] \in Submission
         /\ sub[job[w]].status # "absent"
         /\ \A c \in Case : c < cursor[w] => IsTerminal(cases[job[w]][c].status)

\* A worker with a call in flight dispatched that case itself, at its only
\* attempt, and holds what the sandbox reported.
FlightIsOwn ==
  \A w \in Worker : InFlight(w) =>
    /\ cursor[w] \in Case
    /\ cases[job[w]][cursor[w]].dispatched
    /\ attempt[w] = 1
    /\ pc[w] = "executing" => runs[job[w]][cursor[w]] = 0
    /\ pc[w] = "save" /\ report[w] # UNKNOWN =>
         /\ runs[job[w]][cursor[w]] = 1
         /\ observed[job[w]][cursor[w]] = report[w]

\* No two workers have a call for the same case in flight.
FlightsDiffer ==
  \A v, w \in Worker : v # w /\ InFlight(v) /\ InFlight(w)
    => job[v] # job[w] \/ cursor[v] # cursor[w]

\* A submission without a row has untouched cases; a failure code is only
\* written together with an infrastructure failure of a case.
RowHistory ==
  \A s \in Submission :
    /\ sub[s].status = "absent" =>
         \A c \in Case : ~cases[s][c].dispatched
    /\ sub[s].failure_code # NONE => AnyInfra(cases[s])

\* The inductive invariant: no step of a worker, of a crash or of the clock
\* leaves it, and it implies the safety properties above.
IInv ==
  /\ TypeOK
  /\ CaseHistory
  /\ WorkerAtCase
  /\ FlightIsOwn
  /\ FlightsDiffer
  /\ RowHistory
  /\ AtMostOnce
  /\ GradesAreObserved
  /\ OneOpenCase
  /\ VerdictMatchesCases
  /\ CountedOnce

\* Case rows change only in a step of the process that holds the claim: what a
\* worker that lost its claim still has in flight reaches no row.
OnlyOwnerWrites ==
  [][\A s \in Submission : cases'[s] # cases[s] =>
       \E w \in Worker : /\ claim_owner[s] = w
                         /\ job[w] = s
                         /\ pc'[w] # pc[w] \/ cursor'[w] # cursor[w]]_vars

\* A verdict is final: neither the row nor a case of a finished submission
\* changes again.
VerdictFinal ==
  [][\A s \in Submission : sub[s].status \in TerminalStatus =>
       sub'[s] = sub[s] /\ cases'[s] = cases[s] /\ counted'[s] = counted[s]]_vars

\* Every submission handed in gets a verdict, after any bounded number of
\* crashes and stalls.
EverySubmissionEnds ==
  \A s \in Submission :
    sub[s].status \in ActiveStatus ~> sub[s].status \in TerminalStatus
=============================================================================
