----------------------------- MODULE EmailJobs -----------------------------
(***************************************************************************)
(* The e-mail queue: the rows of email_jobs, the workers that drain it and *)
(* the provider they call.                                                 *)
(*                                                                         *)
(* A worker claims a job and decides what to say in one transaction,       *)
(* delivers outside it, and records the result in another, if the claim is *)
(* still its own.  It may crash, or outlast its lease, in between.  Times  *)
(* are not compared: a job becomes due, and a lease expires, at some later *)
(* point, so jobs are taken in any order of available_at.                  *)
(***************************************************************************)
EXTENDS Integers, Sequences, FiniteSets

CONSTANTS
  Worker,       \* e-mail workers
  Kinds,        \* the kinds of e-mail that are queued
  MaxAttempts,  \* EMAIL_MAX_ATTEMPTS
  MaxJobs,      \* bound: jobs queued in all
  MaxEvents     \* bound: subjects that end or come back, in all

CourseKind == {"enrollment", "enrolled", "verify"}
Kind == CourseKind \cup {"reset"}

ASSUME EmailAssumption ==
  /\ IsFiniteSet(Worker) /\ Kinds \subseteq Kind
  /\ MaxAttempts \in Nat \ {0} /\ MaxJobs \in Nat /\ MaxEvents \in Nat

VARIABLES
  jobs,      \* email_jobs, by id; a claim is named by the attempt it counted
  archived,  \* the course is
  over,      \* jobs whose subject ended: the token was used or expired, the
             \* invitation deleted, the student withdrawn
  events,    \* how often a subject ended or came back
  task,      \* what a worker is doing, or Idle
  accepted,  \* jobs whose idempotency key the provider has accepted
  calls,     \* history: requests made to the provider for a job
  skipped    \* history: jobs found to be obsolete by a claim

subjects == <<archived, over, events>>
provider == <<accepted, calls>>
vars == <<jobs, subjects, task, provider, skipped>>

Idle == [step |-> "idle"]

Init ==
  /\ jobs = <<>>
  /\ archived = FALSE
  /\ over = {}
  /\ events = 0
  /\ task = [w \in Worker |-> Idle]
  /\ accepted = {}
  /\ calls = [j \in 1..MaxJobs |-> 0]
  /\ skipped = {}

-----------------------------------------------------------------------------
(* The requests that queue jobs and those that make them obsolete.         *)

Queued(kind) ==
  [kind |-> kind, attempts |-> 0, due |-> TRUE, claimed_by |-> 0,
   lease |-> "none", sent |-> FALSE, error |-> FALSE]

\* issue_account_token, _import_entries and _queue_enrollment_email.
QueueJob(kind) ==
  /\ Len(jobs) < MaxJobs
  /\ kind \in CourseKind => ~archived
  /\ jobs' = Append(jobs, Queued(kind))
  /\ UNCHANGED <<subjects, task, provider, skipped>>

SubjectChanges ==
  /\ events < MaxEvents /\ events' = events + 1
  /\ \/ ~archived /\ archived' = TRUE /\ UNCHANGED over
     \/ /\ \E j \in DOMAIN jobs \ over :
             (jobs[j].kind = "enrolled" => ~archived) /\ over' = over \cup {j}
        /\ UNCHANGED archived
     \* A student who had withdrawn joins again.
     \/ /\ ~archived
        /\ \E j \in over : jobs[j].kind = "enrolled" /\ over' = over \ {j}
        /\ UNCHANGED archived
  /\ UNCHANGED <<jobs, task, provider, skipped>>

-----------------------------------------------------------------------------
(* The worker.                                                             *)

\* Mutant: a claim whose worker died is not taken over.
OnlyUnclaimed(job) ==
  ~job.sent /\ job.attempts < MaxAttempts /\ job.due /\ job.lease = "none"

\* The jobs process_email_jobs selects.
Claimable(job) ==
  /\ ~job.sent
  /\ job.attempts < MaxAttempts
  /\ job.due
  /\ job.lease # "held"

\* _message: there is nothing to say when the subject is gone.
HasMessage(j) ==
  j \notin over /\ (jobs[j].kind \in CourseKind => ~archived)

\* Mutant: the attempt is counted when a failure is recorded.
CountedLater(job) ==
  [job EXCEPT !.claimed_by = @ + 1, !.lease = "held"]

\* The attempt is counted in the transaction of the claim.
Claimed(job) ==
  [job EXCEPT !.attempts = @ + 1, !.claimed_by = job.attempts + 1, !.lease = "held"]

ClaimJob(w) ==
  \E j \in DOMAIN jobs :
    /\ task[w] = Idle /\ Claimable(jobs[j])
    /\ jobs' = [jobs EXCEPT ![j] = Claimed(@)]
    /\ task' = [task EXCEPT ![w] =
         [step |-> "deliver", job |-> j, claim |-> jobs'[j].claimed_by,
          message |-> HasMessage(j)]]
    /\ skipped' = skipped \cup (IF HasMessage(j) THEN {} ELSE {j})
    /\ UNCHANGED <<subjects, provider>>

\* _deliver: a request that fails may have reached the provider, which sends a
\* key it has accepted only once.
Deliver(w) ==
  /\ task[w].step = "deliver"
  /\ \E failed \in BOOLEAN :
       /\ task' = [task EXCEPT ![w] = [step |-> "record", job |-> task[w].job,
                                       claim |-> task[w].claim, failed |-> failed]]
       /\ IF task[w].message
          THEN /\ calls' = [calls EXCEPT ![task[w].job] = @ + 1]
               /\ \/ accepted' = accepted \cup {task[w].job}
                  \/ failed /\ UNCHANGED accepted
          ELSE ~failed /\ UNCHANGED provider
  /\ UNCHANGED <<jobs, subjects, skipped>>

\* Mutant: the result is recorded whoever holds the claim.
Unfenced(w) == TRUE

\* The job is read again under its lock.
StillOwner(w) == jobs[task[w].job].claimed_by = task[w].claim

Recorded(job, failed) ==
  [job EXCEPT !.claimed_by = 0, !.lease = "none", !.error = failed,
              !.sent = @ \/ ~failed, !.due = ~failed]

RecordResult(w) ==
  /\ task[w].step = "record"
  /\ jobs' = IF StillOwner(w)
             THEN [jobs EXCEPT ![task[w].job] = Recorded(@, task[w].failed)]
             ELSE jobs
  /\ task' = [task EXCEPT ![w] = Idle]
  /\ UNCHANGED <<subjects, provider, skipped>>

\* The process dies, or an error that is not a delivery failure ends the pass.
Crash(w) ==
  /\ task[w] # Idle
  /\ task' = [task EXCEPT ![w] = Idle]
  /\ UNCHANGED <<jobs, subjects, provider, skipped>>

\* The retry time of a job comes, if it has an attempt left.
BackoffEnds(j) ==
  /\ ~jobs[j].due /\ jobs[j].attempts < MaxAttempts
  /\ jobs' = [jobs EXCEPT ![j].due = TRUE]
  /\ UNCHANGED <<subjects, task, provider, skipped>>

LeaseExpires(j) ==
  /\ jobs[j].lease = "held"
  /\ jobs' = [jobs EXCEPT ![j].lease = "expired"]
  /\ UNCHANGED <<subjects, task, provider, skipped>>

-----------------------------------------------------------------------------
Next ==
  \/ \E kind \in Kinds : QueueJob(kind)
  \/ SubjectChanges
  \/ \E w \in Worker : ClaimJob(w) \/ Deliver(w) \/ RecordResult(w) \/ Crash(w)
  \/ \E j \in DOMAIN jobs : BackoffEnds(j) \/ LeaseExpires(j)

\* Time passes, and the loop of a worker comes back to the queue.
Fairness ==
  /\ \A w \in Worker : WF_vars(ClaimJob(w)) /\ WF_vars(Deliver(w) \/ RecordResult(w))
  /\ \A j \in 1..MaxJobs :
       WF_vars(j \in DOMAIN jobs /\ (BackoffEnds(j) \/ LeaseExpires(j)))

Spec == Init /\ [][Next]_vars /\ Fairness

-----------------------------------------------------------------------------
(* Properties.                                                             *)

Job == [kind : Kinds, attempts : 0..MaxAttempts, due : BOOLEAN,
        claimed_by : 0..MaxAttempts, lease : {"none", "held", "expired"},
        sent : BOOLEAN, error : BOOLEAN]
Task == {Idle}
  \cup [step : {"deliver"}, job : 1..MaxJobs, claim : 1..MaxAttempts, message : BOOLEAN]
  \cup [step : {"record"}, job : 1..MaxJobs, claim : 1..MaxAttempts, failed : BOOLEAN]

TypeOK ==
  /\ jobs \in Seq(Job) /\ Len(jobs) <= MaxJobs
  /\ archived \in BOOLEAN /\ over \subseteq DOMAIN jobs /\ events \in 0..MaxEvents
  /\ task \in [Worker -> Task]
  /\ \A w \in Worker : task[w] # Idle => task[w].job \in DOMAIN jobs
  /\ accepted \subseteq DOMAIN jobs /\ skipped \subseteq DOMAIN jobs
  /\ calls \in [1..MaxJobs -> Nat]

\* sent_at is only set on a job the provider has accepted or that a claim found
\* obsolete, and no failure of another, older claim is left on it.
SentCleanly ==
  \A j \in DOMAIN jobs : jobs[j].sent => j \in accepted \cup skipped /\ ~jobs[j].error

\* However often workers crash or lose their lease, the provider is called at
\* most EMAIL_MAX_ATTEMPTS times for a job.
CallBudget == \A j \in 1..MaxJobs : calls[j] <= MaxAttempts

\* Nobody is working on the job and nobody will.
Settled(job) == job.sent \/ (job.attempts = MaxAttempts /\ job.lease # "held")

\* Every job that is queued is sent or runs out of attempts: a crashed worker,
\* or a job that always fails, keeps no job waiting for ever.
EveryJobSettles ==
  \A j \in 1..MaxJobs : j \in DOMAIN jobs ~> j \in DOMAIN jobs /\ Settled(jobs[j])
=============================================================================
