-------------------------- MODULE EmailJobsProofs --------------------------
(***************************************************************************)
(* Proofs about EmailJobs for any finite set of workers and any number of  *)
(* attempts, jobs and events.  Crashes and expired leases are not bounded. *)
(*                                                                         *)
(* The budget is kept because a claim counts its attempt before anything   *)
(* is sent: what was called and what is being delivered was counted.  A    *)
(* sent job stays clean because no claim of it remains.                    *)
(***************************************************************************)
EXTENDS EmailJobs, FiniteSetTheorems, SequenceTheorems, TLAPS

USE EmailAssumption

\* A worker that will record success has a reason to.
EarnedResult(w) ==
  /\ task[w].step = "deliver" /\ ~task[w].message => task[w].job \in skipped
  /\ task[w].step = "record" /\ ~task[w].failed => task[w].job \in accepted \cup skipped

\* No claim of a sent job remains.
CleanlySent(j) ==
  jobs[j].sent => jobs[j].claimed_by = 0 /\ ~jobs[j].error /\ j \in accepted \cup skipped

Delivering(j) == {w \in Worker : task[w].step = "deliver" /\ task[w].job = j}

WithinAttempts(j) ==
  IF j \in DOMAIN jobs THEN calls[j] + Cardinality(Delivering(j)) <= jobs[j].attempts
  ELSE calls[j] = 0

JobInv ==
  /\ TypeOK
  /\ \A w \in Worker : EarnedResult(w)
  /\ \A j \in DOMAIN jobs : CleanlySent(j)
  /\ \A j \in 1..MaxJobs : WithinAttempts(j)

-----------------------------------------------------------------------------
LEMMA TaskSteps ==
  /\ Idle.step = "idle"
  /\ \A t \in Task : t.step \in {"idle", "deliver", "record"} /\ (t = Idle <=> t.step = "idle")
BY DEF Idle, Task

LEMMA JobIds ==
  ASSUME TypeOK
  PROVE  DOMAIN jobs = 1..Len(jobs) /\ DOMAIN jobs \subseteq 1..MaxJobs
         /\ \A j \in DOMAIN jobs : jobs[j] \in Job
BY DEF TypeOK

LEMMA AttemptsAreNumbers ==
  ASSUME TypeOK
  PROVE  \A j \in DOMAIN jobs : jobs[j].attempts \in 0..MaxAttempts /\ jobs[j].attempts \in Nat
<1>1. \A job \in Job : job.attempts \in 0..MaxAttempts
  BY DEF Job
<1>2. 0..MaxAttempts \subseteq Nat
  OBVIOUS
<1> QED
  BY <1>1, <1>2, JobIds

LEMMA DeliveringFinite ==
  \A j : IsFiniteSet(Delivering(j)) /\ Cardinality(Delivering(j)) \in Nat
<1> SUFFICES ASSUME NEW j
             PROVE  IsFiniteSet(Delivering(j)) /\ Cardinality(Delivering(j)) \in Nat
  OBVIOUS
<1>1. Delivering(j) \in SUBSET Worker
  BY DEF Delivering
<1>2. IsFiniteSet(Delivering(j))
  BY <1>1, FS_Subset DEF EmailAssumption
<1> QED
  BY <1>2, FS_CardinalityType

LEMMA CountOneMore ==
  ASSUME NEW S, NEW x, IsFiniteSet(S)
  PROVE  Cardinality(S \cup {x}) \in Nat /\ Cardinality(S \cup {x}) <= Cardinality(S) + 1
<1>1. Cardinality(S) \in Nat
  BY FS_CardinalityType
<1>2. Cardinality(S \cup {x}) = IF x \in S THEN Cardinality(S) ELSE Cardinality(S) + 1
  BY FS_AddElement
<1> QED
  BY <1>1, <1>2

LEMMA CountOneLess ==
  ASSUME NEW S, NEW x, IsFiniteSet(S)
  PROVE  /\ Cardinality(S \ {x}) \in Nat /\ Cardinality(S \ {x}) <= Cardinality(S)
         /\ x \in S => Cardinality(S \ {x}) = Cardinality(S) - 1
<1>1. Cardinality(S) \in Nat
  BY FS_CardinalityType
<1>2. Cardinality(S \ {x}) \in Nat
  BY FS_RemoveElement, FS_CardinalityType
<1>3. Cardinality(S \ {x}) = IF x \in S THEN Cardinality(S) - 1 ELSE Cardinality(S)
  BY FS_RemoveElement
<1> QED
  BY <1>1, <1>2, <1>3

LEMMA InitJobInv == Init => JobInv
<1> SUFFICES ASSUME Init PROVE JobInv
  OBVIOUS
<1>1. TypeOK
  <2>1. jobs \in Seq(Job) /\ Len(jobs) <= MaxJobs
    <3>1. jobs = <<>>
      BY DEF Init
    <3> QED
      BY <3>1
  <2>2. task \in [Worker -> Task] /\ \A w \in Worker : task[w] = Idle
    BY DEF Init, Task
  <2>3. calls \in [1..MaxJobs -> Nat] /\ events \in 0..MaxEvents
    BY DEF Init
  <2> QED
    BY <2>1, <2>2, <2>3 DEF Init, TypeOK
<1>2. \A w \in Worker : EarnedResult(w)
  BY DEF Init, EarnedResult, Idle
<1>3. \A j \in 1..MaxJobs : WithinAttempts(j)
  BY DEF Init, WithinAttempts
<1> QED
  BY <1>1, <1>2, <1>3 DEF JobInv, Init

-----------------------------------------------------------------------------
(* Steps of the requests and of time.                                      *)

LEMMA QueueJobInv ==
  ASSUME JobInv, NEW kind \in Kinds, QueueJob(kind)
  PROVE  JobInv'
<1> DEFINE n == Len(jobs) + 1
<1>1. Queued(kind) \in Job
  BY DEF Queued, Job
<1>2. /\ jobs \in Seq(Job) /\ Len(jobs) \in Nat /\ n \in 1..MaxJobs
      /\ jobs' = Append(jobs, Queued(kind))
      /\ UNCHANGED <<archived, over, events, task, accepted, calls, skipped>>
  BY DEF JobInv, TypeOK, QueueJob, subjects, provider
<1>3. /\ jobs' \in Seq(Job) /\ Len(jobs') = n
      /\ \A j \in 1..Len(jobs) : jobs'[j] = jobs[j]
      /\ jobs'[n] = Queued(kind)
  BY <1>1, <1>2, AppendProperties
<1>4. /\ DOMAIN jobs' = 1..n /\ DOMAIN jobs = 1..Len(jobs)
      /\ \A j \in DOMAIN jobs' : j \in DOMAIN jobs \/ j = n
  BY <1>2, <1>3
<1>5. TypeOK'
  BY <1>2, <1>3, <1>4 DEF JobInv, TypeOK
<1>6. \A w \in Worker : EarnedResult(w)'
  BY <1>2 DEF JobInv, EarnedResult
<1>7. \A j \in DOMAIN jobs' : CleanlySent(j)'
  BY <1>2, <1>3, <1>4 DEF JobInv, CleanlySent, Queued
<1>8. ASSUME NEW j \in 1..MaxJobs PROVE WithinAttempts(j)'
  <2>1. WithinAttempts(j) /\ Delivering(j)' = Delivering(j)
    BY <1>2 DEF JobInv, Delivering
  <2>2. CASE j \in DOMAIN jobs
    BY <1>2, <1>3, <1>4, <2>1, <2>2 DEF WithinAttempts
  <2>3. CASE j = n
    <3>1. Delivering(j) = {}
      BY <1>2, <1>4, <2>3, TaskSteps DEF JobInv, TypeOK, Delivering
    <3>2. calls[j] = 0 /\ jobs'[j].attempts = 0
      BY <1>2, <1>3, <1>4, <2>1, <2>3 DEF WithinAttempts, Queued
    <3> QED
      BY <1>2, <1>4, <2>1, <3>1, <3>2, FS_EmptySet DEF WithinAttempts
  <2>4. CASE j \notin DOMAIN jobs'
    BY <1>2, <1>4, <2>1, <2>4 DEF WithinAttempts
  <2> QED
    BY <1>4, <2>2, <2>3, <2>4
<1> QED
  BY <1>5, <1>6, <1>7, <1>8 DEF JobInv

LEMMA SubjectChangesInv ==
  ASSUME JobInv, SubjectChanges
  PROVE  JobInv'
<1>1. UNCHANGED <<jobs, task, accepted, calls, skipped>>
  BY DEF SubjectChanges, provider
<1>2. TypeOK'
  <2>1. over' \subseteq DOMAIN jobs
    BY DEF JobInv, TypeOK, SubjectChanges
  <2>2. archived' \in BOOLEAN
    BY DEF JobInv, TypeOK, SubjectChanges
  <2>3. events' \in 0..MaxEvents
    BY DEF JobInv, TypeOK, SubjectChanges
  <2> QED
    BY <1>1, <2>1, <2>2, <2>3 DEF JobInv, TypeOK
<1>3. \A j : Delivering(j)' = Delivering(j)
  BY <1>1 DEF Delivering
<1> QED
  BY <1>1, <1>2, <1>3 DEF JobInv, EarnedResult, CleanlySent, WithinAttempts

\* Replacing one row.
LEMMA RowReplaced ==
  ASSUME TypeOK, NEW j \in DOMAIN jobs, NEW row \in Job, jobs' = [jobs EXCEPT ![j] = row]
  PROVE  /\ jobs' \in Seq(Job) /\ Len(jobs') = Len(jobs) /\ DOMAIN jobs' = DOMAIN jobs
         /\ jobs'[j] = row
         /\ \A i \in DOMAIN jobs \ {j} : jobs'[i] = jobs[i]
<1>1. jobs \in Seq(Job) /\ j \in 1..Len(jobs) /\ DOMAIN jobs = 1..Len(jobs)
  BY DEF TypeOK
<1>2. jobs' \in Seq(Job) /\ Len(jobs') = Len(jobs)
  BY <1>1, ExceptSeq
<1> QED
  BY <1>1, <1>2

\* Time changes neither the attempts nor the result of a job.
LEMMA TimeInv ==
  ASSUME JobInv, NEW j \in DOMAIN jobs, BackoffEnds(j) \/ LeaseExpires(j)
  PROVE  JobInv'
<1>1. UNCHANGED <<archived, over, events, task, accepted, calls, skipped>>
  BY DEF BackoffEnds, LeaseExpires, subjects, provider
<1>2. jobs[j] \in Job
  BY JobIds DEF JobInv
<1>3. PICK row \in Job :
        /\ jobs' = [jobs EXCEPT ![j] = row]
        /\ row.sent = jobs[j].sent /\ row.error = jobs[j].error
        /\ row.claimed_by = jobs[j].claimed_by /\ row.attempts = jobs[j].attempts
  <2>1. CASE BackoffEnds(j)
    <3>1. [jobs[j] EXCEPT !.due = TRUE] \in Job
      BY <1>2 DEF Job
    <3> QED
      BY <1>2, <2>1, <3>1 DEF BackoffEnds, Job
  <2>2. CASE LeaseExpires(j)
    <3>1. [jobs[j] EXCEPT !.lease = "expired"] \in Job
      BY <1>2 DEF Job
    <3> QED
      BY <1>2, <2>2, <3>1 DEF LeaseExpires, Job
  <2> QED
    BY <2>1, <2>2
<1>4. /\ jobs' \in Seq(Job) /\ Len(jobs') = Len(jobs) /\ DOMAIN jobs' = DOMAIN jobs
      /\ jobs'[j] = row /\ \A i \in DOMAIN jobs \ {j} : jobs'[i] = jobs[i]
  BY <1>3, RowReplaced DEF JobInv
<1>5. TypeOK'
  BY <1>1, <1>4 DEF JobInv, TypeOK
<1>6. \A i : Delivering(i)' = Delivering(i)
  BY <1>1 DEF Delivering
<1>7. \A i \in DOMAIN jobs : CleanlySent(i)' /\ jobs'[i].attempts = jobs[i].attempts
  BY <1>1, <1>3, <1>4 DEF JobInv, CleanlySent
<1> QED
  BY <1>1, <1>4, <1>5, <1>6, <1>7 DEF JobInv, EarnedResult, WithinAttempts

-----------------------------------------------------------------------------
(* Steps of a worker.                                                      *)

\* A worker with a new task of its own; the others keep theirs.
LEMMA TaskReplaced ==
  ASSUME TypeOK, NEW w \in Worker, NEW t \in Task, task' = [task EXCEPT ![w] = t]
  PROVE  /\ task' \in [Worker -> Task] /\ task'[w] = t
         /\ \A v \in Worker \ {w} : task'[v] = task[v]
         /\ \A j : Delivering(j)' = IF t.step = "deliver" /\ t.job = j
                                   THEN Delivering(j) \cup {w} ELSE Delivering(j) \ {w}
BY DEF TypeOK, Delivering

LEMMA ClaimInv ==
  ASSUME JobInv, NEW w \in Worker, ClaimJob(w)
  PROVE  JobInv'
<1>1. PICK j \in DOMAIN jobs :
        /\ task[w] = Idle /\ Claimable(jobs[j])
        /\ jobs' = [jobs EXCEPT ![j] = Claimed(jobs[j])]
        /\ task' = [task EXCEPT ![w] =
             [step |-> "deliver", job |-> j, claim |-> jobs'[j].claimed_by,
              message |-> HasMessage(j)]]
        /\ skipped' = skipped \cup (IF HasMessage(j) THEN {} ELSE {j})
        /\ UNCHANGED <<archived, over, events, accepted, calls>>
  BY DEF ClaimJob, subjects, provider
<1> DEFINE row == Claimed(jobs[j])
<1>2. jobs[j] \in Job /\ j \in 1..MaxJobs /\ DOMAIN jobs \subseteq 1..MaxJobs
  BY JobIds DEF JobInv
<1>3. /\ row \in Job /\ row.attempts = jobs[j].attempts + 1 /\ row.attempts \in 1..MaxAttempts
      /\ row.claimed_by = row.attempts /\ ~row.sent
  <2>1. /\ ~jobs[j].sent /\ jobs[j].attempts \in Nat /\ jobs[j].attempts < MaxAttempts
        /\ jobs[j].attempts + 1 \in 1..MaxAttempts /\ jobs[j].attempts + 1 \in 0..MaxAttempts
    BY <1>1, <1>2 DEF Claimable, Job
  <2>2. row = [[[jobs[j] EXCEPT !.attempts = jobs[j].attempts + 1]
                EXCEPT !.claimed_by = jobs[j].attempts + 1] EXCEPT !.lease = "held"]
    BY <1>2 DEF Claimed, Job
  <2> HIDE DEF row
  <2>3. row.attempts = jobs[j].attempts + 1 /\ row.claimed_by = row.attempts /\ ~row.sent
    BY <1>2, <2>1, <2>2 DEF Job
  <2>4. row \in Job
    BY <1>2, <2>1, <2>2 DEF Job
  <2> QED
    BY <2>1, <2>3, <2>4
<1>4. /\ jobs' \in Seq(Job) /\ Len(jobs') = Len(jobs) /\ DOMAIN jobs' = DOMAIN jobs
      /\ jobs'[j] = row /\ \A i \in DOMAIN jobs \ {j} : jobs'[i] = jobs[i]
  BY <1>1, <1>3, RowReplaced DEF JobInv
<1> HIDE DEF row
<1> DEFINE t == [step |-> "deliver", job |-> j, claim |-> row.claimed_by,
                 message |-> HasMessage(j)]
<1>5. t \in Task /\ t.step = "deliver" /\ t.job = j /\ t.message = HasMessage(j)
  <2>1. HasMessage(j) \in BOOLEAN
    BY DEF HasMessage
  <2> QED
    BY <1>2, <1>3, <2>1 DEF Task
<1>6. task' = [task EXCEPT ![w] = t]
  BY <1>1, <1>4
<1> HIDE DEF t
<1>7. /\ task' \in [Worker -> Task] /\ task'[w] = t
      /\ \A v \in Worker \ {w} : task'[v] = task[v]
      /\ Delivering(j)' = Delivering(j) \cup {w}
      /\ \A i \in DOMAIN jobs \ {j} : Delivering(i)' = Delivering(i) \ {w}
  <2>1. /\ task' \in [Worker -> Task] /\ task'[w] = t
        /\ \A v \in Worker \ {w} : task'[v] = task[v]
        /\ \A i : Delivering(i)' = IF t.step = "deliver" /\ t.job = i
                                   THEN Delivering(i) \cup {w} ELSE Delivering(i) \ {w}
    BY <1>5, <1>6, TaskReplaced DEF JobInv
  <2> QED
    BY <1>5, <2>1
<1>8. TypeOK'
  BY <1>1, <1>4, <1>5, <1>7 DEF JobInv, TypeOK
<1>9. ASSUME NEW v \in Worker PROVE EarnedResult(v)'
  BY <1>1, <1>5, <1>7 DEF JobInv, EarnedResult
<1>10. \A i \in DOMAIN jobs : CleanlySent(i)'
  BY <1>1, <1>3, <1>4 DEF JobInv, CleanlySent
<1>11. ASSUME NEW i \in 1..MaxJobs PROVE WithinAttempts(i)'
  <2>1. WithinAttempts(i) /\ calls[i] \in Nat
    BY DEF JobInv, TypeOK
  <2>2. CASE i = j
    <3> DEFINE new == Cardinality(Delivering(i)')
               old == Cardinality(Delivering(i))
    <3>1. new \in Nat /\ old \in Nat /\ new <= old + 1
      BY <1>7, <2>2, DeliveringFinite, CountOneMore
    <3>2. calls[i] + old <= jobs[i].attempts
      BY <2>1, <2>2 DEF WithinAttempts
    <3>3. jobs'[i].attempts = jobs[i].attempts + 1 /\ jobs[i].attempts \in Nat
      BY <1>2, <1>3, <1>4, <2>2 DEF Job
    <3>4. WithinAttempts(i)' <=> calls[i] + new <= jobs'[i].attempts
      BY <1>1, <1>4, <2>2 DEF WithinAttempts
    <3> HIDE DEF new, old
    <3> QED
      BY <2>1, <3>1, <3>2, <3>3, <3>4
  <2>3. CASE i \in DOMAIN jobs \ {j}
    <3>1. w \notin Delivering(i)
      BY <1>1 DEF Delivering, Idle
    <3>2. Delivering(i)' = Delivering(i)
      BY <1>7, <2>3, <3>1
    <3> QED
      BY <1>1, <1>4, <2>1, <2>3, <3>2 DEF WithinAttempts
  <2>4. CASE i \notin DOMAIN jobs
    BY <1>1, <1>4, <2>1, <2>4 DEF WithinAttempts
  <2> QED
    BY <2>2, <2>3, <2>4
<1> QED
  BY <1>4, <1>8, <1>9, <1>10, <1>11 DEF JobInv

LEMMA DeliverInv ==
  ASSUME JobInv, NEW w \in Worker, Deliver(w)
  PROVE  JobInv'
<1> DEFINE j == task[w].job
<1>1. PICK failed \in BOOLEAN :
        /\ task' = [task EXCEPT ![w] = [step |-> "record", job |-> j,
                                        claim |-> task[w].claim, failed |-> failed]]
        /\ IF task[w].message
           THEN /\ calls' = [calls EXCEPT ![j] = @ + 1]
                /\ \/ accepted' = accepted \cup {j}
                   \/ failed /\ UNCHANGED accepted
           ELSE ~failed /\ UNCHANGED <<accepted, calls>>
  BY DEF Deliver, provider
<1>2. /\ task[w] \in Task /\ task[w].step = "deliver" /\ task[w] # Idle
      /\ task[w].claim \in 1..MaxAttempts
      /\ j \in DOMAIN jobs /\ j \in 1..MaxJobs
      /\ UNCHANGED <<jobs, archived, over, events, skipped>>
  <2>1. task[w] \in Task /\ task[w].step = "deliver"
    BY DEF JobInv, TypeOK, Deliver
  <2>2. task[w] # Idle /\ task[w].claim \in 1..MaxAttempts
    BY <2>1 DEF Idle, Task
  <2> QED
    BY <2>1, <2>2, JobIds DEF JobInv, TypeOK, Deliver, subjects
<1> DEFINE t == [step |-> "record", job |-> j, claim |-> task[w].claim, failed |-> failed]
<1>3. t \in Task /\ t.step = "record" /\ t.job = j /\ t.failed = failed
  BY <1>2 DEF Task
<1>4. task' = [task EXCEPT ![w] = t]
  BY <1>1
<1> HIDE DEF t
<1>5. /\ task' \in [Worker -> Task] /\ task'[w] = t
      /\ \A v \in Worker \ {w} : task'[v] = task[v]
      /\ \A i : Delivering(i)' = Delivering(i) \ {w}
  BY <1>3, <1>4, TaskReplaced DEF JobInv
<1>6. /\ accepted \subseteq accepted' /\ accepted' \subseteq DOMAIN jobs
      /\ calls' \in [1..MaxJobs -> Nat]
      /\ ~failed => j \in accepted' \cup skipped
  <2>1. ~task[w].message => j \in skipped
    BY <1>2 DEF JobInv, EarnedResult
  <2>2. accepted \subseteq DOMAIN jobs /\ calls \in [1..MaxJobs -> Nat]
    BY DEF JobInv, TypeOK
  <2> HIDE DEF j
  <2> QED
    BY <1>1, <1>2, <2>1, <2>2
<1>7. calls'[j] <= calls[j] + 1 /\ \A i \in 1..MaxJobs \ {j} : calls'[i] = calls[i]
  BY <1>1, <1>2 DEF JobInv, TypeOK
<1> HIDE DEF j
<1>8. TypeOK'
  BY <1>2, <1>3, <1>5, <1>6 DEF JobInv, TypeOK
<1>9. ASSUME NEW v \in Worker PROVE EarnedResult(v)'
  BY <1>2, <1>3, <1>5, <1>6 DEF JobInv, EarnedResult
<1>10. \A i \in DOMAIN jobs : CleanlySent(i)'
  BY <1>2, <1>6 DEF JobInv, CleanlySent
<1>11. ASSUME NEW i \in 1..MaxJobs PROVE WithinAttempts(i)'
  <2>1. WithinAttempts(i) /\ calls[i] \in Nat /\ calls'[i] \in Nat /\ jobs' = jobs
    BY <1>2, <1>6 DEF JobInv, TypeOK
  <2>2. Cardinality(Delivering(i)') <= Cardinality(Delivering(i))
    BY <1>5, DeliveringFinite, CountOneLess
  <2>3. Cardinality(Delivering(i)') \in Nat
    BY <1>5, DeliveringFinite, CountOneLess
  <2>4. CASE i = j
    <3>1. w \in Delivering(i)
      BY <1>2, <2>4 DEF Delivering, j
    <3>2. Cardinality(Delivering(i)') = Cardinality(Delivering(i)) - 1
      BY <1>5, <3>1, DeliveringFinite, CountOneLess
    <3>3. jobs[i].attempts \in Nat
      BY <1>2, <2>4, AttemptsAreNumbers DEF JobInv
    <3> QED
      BY <1>2, <1>7, <2>1, <2>4, <3>2, <3>3, DeliveringFinite DEF WithinAttempts
  <2>5. CASE i # j
    <3>1. i \in DOMAIN jobs => jobs[i].attempts \in Nat
      BY AttemptsAreNumbers DEF JobInv
    <3> QED
      BY <1>7, <2>1, <2>2, <2>3, <2>5, <3>1, DeliveringFinite DEF WithinAttempts
  <2> QED
    BY <2>4, <2>5
<1> QED
  BY <1>2, <1>8, <1>9, <1>10, <1>11 DEF JobInv

\* A worker that goes idle delivers nothing and owes no result.
LEMMA GoesIdle ==
  ASSUME JobInv, NEW w \in Worker, task' = [task EXCEPT ![w] = Idle],
         jobs' \in Seq(Job), Len(jobs') = Len(jobs), DOMAIN jobs' = DOMAIN jobs,
         \A i \in DOMAIN jobs : CleanlySent(i)' /\ jobs'[i].attempts = jobs[i].attempts,
         UNCHANGED <<archived, over, events, accepted, calls, skipped>>
  PROVE  JobInv'
<1>1. Idle \in Task
  BY DEF Task
<1>2. /\ task' \in [Worker -> Task] /\ task'[w] = Idle
      /\ \A v \in Worker \ {w} : task'[v] = task[v]
      /\ \A i : Delivering(i)' = Delivering(i) \ {w}
  BY <1>1, TaskReplaced, TaskSteps DEF JobInv
<1>3. TypeOK'
  BY <1>2 DEF JobInv, TypeOK
<1>4. \A v \in Worker : EarnedResult(v)'
  BY <1>2, TaskSteps DEF JobInv, EarnedResult
<1>5. ASSUME NEW i \in 1..MaxJobs PROVE WithinAttempts(i)'
  <2>1. WithinAttempts(i) /\ calls[i] \in Nat
    BY DEF JobInv, TypeOK
  <2>2. Cardinality(Delivering(i)') <= Cardinality(Delivering(i))
    BY <1>2, DeliveringFinite, CountOneLess
  <2>3. Cardinality(Delivering(i)') \in Nat
    BY <1>2, DeliveringFinite, CountOneLess
  <2>4. i \in DOMAIN jobs => jobs[i].attempts \in Nat
    BY AttemptsAreNumbers DEF JobInv
  <2> QED
    BY <2>1, <2>2, <2>3, <2>4, DeliveringFinite DEF WithinAttempts
<1> QED
  BY <1>3, <1>4, <1>5 DEF JobInv

LEMMA RecordedRow ==
  ASSUME NEW job \in Job, NEW failed \in BOOLEAN
  PROVE  /\ Recorded(job, failed) \in Job
         /\ Recorded(job, failed).attempts = job.attempts
         /\ Recorded(job, failed).claimed_by = 0
         /\ Recorded(job, failed).error => failed
         /\ Recorded(job, failed).sent => job.sent \/ ~failed
<1>1. ASSUME NEW sent \in BOOLEAN, NEW due \in BOOLEAN, NEW row,
             row = [[[[[job EXCEPT !.claimed_by = 0] EXCEPT !.lease = "none"]
                      EXCEPT !.error = failed] EXCEPT !.sent = sent] EXCEPT !.due = due]
      PROVE  row \in Job
  <2>1. [job EXCEPT !.claimed_by = 0] \in Job
    BY DEF Job
  <2>2. [[job EXCEPT !.claimed_by = 0] EXCEPT !.lease = "none"] \in Job
    BY <2>1 DEF Job
  <2>3. \A r \in Job : [r EXCEPT !.error = failed] \in Job
    BY DEF Job
  <2>4. \A r \in Job : [r EXCEPT !.sent = sent] \in Job
    BY DEF Job
  <2>5. \A r \in Job : [r EXCEPT !.due = due] \in Job
    BY DEF Job
  <2> QED
    BY <1>1, <2>2, <2>3, <2>4, <2>5
<1>2. Recorded(job, failed) \in Job
  <2>1. (job.sent \/ ~failed) \in BOOLEAN
    BY Zenon
  <2>2. (~failed) \in BOOLEAN
    BY Zenon
  <2> QED
    BY <1>1, <2>1, <2>2 DEF Recorded
<1>3. /\ Recorded(job, failed).attempts = job.attempts
      /\ Recorded(job, failed).claimed_by = 0
  BY DEF Recorded, Job
<1>4. /\ Recorded(job, failed).error => failed
      /\ Recorded(job, failed).sent => job.sent \/ ~failed
  BY DEF Recorded, Job
<1> QED
  BY <1>2, <1>3, <1>4

LEMMA RecordInv ==
  ASSUME JobInv, NEW w \in Worker, RecordResult(w)
  PROVE  JobInv'
<1> DEFINE j == task[w].job
<1>1. /\ task[w].step = "record" /\ task[w].claim \in 1..MaxAttempts /\ task[w].failed \in BOOLEAN
      /\ j \in DOMAIN jobs /\ jobs[j] \in Job
      /\ EarnedResult(w) /\ CleanlySent(j)
  <2>1. task[w] \in Task /\ task[w].step = "record"
    BY DEF JobInv, TypeOK, RecordResult
  <2>2. task[w] # Idle /\ task[w].claim \in 1..MaxAttempts /\ task[w].failed \in BOOLEAN
    BY <2>1 DEF Idle, Task
  <2> QED
    BY <2>1, <2>2, JobIds DEF JobInv, TypeOK
<1>2. /\ task' = [task EXCEPT ![w] = Idle]
      /\ UNCHANGED <<archived, over, events, accepted, calls, skipped>>
  BY DEF RecordResult, subjects, provider
<1>3. CASE StillOwner(w)
  <2> DEFINE row == Recorded(jobs[j], task[w].failed)
  <2>1. /\ row \in Job /\ row.attempts = jobs[j].attempts /\ row.claimed_by = 0
        /\ row.error => task[w].failed
        /\ row.sent => jobs[j].sent \/ ~task[w].failed
    BY <1>1, RecordedRow
  <2>2. ~jobs[j].sent
    BY <1>1, <1>3 DEF StillOwner, CleanlySent
  <2>3. jobs' = [jobs EXCEPT ![j] = row]
    BY <1>3 DEF RecordResult
  <2>4. /\ jobs' \in Seq(Job) /\ Len(jobs') = Len(jobs) /\ DOMAIN jobs' = DOMAIN jobs
        /\ jobs'[j] = row /\ \A i \in DOMAIN jobs \ {j} : jobs'[i] = jobs[i]
    BY <1>1, <2>1, <2>3, RowReplaced DEF JobInv
  <2> HIDE DEF row, j
  <2>5. ASSUME NEW i \in DOMAIN jobs PROVE CleanlySent(i)' /\ jobs'[i].attempts = jobs[i].attempts
    <3>1. CASE i = j
      <4>1. jobs'[i].sent => ~task[w].failed
        BY <2>1, <2>2, <2>4, <3>1
      <4>2. ~task[w].failed => i \in accepted \cup skipped
        BY <1>1, <3>1 DEF EarnedResult, j
      <4> QED
        BY <1>2, <2>1, <2>4, <3>1, <4>1, <4>2 DEF CleanlySent
    <3>2. CASE i # j
      BY <1>2, <2>4, <3>2 DEF CleanlySent, JobInv
    <3> QED
      BY <3>1, <3>2
  <2> QED
    BY <1>2, <2>4, <2>5, GoesIdle
<1>4. CASE ~StillOwner(w)
  <2>1. jobs' = jobs
    BY <1>4 DEF RecordResult
  <2> QED
    BY <1>2, <2>1, GoesIdle DEF JobInv, TypeOK, CleanlySent
<1> QED
  BY <1>3, <1>4

LEMMA CrashInv ==
  ASSUME JobInv, NEW w \in Worker, Crash(w)
  PROVE  JobInv'
BY GoesIdle DEF Crash, subjects, provider, JobInv, TypeOK, CleanlySent

-----------------------------------------------------------------------------
\* The invariant holds of every reachable state.
THEOREM Invariance == Spec => []JobInv
<1>1. JobInv /\ [Next]_vars => JobInv'
  <2> SUFFICES ASSUME JobInv, [Next]_vars PROVE JobInv'
    OBVIOUS
  <2>1. ASSUME NEW w \in Worker, ClaimJob(w) \/ Deliver(w) \/ RecordResult(w) \/ Crash(w)
        PROVE  JobInv'
    BY <2>1, ClaimInv, DeliverInv, RecordInv, CrashInv
  <2>2. CASE UNCHANGED vars
    <3>1. UNCHANGED <<jobs, archived, over, events, task, accepted, calls, skipped>>
      BY <2>2 DEF vars, subjects, provider
    <3>2. TypeOK'
      BY <3>1 DEF JobInv, TypeOK
    <3>3. \A j : Delivering(j)' = Delivering(j)
      BY <3>1 DEF Delivering
    <3> QED
      BY <3>1, <3>2, <3>3 DEF JobInv, EarnedResult, CleanlySent, WithinAttempts
  <2> QED
    BY <2>1, <2>2, QueueJobInv, SubjectChangesInv, TimeInv DEF Next
<1> QED
  BY <1>1, InitJobInv, PTL DEF Spec

\* CallBudget: process_email_jobs calls the provider at most EMAIL_MAX_ATTEMPTS
\* times for a job, however many workers crash or outlast their lease.
THEOREM BudgetHolds == Spec => []CallBudget
<1>1. ASSUME JobInv, NEW j \in 1..MaxJobs PROVE calls[j] <= MaxAttempts
  <2>1. WithinAttempts(j) /\ calls[j] \in Nat
    BY <1>1 DEF JobInv, TypeOK
  <2>2. j \in DOMAIN jobs => jobs[j].attempts \in 0..MaxAttempts
    BY <1>1, AttemptsAreNumbers DEF JobInv
  <2> QED
    BY <2>1, <2>2, DeliveringFinite DEF WithinAttempts
<1>2. JobInv => CallBudget
  BY <1>1 DEF CallBudget
<1> QED
  BY <1>2, Invariance, PTL

\* SentCleanly: sent_at is set only on a job the provider accepted or that had
\* nothing left to say, and no late failure is recorded over it.
THEOREM SentStaysClean == Spec => []SentCleanly
<1>1. JobInv => SentCleanly
  BY DEF JobInv, CleanlySent, SentCleanly
<1> QED
  BY <1>1, Invariance, PTL
=============================================================================
