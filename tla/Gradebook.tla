----------------------------- MODULE Gradebook -----------------------------
(***************************************************************************)
(* The attempts of one student at one item of a published assignment: how  *)
(* they are reserved, what grading and late approval make of the student's *)
(* progress row, and the course summary kept beside it.                    *)
(*                                                                         *)
(* Transactions run under REPEATABLE READ: a plain SELECT reads the        *)
(* snapshot of the transaction's first plain SELECT, a locking read the    *)
(* rows as they are, and a transaction sees its own changes.  A request is *)
(* therefore two actions: the one that takes its snapshot, and the one     *)
(* that holds the last lock it needs, which commits or is rolled back.     *)
(* Grading and approval lock the course first; requests of a student lock  *)
(* the user first.                                                         *)
(***************************************************************************)
EXTENDS Integers, FiniteSets

CONSTANTS
  Request,        \* POST /submissions requests the browser sends
  Key, KeyOf,     \* idempotency keys, and the key of a request
  Body, BodyOf,   \* request bodies, as the fingerprint tells them apart
  Approval,       \* POST approve-late requests the instructors send
  NumSubmissions, \* bound: submission rows
  Limit,          \* submission_limit of the item
  FULL,           \* the number of cases: scores are 0..FULL
  MaxDay,         \* bound: days the clock advances; due dates are 0..MaxDay
  MaxEdits        \* bound: how often the due date is edited

Submission == 1..NumSubmissions
Day == 0..MaxDay
NoRequest == "no request"
None == 0

ASSUME GradebookAssumption ==
  /\ KeyOf \in [Request -> Key] /\ BodyOf \in [Request -> Body]
  /\ NoRequest \notin Request /\ Request \cap Approval = {}
  /\ NumSubmissions \in Nat /\ Limit \in Nat \ {0} /\ FULL \in Nat \ {0}
  /\ MaxDay \in Nat /\ MaxEdits \in Nat

VARIABLES
  subs,       \* submission rows, in the order of their reservation
  keys,       \* submission_idempotency_keys of this student
  progress,   \* the student_assignment_progress row
  summary,    \* valid_attempt_count of the course_problem_analytics row
  today, due, edits,
  user_lock,  \* the request that holds the lock of the student's user row
  pc, snap,   \* of a request or an approval: where it is, what it read first
  target,     \* the submission an approval is for
  answer,     \* the submission a request was answered with, None if refused
  stale       \* history: the last approval overlooked a grade

calendar == <<today, due, edits>>
vars == <<subs, keys, progress, summary, calendar, user_lock, pc, snap, target,
          answer, stale>>

NoSubmission == [status |-> "absent", day |-> 0, late |-> FALSE, approved |-> FALSE,
                 score |-> 0]
NoKey == [sub |-> None, body |-> None, day |-> 0]
NoProgress == [attempts |-> 0, retries |-> 0, errors |-> 0, best |-> 0,
               first_passed |-> None]

NoSnapshot == [subs |-> [s \in Submission |-> NoSubmission],
               keys |-> [k \in Key |-> NoKey], due |-> 0]
Snapshot == [subs |-> subs, keys |-> keys, due |-> due]

Init ==
  /\ subs = [s \in Submission |-> NoSubmission]
  /\ keys = [k \in Key |-> NoKey]
  /\ progress = NoProgress
  /\ summary = 0
  /\ today = 0 /\ due = 0 /\ edits = 0
  /\ user_lock = NoRequest
  /\ pc = [p \in Request \cup Approval |-> "new"]
  /\ snap = [p \in Request \cup Approval |-> NoSnapshot]
  /\ target = [a \in Approval |-> None]
  /\ answer = [r \in Request |-> None]
  /\ stale = FALSE

-----------------------------------------------------------------------------
(* create_submission.                                                      *)

Reserved(rows) == {s \in Submission : rows[s].status # "absent"}
Active(rows) == {s \in Submission : rows[s].status = "active"}
\* The attempts that use up the limit.
Spent(rows) == {s \in Reserved(rows) : rows[s].status # "void"}

\* Mutant: the user row is not locked.
UserUnlocked == TRUE

UserLockFree == user_lock = NoRequest

\* The user row is locked before the first plain read, the key lookup.
Enter(r) ==
  /\ pc[r] = "new"
  /\ UserLockFree
  /\ user_lock' = r
  /\ pc' = [pc EXCEPT ![r] = "entered"]
  /\ snap' = [snap EXCEPT ![r] = Snapshot]
  /\ UNCHANGED <<subs, keys, progress, summary, calendar, target, answer, stale>>

\* Records are kept for a day.
Lapsed(record) == record # NoKey /\ record.day < today

\* find_existing_submission: the record read first must still be there when it
\* is locked, and within its window.
Record(r) ==
  LET now == keys[KeyOf[r]]
  IN  IF snap[r].keys[KeyOf[r]] = NoKey \/ Lapsed(now) THEN NoKey ELSE now

Leave(r, reply) ==
  /\ pc' = [pc EXCEPT ![r] = "done"]
  /\ snap' = [snap EXCEPT ![r] = NoSnapshot]
  /\ answer' = [answer EXCEPT ![r] = reply]
  /\ user_lock' = NoRequest
  /\ UNCHANGED <<progress, summary, calendar, target, stale>>

Replay(r) ==
  /\ pc[r] = "entered"
  /\ Record(r) # NoKey
  /\ Leave(r, IF Record(r).body = BodyOf[r] THEN Record(r).sub ELSE None)
  /\ UNCHANGED <<subs, keys>>

\* Mutant: the limit is compared with >.
LimitPassed(rows) == Cardinality(Spent(rows)) > Limit

LimitReached(rows) == Cardinality(Spent(rows)) >= Limit

Refuse(r) ==
  /\ pc[r] = "entered"
  /\ Record(r) = NoKey
  /\ Active(snap[r].subs) # {} \/ LimitReached(snap[r].subs)
  /\ Leave(r, None)
  /\ UNCHANGED <<subs, keys>>

\* Mutant: the key is not attached to the submission.
KeyForgotten(r, s) == UNCHANGED keys

AttachKey(r, s) ==
  keys' = [keys EXCEPT ![KeyOf[r]] = [sub |-> s, body |-> BodyOf[r], day |-> today]]

Reserve(r) ==
  /\ pc[r] = "entered"
  /\ Record(r) = NoKey
  /\ Active(snap[r].subs) = {}
  /\ ~LimitReached(snap[r].subs)
  /\ LET s == Cardinality(Reserved(subs)) + 1
     IN  /\ s \in Submission
         /\ subs' = [subs EXCEPT ![s] =
              [NoSubmission EXCEPT !.status = "active", !.day = today,
                                     !.late = today > snap[r].due]]
         /\ AttachKey(r, s)
         /\ Leave(r, s)

\* The worker purges the records whose window is over.
Purge(k) ==
  /\ Lapsed(keys[k])
  /\ keys' = [keys EXCEPT ![k] = NoKey]
  /\ UNCHANGED <<subs, progress, summary, calendar, user_lock, pc, snap, target, answer,
                 stale>>

NextDay ==
  /\ today < MaxDay
  /\ today' = today + 1
  /\ UNCHANGED <<subs, keys, progress, summary, due, edits, user_lock, pc, snap, target,
                 answer, stale>>

\* edit_assignment: the due date of a published assignment may be edited.
EditDue ==
  /\ edits < MaxEdits
  /\ edits' = edits + 1
  /\ \E day \in Day \ {due} : due' = day
  /\ UNCHANGED <<subs, keys, progress, summary, today, user_lock, pc, snap, target,
                 answer, stale>>

-----------------------------------------------------------------------------
(* Grading.                                                                *)

\* is_eligible.
Eligible(row) == ~row.late \/ row.approved

Passing(row) == row.score = FULL

\* Mutant: late work counts without approval.
BestOfAny(p, row) == IF row.score > p.best THEN row.score ELSE p.best

BestWith(p, row) == IF Eligible(row) /\ row.score > p.best THEN row.score ELSE p.best

\* Mutant: an attempt nobody graded counts.
CountsVoid(p, s, row) ==
  [attempts |-> p.attempts + 1,
   retries |-> p.attempts,
   errors |-> IF Passing(row) THEN p.errors ELSE p.errors + 1,
   best |-> BestWith(p, row),
   first_passed |-> IF Eligible(row) /\ Passing(row) /\ p.first_passed = None
                    THEN s ELSE p.first_passed]

\* finalize_progress for the attempt s with the row given.
FinalizeProgress(p, s, row) ==
  IF row.status = "void" THEN p
  ELSE [attempts |-> p.attempts + 1,
        retries |-> p.attempts,
        errors |-> IF Passing(row) THEN p.errors ELSE p.errors + 1,
        best |-> BestWith(p, row),
        first_passed |-> IF Eligible(row) /\ Passing(row) /\ p.first_passed = None
                         THEN s ELSE p.first_passed]

\* What a worker may find: a grade, or a failure of the infrastructure.
Outcome(row) ==
  {[row EXCEPT !.status = "graded", !.score = score] : score \in 0..FULL}
    \cup {[row EXCEPT !.status = "void"]}

\* A worker decides the verdict of s: the transaction locks course, submission
\* and progress.
Judge(s) ==
  /\ subs[s].status = "active"
  /\ \E row \in Outcome(subs[s]) :
       /\ subs' = [subs EXCEPT ![s] = row]
       /\ progress' = FinalizeProgress(progress, s, row)
  /\ UNCHANGED <<keys, summary, calendar, user_lock, pc, snap, target, answer, stale>>

-----------------------------------------------------------------------------
(* approve_late_submission.                                                *)

\* The first plain read is that of the instructor's membership, before the
\* course is locked.  Of the snapshot it fixes the approval reads submissions.
OpenApproval(a, s) ==
  /\ pc[a] = "new"
  /\ subs[s].status # "absent"
  /\ target' = [target EXCEPT ![a] = s]
  /\ pc' = [pc EXCEPT ![a] = "waiting"]
  /\ snap' = [snap EXCEPT ![a] = [NoSnapshot EXCEPT !.subs = subs]]
  /\ UNCHANGED <<subs, keys, progress, summary, calendar, user_lock,
                 answer, stale>>

EligibleGrades(rows) == {s \in Submission : rows[s].status = "graded" /\ Eligible(rows[s])}
Passes(rows) == {s \in EligibleGrades(rows) : Passing(rows[s])}
BestOf(rows) ==
  LET scores == {rows[s].score : s \in EligibleGrades(rows)} \cup {0}
  IN  CHOOSE b \in scores : \A x \in scores : x <= b
FirstOf(ids) == IF ids = {} THEN None ELSE CHOOSE s \in ids : \A t \in ids : s <= t

\* recompute_assignment_grade from the rows its plain SELECT returns.
Recomputed(rows) ==
  [progress EXCEPT !.best = BestOf(rows), !.first_passed = FirstOf(Passes(rows))]

\* Mutant: the approval is not flushed before the grades are read.
Unflushed(a, row) == snap[a].subs

\* The snapshot of an approval with the row it has changed itself.
OwnView(a, row) == [snap[a].subs EXCEPT ![target[a]] = row]

\* A grade committed since the snapshot counts for an attempt not approved here.
Overlooked(a) ==
  \E s \in Submission \ {target[a]} :
    s \in EligibleGrades(subs) /\ s \notin EligibleGrades(snap[a].subs)

\* The locks are held: the row is read as it is, the other rows as they were.
\* refresh_course_problem reads the progress rows as they are.
Approve(a) ==
  LET row == [subs[target[a]] EXCEPT !.approved = TRUE]
  IN  /\ pc[a] = "waiting"
      /\ row.late /\ ~subs[target[a]].approved
      /\ subs' = [subs EXCEPT ![target[a]] = row]
      /\ progress' = Recomputed(OwnView(a, row))
      /\ summary' = progress.attempts
      /\ stale' = Overlooked(a)
      /\ pc' = [pc EXCEPT ![a] = "done"]
      /\ snap' = [snap EXCEPT ![a] = NoSnapshot]
      /\ UNCHANGED <<keys, calendar, user_lock, target, answer>>

\* Not late, or approved already: nothing is written.
KeepGrade(a) ==
  /\ pc[a] = "waiting"
  /\ ~subs[target[a]].late \/ subs[target[a]].approved
  /\ pc' = [pc EXCEPT ![a] = "done"]
  /\ snap' = [snap EXCEPT ![a] = NoSnapshot]
  /\ UNCHANGED <<subs, keys, progress, summary, calendar, user_lock, target, answer,
                 stale>>

-----------------------------------------------------------------------------
(* rebuild_progress: derived rows from the submissions, writers stopped.   *)

Rebuilt ==
  LET upTo[n \in 0..NumSubmissions] ==
        IF n = 0 THEN NoProgress
        ELSE IF subs[n].status = "graded" THEN FinalizeProgress(upTo[n - 1], n, subs[n])
        ELSE upTo[n - 1]
  IN  upTo[NumSubmissions]

Quiet == \A p \in DOMAIN pc : pc[p] \in {"new", "done"}

Rebuild ==
  /\ Quiet
  /\ progress' = Rebuilt
  /\ summary' = Rebuilt.attempts
  /\ stale' = FALSE
  /\ UNCHANGED <<subs, keys, calendar, user_lock, pc, snap, target, answer>>

Next ==
  \/ \E r \in Request : Enter(r) \/ Replay(r) \/ Refuse(r) \/ Reserve(r)
  \/ \E k \in Key : Purge(k)
  \/ NextDay
  \/ EditDue
  \/ \E s \in Submission : Judge(s)
  \/ \E a \in Approval : Approve(a) \/ KeepGrade(a)
                         \/ \E s \in Submission : OpenApproval(a, s)
  \/ Rebuild

Spec == Init /\ [][Next]_vars

-----------------------------------------------------------------------------
(* Properties.                                                             *)

SubmissionRow == [status : {"absent", "active", "graded", "void"}, day : Day,
                  late : BOOLEAN, approved : BOOLEAN, score : 0..FULL]
KeyRow == [sub : Submission \cup {None}, body : Body \cup {None}, day : Day]

\* Type invariant of rows, keys, answers and locks.
TypeOK ==
  /\ subs \in [Submission -> SubmissionRow]
  /\ keys \in [Key -> KeyRow]
  /\ today \in Day /\ due \in Day
  /\ user_lock \in Request \cup {NoRequest}
  /\ pc \in [Request \cup Approval -> {"new", "entered", "waiting", "done"}]
  /\ DOMAIN snap = Request \cup Approval
  /\ target \in [Approval -> Submission \cup {None}]
  /\ answer \in [Request -> Submission \cup {None}]

\* However requests interleave, and although the attempts are counted on a
\* snapshot, a student has at most one attempt in work: the user row is locked
\* before the snapshot is taken.
OneActiveAttempt == Cardinality(Active(subs)) <= 1

\* The attempts that count never exceed the limit of the item; an attempt voided
\* by an infrastructure failure gives its place back, once.
AttemptLimit == Cardinality(Spent(subs)) <= Limit

\* A submission answers requests of one key and one body, and within a day of
\* its reservation its key is answered with no other submission: a request the
\* browser repeats, in whatever order its copies arrive, is one attempt.
SameKeySameAttempt ==
  \A r, q \in Request : answer[r] # None /\ answer[q] # None =>
    IF answer[r] = answer[q] THEN KeyOf[r] = KeyOf[q] /\ BodyOf[r] = BodyOf[q]
    ELSE KeyOf[r] = KeyOf[q] => subs[answer[r]].day # subs[answer[q]].day

\* The recorded grade is never more than the best eligible attempt deserves, even
\* when an approval overtakes another transaction: a stale snapshot can lose a
\* grade but not invent one.
NoUnearnedGrade ==
  /\ progress.best <= BestOf(subs)
  /\ progress.first_passed # None => progress.first_passed \in Passes(subs)

\* Unless the last approval overlooked a grade, the progress kept step
\* by step is the one the maintenance job would rebuild from the submissions, and
\* it is the best of the eligible attempts and the first that passed.
ProgressIsRebuildable ==
  ~stale => /\ progress = Rebuilt
            /\ progress.best = BestOf(subs)
            /\ progress.first_passed = FirstOf(Passes(subs))

\* Attempts, retries and errors are never lost: no interleaving of grading and
\* approval drops or repeats an increment.
CountersAddUp ==
  LET graded == {s \in Submission : subs[s].status = "graded"}
  IN  /\ progress.attempts = Cardinality(graded)
      /\ progress.retries = IF graded = {} THEN 0 ELSE Cardinality(graded) - 1
      /\ progress.errors = Cardinality({s \in graded : ~Passing(subs[s])})

\* D1_Detailed_Design.md:190: a retry cannot lower the recorded best result.
BestNeverDrops == [][progress'.best >= progress.best]_vars
=============================================================================
