# A TLA+ model of techniview

techniview is a course platform on which students solve programming problems. A
FastAPI backend keeps everything in one MySQL database; worker processes share a
queue, held in that same database, of submissions to be graded by a go-judge
sandbox. This directory models the parts of the backend (`src/backend/app`, written
`app/` below) whose correctness depends on the order of transactions, processes and
messages, checks them with TLC on small instances, and proves the core for every
instance with TLAPS.

Three rules hold for every module. An action is a whole transaction, from the last
lock it needs to its commit; what the code reads before that lock is an action of
its own, because MySQL's REPEATABLE READ fixes the snapshot of all later plain
SELECTs at the first one. Histories (variables that only observe) are marked as
such. An operator introduced by `\* Mutant:` is not part of the model: it is a
plausible bug, used to make sure that the property it aims at can fail.

## Inventory

| Component (code) | State | Operations | What is hard, and what makes it correct |
| --- | --- | --- | --- |
| Submission queue and workers (`worker/submissions.py`, `worker/direct.py`, `worker/__main__.py`) | submission row with `claim_owner`, `claimed_at`; case rows with `dispatched_at`, `execution_attempts`; locals of each worker | submit, claim, dispatch, execute, store, finalize, release, supervisor restart | a worker dies or outlives its lease between two transactions; the sandbox may have run a program nobody heard of. A case runs at most once, no grade is invented, the verdict is final, every submission ends |
| Grading of a case and verdict (`core/go_judge.py`, `routers/submissions.py`) | status ids, `failure_code`, `passed_case_count`, `primary_error_category` | `grade`, `_update_case_result`, `_finalize_submission` | mixtures of grades and infrastructure failures, in any order; which error wins; which failure may be retried |
| Reservation of attempts (`routers/submissions.py`, `services/idempotency.py`) | submissions of a student, idempotency keys | `create_submission`, replay, expiry, purge | repeated and overlapping requests; limits counted on a snapshot. One active attempt, the limit holds, a repeated request is one attempt |
| Progress, late approval, summaries (`services/progress.py`, `services/summaries.py`, `services/rebuild_progress.py`) | `student_assignment_progress`, `course_problem_analytics` | `finalize_progress`, `approve_late_submission`, `recompute_assignment_grade`, `rebuild_progress` | two writers of one row, one incremental and one recomputing on a snapshot. Nothing is lost or invented, a rebuild changes nothing |
| Courses and roster (`routers/courses.py`, `routers/join.py`, `services/enrollment.py`) | memberships, invitations, join link, `archived_at` | role change, removal, archive, join, CSV import, cancelling | requests are authorized and partly decided before they hold the course lock |
| Accounts, sessions, tokens (`services/account_recovery.py`, `services/account_throttle.py`, `core/security.py`, `routers/auth.py`, `routers/join.py`) | users, tokens, sessions, throttle rows | recover, reset, verify, log in and out, join login | a reset between the two transactions of a join login, a cooldown checked by a plain read, a window restarted by a clock read earlier. A reset ends what the old password gave, tokens keep their distance, the hourly limit holds |
| Email delivery (`services/email_delivery.py`) | job rows with claim, attempts, backoff | queue, claim, send, record | sending is not transactional, a lease may expire during it, a crash uses an attempt up. A job is sent or gives up, within its attempts |
| Complexity analysis (`services/complexity_analysis.py`, `worker/complexity.py`) | analysis rows with status and attempts | queue, claim, model call, store | the answer is stored without looking at the claim. A finished analysis shows one answer and stays finished, every analysis ends |
| Problem authoring, question sets (`routers/authoring.py`) | problems with test cases, question sets with items | create, copy, edit, publish, archive | no locks: what was checked may be gone when it is acted on. Published content is checked and does not change |
| Assignments, recipients (`routers/assignments.py`, `services/assignments.py`, `services/summaries.py`) | assignment, items, recipients, audits, summaries | create, edit, publish, change recipients, archive | publication freezes items and recipients while roles and problems change under it |
| Recommendations, curriculum (`services/recommendations.py`, `services/curriculum.py`) | none of their own; they read attempts, progress and the catalog | the Trail, the recommendations | two services decide separately what is open; the catalog may change. They agree, and no pool stays locked |
| Practice runs (`routers/problems.py`) | submissions without an assignment | start, limit of three | the limit is counted on a snapshot |
| Catalog import (`services/catalog_import.py`), sources of a run (`services/execution.py`) | problems, `curriculum_nodes` | import | text processing, and a renumbering in one transaction |
| Reporting, metrics, schemas, migrations, deployment | – | – | no control of interest here |
| Web client (`src/frontend`) | request key, polling state | submit, poll | repeats a request with its key after a lost answer |

Components meet in four places. A request inserts a submission and its case rows
(`create_submission`, `run_public_cases`); workers find them by polling. The
transaction that stores the last case result calls `_finalize_submission`, which
writes the verdict and, for an attempt at an assignment, `finalize_progress`.
Instructors change progress through late approval. Everything that writes inside a
course first locks the course row (`require_active_course`), everything a student
starts locks the user row; the workers lock course, submission and case rows in that
order. The client sees rows only through reads. Two more queues hang off this: a
reservation queues a complexity analysis, and the roster and the accounts queue
e-mails, each drained by workers with leases of their own. Assignments are made of the
problems and question sets of authoring, and their recipients of the roster.

## Modules

| Module | Models | Uses |
| --- | --- | --- |
| `Verdict` | `grade`, `_update_case_result`, `_finalize_submission` as operators on rows | – |
| `SubmissionVerdict` | one undisturbed worker and one submission, with all of `Verdict` | `Verdict` |
| `SubmissionWorker` | the queue: several workers, leases, crashes, stalls, clock | `Verdict` |
| `AtMostOnceGrading` | what the queue promises, without workers, claims or time | – |
| `SubmissionRefinement` | the mapping from `SubmissionWorker` to `AtMostOnceGrading` | both |
| `Gradebook` | attempts, keys, progress, late approval and the summary of one student at one item | – |
| `SerialGradebook` | what the gradebook promises, without locks, snapshots and keys | – |
| `GradebookRefinement` | the mapping from `Gradebook` to `SerialGradebook` | both |
| `CourseRoster` | members, invitations and their e-mails, join link, accounts and tokens of one course | – |
| `EmailJobs` | the e-mail queue, its workers and the provider | – |
| `ComplexityQueue` | the queue of complexity analyses and its workers | – |
| `Authoring` | problems and one question set, without locks | – |
| `Assignments` | one assignment from draft to archive, with its recipients | `Authoring` |
| `Accounts` | one account: password, tokens, sessions, throttle | – |
| `Advisor` | the Trail and the recommendations over attempts, time and imports | – |
| `SubmissionWorkerProofs`, `SubmissionVerdictProofs`, `GradebookProofs`, `CourseRosterProofs`, `AssignmentsProofs`, `AccountsProofs`, `EmailJobsProofs` | theorems | the modules they are named after |
| `FeedbackProofs` | theorems | `ComplexityQueue`, `Advisor` |
| `MC*` | instances for TLC | |

### `Verdict` and `SubmissionVerdict`

A report of the sandbox is a record of the fields the conditions of `grade` read: the
status, the signal, whether the output matched, and whether the time or the output
limit was passed. `Grade` is the decision of `grade`; `UpdateCaseResult` and
`MarkInfrastructureFailure` write a case row; `Finalize` is `_finalize_submission`
with its early returns in the code's order, and `Decides` says when it calls
`finalize_progress`. The Python names of exceptions and the text of outputs are left
out. `SubmissionVerdict` dispatches and settles case after case and finalizes after
each of them and once more at the release, as `process_submission` does.

### `SubmissionWorker`

`sub`, `cases`, `claim_owner` and `claim_age` are columns of the database; `counted`
stands for the effect of `finalize_progress`. `pc`, `job`, `cursor`, `attempt`,
`report`, `pending` are the locals of a worker; a crash resets them and keeps the
rows. `Poll`, `NoCandidate`, `SkipCandidate` and `Claim` are `claim_submission`: the
list of candidates is read without locks, each one is locked and compared again with
the clock read at the start. `LoseClaim`, `SkipSettledCase`, `MarkUnknown` and
`Dispatch` are the first transaction of `process_submission` for a case; `Execute`,
`ExecuteUnknown` are the call outside any transaction; `DropReport` and `StoreReport`
are the second transaction with its fence; `Release` is the end. Time is kept as
ages: `claim_age` of `claimed_at`, `poll_age` of the clock a poll has read, `run_age`
of a call. A call takes at most `RUN_LIMIT` ticks and `RUN_LIMIT <= LEASE`, which is
what `Config` enforces (`config.py`: the wall time of go-judge is below the lease);
any longer delay of a busy worker is a stall and is counted. `runs` and `observed`
are what an observer at the sandbox would see.

Abstractions: all submissions have the same number of cases; a candidate list is never cut
off by its limit of 20; an exception that unwinds `process_submission` is a crash (it
leaves the same rows and loses the same locals); the supervisor, which stops all
workers when one exits, is a crash and a restart of each; rows of submissions are
never deleted.

### `Gradebook`

One student and one item. `Enter` locks the user row and only then takes the snapshot,
as `create_submission` does; `Replay`, `Refuse` and `Reserve` are the three ways it
ends. Keys live for a day and are removed by `Purge`. `Judge` is the grading
transaction seen from the progress row. An approval reads the instructor's
membership (`OpenApproval`, which fixes its snapshot) before it locks the course, the
submission and the progress (`Approve`, `KeepGrade`). `Rebuild` is the maintenance
job, which runs with all writers stopped. Of the course summary only
`valid_attempt_count` is kept; approval and rebuild refresh it, grading does not. Scores
are `0..FULL`; attempts are numbered in the order of their reservation, which is also
the order of their ids.

`SerialGradebook` is what all this is for: each request takes effect at one moment, when it
commits, on the attempts there are. It remembers from its arrival only the due date of that
moment and whether there was room. A repeated request gets the attempt of the day made under its key (`Repeat`);
one that found no room is refused, even if an attempt has ended since (`Decline`); one that begins
an attempt finds room *then* (`Begin`). `Decide`, `Accept` and `Restore` leave a book
worth exactly the attempts (`Booked`), except that an approval may lose grades other than its
own. There are no keys, no numbering and no rows locked in it: the mapping
(`GradebookRefinement`) takes the rows as they are, the lock of the user row for the arrival, and
of the snapshot the due date and whether it shows room.

### `CourseRoster`

One course, from the moment `create_course` commits. `Open` is the reads of a request
before the course lock: the membership of the instructor, the course of a join link, the
row of a token. The handlers (`UpdateMemberRole`, `RemoveMember`, `ArchiveCourse`,
`RotateJoinLink`, `ImportEnrollments`, `CancelPendingEnrollment`, `JoinSignup`,
`JoinLogin` and `JoinLoginUnverified`, `VerifyEmail`) hold the lock until they commit; `Refuse` is every
4xx answer and every rollback. What a handler reads from the snapshot and what it reads
again under a lock is written out: memberships, the count of instructors, the
invitation to delete and the accounts of a CSV come from `Snap(r)`; `archived`, the
token, the account that logs in and the invitation a CSV replaces are read as they
are. SQLAlchemy writes a column only if it differs from the value loaded, so a role
that equals the one read is not written. A membership somebody else has inserted
meanwhile makes the insertion fail (`Conflict`). A request authorized as an instructor
does not remember who made it: authorization needs some active instructor in the
snapshot. `mail` counts the open e-mails of an invitation: `ImportEnrollments` queues
one by what it read of the jobs, deleting the invitation makes them pointless, and
`MailSettles` is `EmailJobs` seen from here. Passwords and the course's other fields are
left out; the expiry of a token is the freedom of a verification to be refused.

### `EmailJobs`

`jobs` is the table, `task` what a worker remembers between its transactions.
`ClaimJob` is the first transaction of `process_email_jobs`: it counts the attempt,
takes the lease and decides whether there still is something to say (`HasMessage`:
the token was not used, the invitation not deleted, the student not withdrawn, the
course not archived). `Deliver` is `_deliver`, outside any transaction: a request that
fails may have reached the provider, which sends a key it has accepted once
(`accepted`). `RecordResult` is the last transaction with its fence. A claim is named by
the attempt it counted, which stands for the random `claim_token`. A crash loses the
task at any point. Times are not compared: a backoff ends, a lease expires, sooner or
later (`BackoffEnds`, `LeaseExpires`), so jobs are taken in any order, a lease may
be outlasted at will, and what happens at the exact second is not distinguished.

### `ComplexityQueue`

`ClaimAnalysis` is `claim_analysis`, which looks at the status, the lease and the due
time but not at the attempts; `Ask` is the model call; `Store` is the transaction
afterwards. It neither locks nor reloads the row: the session still has the instance
loaded by the claim (`expire_on_commit=False`), decides on a retry from its
`attempt_count`, and SQLAlchemy writes only the attributes that differ from it
(`Flushed`). `takeovers` counts claims of a row that was still processing. The loss of the
submission during the call is left out: submissions are not deleted.

### `Authoring` and `Assignments`

The authoring routes take no lock. A request is an `Open` action, which reads and checks
(`OwnedDraft`, `Valid`), and a handler, which writes to whatever is there by then. The
content of a problem is what `validate_problem` finds in it: no test cases, a solution
that fails, one that passes. `Written` is the effect of `_set_payload` on test cases that
were replaced meanwhile: the deletion misses them, the insertion collides with them or
mixes with them; `edition` is the identity of the rows for that purpose. A request that its
checks refuse writes nothing and is left out.

`Assignments` adds one assignment, whose requests run beside those of `Authoring` on the
same problems and question set. `Open...` fixes the snapshot by the read of the
instructor's membership; the handlers hold the locks of course and assignment and read
both rows as they are, while items, and the problems loaded with them, come from the
snapshot (`SeenPublished`). Memberships and recipients are locking reads. `RefreshSummaries` counts the
recipients for the items as they were read. `MoveMember` and `ArchiveCourse` are
`CourseRoster` seen from here.

### `Accounts`

One account, which uses the links of several courses, and one source address. A recovery
or a join is a chain: `Arrive` reads the clock, `Admit` is `throttle_account_request`
behind the lock of its row, then comes the request itself, at some course if it is a join.
`RequestPasswordReset`, `ResetPassword`, `VerifyEmail` and `Login` lock the user row, or
read the token again behind that lock, and are one action each. A join login has read the
tokens before it waits (`seen`), commits the membership (`JoinCheck`) and opens its
session in a transaction of its own (`JoinSession`). A token belongs to a purpose and a
course (a reset token to none, `NoCourse`), and the cooldown query of
`issue_account_token` looks for both (`Recent`): tokens of two courses may follow one
another at once. Password hashes are abstracted to how often the password was set. Every
token remembers the password it was issued under, and every session the one that was
checked and the one it was opened under, which the database does not: it is a history.

### `Advisor`

`TECHNIQUE_POOLS` is the table of the code with all its pools, tiers and prerequisites.
The recommendations (`Ready` to `Advice`) are `get_recommendations` with its ranking and its tie
breaks; the Trail (`Status` to `Available`) is `build_curriculum` and
`list_available_problems`. A tick is 30 days, the half-life of an attempt's weight, so weights
are powers of two and rates are compared without dividing. A student tries problems freely
(`Try`), or solves the first recommendation (`FollowAdvice`); `ImportCatalog` replaces the
curriculum in one transaction. Left out: the pool `other-techniques` and the
classification by problem type, which no prerequisite touches.

## What TLC checks

| Run | Instance | Properties | Result |
| --- | --- | --- | --- |
| `worker` | 2 workers, 2 submissions (one a practice run) of 2 cases, every report accepted or lost, 1 crash, 1 stall, lease and run limit 1 tick; symmetric workers | `IInv`, `AtMostOnce`, `GradesAreObserved`, `VerdictMatchesCases`, `CountedOnce`, `PromptWorkerKeepsClaim`, `OnlyOwnerWrites`, `VerdictFinal` | 436 thousand states |
| `refinement` | 2 workers, 1 submission of 2 cases, reports accepted, wrong answer, internal error or lost, 1 crash, 1 stall, with fairness | `GradingPromise` (the refinement, its liveness included), `EverySubmissionEnds` | 31 thousand |
| `verdict` | 3 cases, every report of the sandbox | `FailurePriority`, `CreditIsEarned`, `RetryFollowsLastFailure` | 16 thousand |
| `gradebook_keys` | 4 requests: two equal, one that reuses their key for another body, one of its own; 3 attempts, limit 2, 1 approval, 2 days, one edit of the due date | `AttemptLimit`, `SameKeySameAttempt`, `GradebookPromise` (the refinement) | 942 thousand |
| `gradebook` | 3 attempts, 2 approvals, scores 0..2; symmetric requests and approvals | `NoUnearnedGrade`, `ProgressIsRebuildable`, `CountersAddUp` | 426 thousand |
| `grade_drop` | 2 attempts, 2 approvals, scores 0..1 | `BestNeverDrops` | violated, see Findings |
| `roster` | 3 people (2 with professor accounts), 4 requests of every kind, 2 open at a time, 2 tokens each; symmetric slots | `TokenJoinsOnce`, `OneInvitationMail`, `ArchivedFrozen`, `OrphanedByOverlap`, `InvitationUsedUp`, `JoinKeepsRole` | 656 thousand |
| `email` | 2 workers, 2 notices of an enrolment, 2 attempts each, 2 events that end or bring back their subjects, any number of crashes, with fairness | `SentCleanly`, `CallBudget`, `EveryJobSettles` | 340 thousand |
| `complexity` | 2 workers, 1 submission, 2 labels, 3 attempts, 2 crashes, 2 outlasted leases, with fairness | `CompleteIsTheAnswer`, `FinishedStays`, `EveryAnalysisEnds` | 67 thousand |
| `assignments` | 2 problems in every initial state, 2 students, 3 requests of every kind, 2 open at a time, 1 change of the roster; symmetric problems, students and slots | `PublishedContent`, `FrozenAtPublication`, `RecipientsExplained`, `SummaryCountsRecipients` | 1.1 million |
| `accounts` | 3 recoveries or joins at 2 courses, 2 at a time, times 0..3, window 2, limit 2, cooldown 1, reset tokens for 2 and verification tokens for 3 ticks, 3 tokens, 2 sessions, 2 passwords; symmetric courses and slots | `ResetEndsAccess`, `TokensApart`, `WindowHolds` | 1.6 million |
| `advisor` | 4 problems over six pools of the real table, 2 catalogs, 2 free attempts, 1 tick, 1 import, with a diligent student | `AgreesWithCurriculum`, `TrailEnds` | 339 thousand |

The properties are aimed at the hazards listed in `PROJECT.json`. Several are of the form
"unless a request was overtaken", and name the row another commit must have changed after it
was read: an instructor who was counted and is none any more (`Miscounted`), the invitation or
account of the very address, the state or content of the very problem (`ProblemOvertaken`), an
item added since. They say that the only way to break the rule is an overlap the code does not
lock against, and that it is confined to the commit of the request that overlooked something.

Why the bounds are enough. Two workers are an owner and an usurper; with one crash and one
stall each of them can lose a claim in either way, twice in a row for one case. Two
cases are the fewest with a settled, an open and an untouched one between takeovers,
and two submissions let one worker hold both an old and a new claim. Three attempts and two
approvals let an approval overlook a grade, another repair it, and an attempt be
graded in between; scores 0..2 have one between nothing and full marks. For `GradebookPromise` one
approval is enough, with requests, grading, days and an edit of the due date around it: it can
lose a grade, and a second one could only do so again. Four requests
are the fewest in which two roster operations overlap after two others have prepared a
course with two instructors, or in which an invitation is made, taken up and cancelled
while a verification is under way. Two attempts at an e-mail let a late failure
meet a success, and one more claim meet an exhausted job; its kind is the one whose
subject can also come back, so it shows every other kind's behaviour. Three attempts
at an analysis, two crashes and two outlasted leases let the last permitted attempt be
lost, and two answers mix. Three requests on assignments are two that overlap and one
before them, and the initial states include drafts, so that a publication needs no
request to prepare it. In `accounts`, time 3 lies beyond one window, one reset
token and three cooldowns, three arrivals fill a window of two and begin the next, two joins
overlap at one course or at two, and two sessions are one of a login and one of a join. The four problems of
`advisor` share pools with their prerequisites, one leads to a pool that builds on two others, and
one catalog takes away a problem that opens a pool. What the bounds leave open (more
workers, requests, failures), the proofs cover where there are some.

`CHECK_DEADLOCK FALSE` is used where the instance really ends: when all reports are in
(`verdict`), when the requests of the instance are answered (`roster`, `assignments`,
`accounts`), when every job or analysis is settled (`email`, `complexity`), and when
every problem is solved (`advisor`). The queue of submissions never stops, because its
clock ticks for ever, and the gradebook may be rebuilt at any time.

Fairness. `FairSpec` of the submission queue assumes weak fairness of three things: the loop of a live worker
(`worker/__main__.py` polls for ever, and no step of it waits for another worker
longer than a transaction), the restart of a dead worker (the supervisor exits when
any worker does, and the container restarts it), and the clock. Nothing is assumed
about which submission a worker picks, nor about students. Crashes and stalls are
finite in number because of their bounds; a system in which every attempt to work is
cut short would indeed never finish. Liveness is checked on one submission with two cases; a second
submission only adds to what a poll finds, since every poll looks at all candidates
in the order of their ids. `EmailJobs` and `ComplexityQueue` assume the same of their
workers, whose loops start over after an error, and of time, which ends leases and
backoffs. Crashes of e-mail workers need no bound: each one has used up an attempt.
Those of complexity workers do: the claim does not look at the attempts. `Diligence` in
`Advisor` is weak fairness of `FollowAdvice`, written out: a student who keeps
solving what is recommended first.

## What is proved

All theorems hold for every value of the constants under the named assumption of
their module. For the submission queue (`WorkerAssumption`) that is any finite set of workers, any number of submissions, cases,
crashes and stalls, any set of codes the sandbox may report, any lease, and a call
that fits into the lease; for the others, any sets of requests, users, keys, workers
(finite for the e-mails) and any limits, windows and lifetimes.

`SubmissionWorkerProofs` proves `Spec => []IInv` (`Invariance`) and from it
`TypeCorrect`, `RunsOnce`, `StoresWhatRan`, `VerdictCorrect`, `CountsOnce` and
`OneAtATime`. None of the safety properties is inductive alone: that a case runs at
most once rests on the sandbox call of a worker being for a case that has not run
(`FlightIsOwn`), which rests on no other worker having the same call in flight
(`FlightsDiffer`), which rests on an undispatched case having no history
(`CaseHistory`). A verdict is right because `Finalize` is applied to all cases
after each of them; that it stays right when a worker takes over needs `OneOpenCase`
and `WorkerAtCase` (what a worker has passed is settled) and `RowHistory` (a failure
code comes with a failed case). `IInv` is the conjunction; run `worker` checks it
too. The proof has one lemma per action, and one step in it per conjunct the
action can disturb.

The same module proves the action properties `VerdictIsFinal` and `OwnerWrites` from
`IInv`, and `KeepsClaim` from an invariant of its own, `LeaseInv`: while nobody stalls,
a processing worker holds its claim, the claim is no older than the lease, and during a
call of the sandbox no older than the call. That is where the two assumptions on time
are used: a call and a poll each fit into the lease.

`QueueImplementsGrading` is the safety part of the refinement, `Spec => Grading!GSafety`:
under the mapping of `SubmissionRefinement` submitting, dispatching, running a case and
storing its result are each one step of `AtMostOnceGrading`; a call whose report is lost, or
which a crash cuts off, is a run or nothing; and polls, claims, dropped reports, releases, restarts
and the clock are stutters (`StepRefines`). A dropped report has to be a stutter and a stored
one the code of the run that is recorded, which needs `IInv`. What the refinement adds to it, the fairness of `Advance`, is
checked by the run `refinement`.

`SubmissionVerdictProofs`: the case rows are a function of the reports received so far
(`CasesSettled`), and the failure code is that of the last of them that could not be
graded (`LastFailure`). The codes of the sandbox fall into classes by `Grade`
(`GradeMeaning`), which the categories of `Finalize` order (`PrimaryByPriority`); so
`FailurePriority`, `CreditIsEarned` and `RetryFollowsLastFailure` hold for any number of
cases and any set of reports. The lemmas about rows (what settling, finalizing and
flagging keep) are here and, for the fields the queue needs, in `SubmissionWorkerProofs`.

`GradebookProofs`: `OneActiveAttempt`, `AttemptLimit` and `SameKeySameAttempt`
(`NeverTwoActive`, `LimitHolds`, `OneAttemptPerKey`). A request has entered exactly when
it holds the user row (`LockInv`), and until it leaves, its snapshot shows every attempt
there is; an attempt may have ended since, a key may have been purged (`ViewInv`). So
what it counts is at least what there is. That a repeated request finds its attempt rests
on the key of the day: it is never purged on the day it was written (`AnswerInv`, `KeyInv`).

The second half of that module is about the grade. `GradeInv` says that the progress row
never exceeds what the rows of the attempts are worth (`Earned`) and, unless the last
approval overlooked a grade, is exactly the function `ProgressOf` of them. Two things make
it inductive: only the attempt reserved last can be in work (`LastActive`), so that
grading adds the latest attempt; and what the snapshot of an approval shows is a part of
what there is (`ApprovalView`), so that its recomputation can only miss something. This gives
`CountersAddUp` and `NoUnearnedGrade`. For `ProgressIsRebuildable` the fold of the rebuild is shown to
compute `ProgressOf` for every number of attempts (`RebuiltIs`), by the least row at which
the two could differ. `BestDropsOnlyByStaleApproval` complements the run `grade_drop`: the
commit of an approval that overlooks a grade is the only step that lowers the best.

`GradebookIsSerial` is the whole refinement, `Spec => GradebookPromise`, with one lemma per
action, from the two invariants together. What a reservation found on its snapshot is right at
its commit because the snapshot shows at least what there is (`ReserveRefines`); a request whose key has an
attempt of the day cannot miss it (`TodaysIsRecorded`), and one that is answered with an attempt
belongs to it by key and body (`ReplayRefines`). What `GradeInv` says after a step is what
`SerialGradebook` calls `Booked` (`GradeIsBooked`); the count the summary is given is that of
the attempts because the counters of progress are never behind (`SummaryIsCount`). So
approvals and rebuilds that overlook nothing restore the grade, and progress and summary
agree whenever the summary is refreshed. Only approvals may lose grades, and only of other attempts.
The assumption that requests and approvals are different (`GradebookAssumption`) is needed here.

`AssignmentsProofs`, which covers `Authoring` too: the invariant keeps of every open request what its
checks found in its snapshot (`RequestsChecked`), that a draft has no audits
and no counts (`Unpublished`), and that the last audit ends with the recipients there are
(`LastAudit`). If nobody changed the row a handler decided on, what was checked holds when it
writes; if somebody did, the two differ as the property says: `PublishedContent`,
`FrozenAtPublication`, `SummaryCountsRecipients`. `RecipientsExplained` needs no such
exception, because recipients and memberships are locking reads.

`CourseRosterProofs`: the six properties of the run. The invariant `RosterInv` says
that a token not used up has let nobody in and belongs to no cancelled invitation, that members have
verified accounts, that there is mail only for open invitations, and that some of what a request has
read stays true (`RequestInv`: verified accounts, memberships). The action
properties follow case by case, and only for the people a request is about: if what it read
of them is what is there, it keeps the rule, whatever else was committed meanwhile.

`AccountsProofs`: unused reset tokens belong to the current password, every session was
opened under it, and the sessions of logins checked it (`CurrentAccess`), which is
`ResetEndsAccess`; the count of a throttle row is
the number admitted since its window began (`ThrottleCounts`), which gives `WindowHolds`.
`TokensApart` needs that the tokens a join login has read are still there, as the oldest
ones, with their purpose, course and time (`SeenKept`): what its new token comes too close to
was issued since.

`EmailJobsProofs`: the calls made for a job and the deliveries under way never exceed
the attempts counted (`WithinAttempts`), and a sent job is claimed by nobody, so
that no fence lets a late result through (`CleanlySent`); hence `CallBudget` and
`SentCleanly`.

`FeedbackProofs` is about the two components that tell a student something after the
grading. `ComplexityQueue`: as long as no claim of a row was taken over, one worker at most
works on it and the instance it has loaded is the row (`Undisturbed`). Therefore the
write without a fence does no harm until then: `CompleteIsTheAnswer`,
`FinishedStays`.

`Advisor`: `TrailAndAdviceAgree`, for every catalog that satisfies its assumption and every history of
attempts. (`Advisor` prefixes the parts of its specification, `TrailSpec`, because this module extends it
together with `ComplexityQueue`.) That the services open the same pools follows from what their conditions
mean (`StatusMeaning`, `ReadyIsMarked`). That the recommendations are empty only if nothing is
left to attempt needs more: of the pools with an unsolved problem the first in the table is
ready (`SomePoolReady`), because the table lists prerequisites first (`TableOrdered`, a
fact about its eighteen rows) and a prerequisite of a pool with problems is not empty.

Only model-checked: liveness (`EverySubmissionEnds`, the fairness part of
`GradingPromise`, `EveryJobSettles`, `EveryAnalysisEnds`, `TrailEnds`), since temporal fairness and
ENABLED are beyond the prover. Of the safety properties of the runs only `BestNeverDrops` has
no theorem, because it does not hold.

## Findings

1. **Best results can drop** (`grade_drop`). `recompute_assignment_grade` reads the
   submissions on a snapshot taken before the course lock, so of two overlapping
   approvals the second writes back a grade without the first. `NoUnearnedGrade` and
   `ProgressIsRebuildable` say what still holds: a grade may be missed, never invented,
   and the next approval or a rebuild repairs it. That nothing but an approval that overlooks a
   grade lowers the best is proved (`BestDropsOnlyByStaleApproval`).

Smaller observations, each contained by the property named:

- A course can lose its last instructor when two removals or demotions overlap:
  `_guard_last_instructor` counts on a snapshot (`OrphanedByOverlap`). The import of a CSV on
  an outdated snapshot can invite somebody who is enrolled (`InvitationUsedUp`), or queue
  a second e-mail (`OneInvitationMail`).
- A draft that is edited while it is being validated is published unvalidated
  (`PublishedContent`), and an assignment may publish a problem archived while its
  publication waited (`FrozenAtPublication`).
- The answer of a complexity worker beyond its lease can reopen a complete analysis, or mix
  with another answer (`FinishedStays`, `CompleteIsTheAnswer`).
- A join login opens its session in a second transaction; a reset in between does not
  revoke it (`ResetEndsAccess`). Overlapping join logins at one course may issue two tokens
  within a cooldown (`TokensApart`); tokens of two courses do so by design. The hourly limit is a fixed window: two windows that meet admit up to twice
  the limit within some hour (`WindowHolds` says what the limit does give).
- A job exhausted by crashes has no `last_error`, although `docs/course-accounts.md`
  says exhausted jobs retain theirs. The notice to a withdrawn student is skipped if the
  withdrawal precedes the claim, not the delivery.
- `running`, which the design lists as a state of every submission, is never stored;
  course summaries are not updated by the grading transaction, although the design says so;
  `docs/design/D2_Detailed_Design.md` (lines 75 and 110) knows neither the route that archives an
  assignment nor the recommendations, which the code has.

## Not modelled

`PROJECT.json` lists every component with its status. Left out for good: reads,
reporting and metrics, which change nothing; schemas, migrations and deployment; the
texts of problems and the validation of a catalog file; the generation of program sources; the sandbox itself, which appears
as what a call may return; MySQL deadlock detection (locks are taken in one order, and
a transaction that fails is a crash or a refusal).

Partly modelled, and what is missing: the visibility and assignment checks before a
reservation, and its practice attempts; the columns of a course summary that add over
all students; the limit of three practice runs, which follows the pattern of
`Gradebook`'s reservation; the names, dates and points of courses, question sets and
assignments; the client's polling.

## Plan

The order is that of importance for what students and instructors rely on.

1. Done: grading (`Verdict`, `SubmissionVerdict`, `SubmissionWorker`, `AtMostOnceGrading`,
   `SubmissionRefinement`), attempts and progress (`Gradebook`), the roster
   (`CourseRoster`), the other two queues (`EmailJobs`, `ComplexityQueue`), accounts
   (`Accounts`), content (`Authoring`, `Assignments`), the Trail (`Advisor`), and the
   proofs above.
2. Proved: every safety property of the runs that hold, the safety part of the refinement of the
   queue and the whole refinement of the gradebook. To prove next: `SubmissionVerdict` as what one
   undisturbed worker of `SubmissionWorker` does.
3. To model next: the limit of practice runs together with the reservation of attempts, which
   share the lock of the user; the client's polling composed with `Gradebook`.
