-------------------------- MODULE GradebookProofs --------------------------
(***************************************************************************)
(* Proofs about Gradebook, for any number of requests, approvals,          *)
(* submissions and days: first the reservation of attempts, then the grade.*)
(*                                                                         *)
(* The request that holds the lock of the user row decides on a snapshot   *)
(* taken under that lock, and what it shows can only have become less: no  *)
(* other request reserves, attempts end, keys lapse.  A key that was used  *)
(* today is still there, with the answer it gave.                          *)
(*                                                                         *)
(* The progress row is a function of the rows of the attempts, ProgressOf. *)
(* Grading keeps it so because the attempt in work is the last one, and an *)
(* approval because its snapshot shows no grade that is not there; that    *)
(* the rebuild computes the same function is an induction over the rows,   *)
(* by the least row where the two would differ.                            *)
(***************************************************************************)
EXTENDS GradebookRefinement, FiniteSetTheorems, TLAPS

USE GradebookAssumption

LockInv == \A r \in Request : pc[r] = "entered" <=> user_lock = r

\* What a request has read under the lock of the user.
ViewInv(r) ==
  pc[r] = "entered" =>
    /\ answer[r] = None
    /\ snap[r].due \in Day
    /\ Active(subs) \subseteq Active(snap[r].subs)
    /\ Spent(subs) \subseteq Spent(snap[r].subs)
    /\ \A k \in Key : keys[k] # NoKey => snap[r].keys[k] # NoKey

\* Attempts are numbered without gaps.
RowsInv ==
  /\ \E n \in 0..NumSubmissions : Reserved(subs) = 1..n
  /\ \A s \in Reserved(subs) : subs[s].day <= today

\* A key belongs to the request whose attempt it is attached to.
KeyInv(k) ==
  keys[k] # NoKey =>
    /\ keys[k].sub \in Reserved(subs)
    /\ keys[k].day = subs[keys[k].sub].day
    /\ \E r \in Request : /\ answer[r] = keys[k].sub
                          /\ KeyOf[r] = k /\ BodyOf[r] = keys[k].body

\* What was answered today is what the key answers.
AnswerInv(r) ==
  answer[r] # None =>
    /\ answer[r] \in Reserved(subs)
    /\ subs[answer[r]].day = today =>
         keys[KeyOf[r]] # NoKey /\ keys[KeyOf[r]].sub = answer[r]

NewUnanswered == \A r \in Request : pc[r] = "new" => answer[r] = None

AttemptInv ==
  /\ TypeOK
  /\ LockInv /\ NewUnanswered
  /\ \A r \in Request : ViewInv(r) /\ AnswerInv(r)
  /\ OneActiveAttempt /\ AttemptLimit
  /\ RowsInv
  /\ \A k \in Key : KeyInv(k)
  /\ SameKeySameAttempt

-----------------------------------------------------------------------------
LEMMA Intervals ==
  /\ IsFiniteSet(Submission)
  /\ \A n \in Nat : Cardinality(1..n) = n
BY FS_Interval DEF GradebookAssumption, Submission

LEMMA Rows ==
  ASSUME NEW rows
  PROVE  /\ IsFiniteSet(Active(rows)) /\ Cardinality(Active(rows)) \in Nat
         /\ IsFiniteSet(Spent(rows)) /\ Cardinality(Spent(rows)) \in Nat
         /\ Active(rows) \subseteq Spent(rows) /\ Spent(rows) \subseteq Reserved(rows)
<1>1. Active(rows) \in SUBSET Submission /\ Spent(rows) \in SUBSET Submission
  BY DEF Active, Spent, Reserved
<1>2. IsFiniteSet(Active(rows)) /\ IsFiniteSet(Spent(rows))
  BY <1>1, Intervals, FS_Subset
<1> QED
  BY <1>2, FS_CardinalityType DEF Active, Spent, Reserved

LEMMA Shrinking ==
  ASSUME NEW S, NEW T, IsFiniteSet(T), S \subseteq T
  PROVE  Cardinality(S) <= Cardinality(T)
BY FS_Subset

LEMMA InitAttemptInv == Init => AttemptInv
<1> SUFFICES ASSUME Init PROVE AttemptInv
  OBVIOUS
<1>1. NoSubmission \in SubmissionRow /\ NoKey \in KeyRow /\ 0 \in Day
  BY DEF NoSubmission, SubmissionRow, NoKey, KeyRow, Day, None, GradebookAssumption
<1>2. TypeOK
  BY <1>1 DEF Init, TypeOK
<1>3. Reserved(subs) = {} /\ Active(subs) = {} /\ Spent(subs) = {}
  BY DEF Init, Reserved, Active, Spent, NoSubmission
<1>4. Cardinality({}) = 0 /\ {} = 1..0 /\ 0 \in 0..NumSubmissions
  BY FS_EmptySet DEF GradebookAssumption
<1>5. RowsInv /\ OneActiveAttempt /\ AttemptLimit
  BY <1>3, <1>4 DEF RowsInv, OneActiveAttempt, AttemptLimit, GradebookAssumption
<1>6. LockInv
  BY DEF Init, LockInv, GradebookAssumption
<1>7. SameKeySameAttempt
  BY DEF Init, SameKeySameAttempt
<1> QED
  BY <1>2, <1>5, <1>6, <1>7 DEF Init, AttemptInv, ViewInv, AnswerInv, KeyInv, NewUnanswered

-----------------------------------------------------------------------------
(* Rows that keep their numbers and days.                                  *)

\* Row by row, attempts stay attempts and may end.
Progressed ==
  /\ subs' \in [Submission -> SubmissionRow]
  /\ \A s \in Submission :
       /\ subs'[s].day = subs[s].day
       /\ (subs'[s].status = "absent") = (subs[s].status = "absent")
       /\ subs'[s].status = "active" => subs[s].status = "active"
       /\ subs[s].status = "void" => subs'[s].status = "void"

LEMMA ProgressedSets ==
  ASSUME Progressed
  PROVE  /\ Reserved(subs') = Reserved(subs)
         /\ Active(subs') \subseteq Active(subs) /\ Spent(subs') \subseteq Spent(subs)
BY DEF Progressed, Reserved, Active, Spent

\* A request or an approval p that does not hold the lock moves to another step.
LEMMA ProgressedInv ==
  ASSUME AttemptInv, Progressed, UNCHANGED <<keys, today, user_lock, answer>>,
         pc' \in [Request \cup Approval -> {"new", "entered", "waiting", "done"}],
         target' \in [Approval -> Submission \cup {None}],
         DOMAIN snap' = Request \cup Approval, due' \in Day,
         \A r \in Request : pc'[r] = "entered" <=> pc[r] = "entered",
         \A r \in Request : pc'[r] = "new" => pc[r] = "new",
         \A r \in Request : pc[r] = "entered" => snap'[r] = snap[r]
  PROVE  AttemptInv'
<1>1. TypeOK' /\ LockInv' /\ NewUnanswered'
  BY DEF AttemptInv, TypeOK, LockInv, NewUnanswered, Progressed
<1>2. Reserved(subs') = Reserved(subs) /\ Active(subs') \subseteq Active(subs)
      /\ Spent(subs') \subseteq Spent(subs)
  BY ProgressedSets
<1>3. \A s \in Reserved(subs) : subs'[s].day = subs[s].day
  BY DEF Progressed, Reserved
<1>4. OneActiveAttempt' /\ AttemptLimit'
  <2>1. /\ Cardinality(Active(subs')) <= Cardinality(Active(subs))
        /\ Cardinality(Spent(subs')) <= Cardinality(Spent(subs))
    BY <1>2, Rows, Shrinking
  <2>2. Cardinality(Active(subs')) \in Nat /\ Cardinality(Spent(subs')) \in Nat
    BY Rows
  <2> QED
    BY <2>1, <2>2, Rows DEF AttemptInv, OneActiveAttempt, AttemptLimit, GradebookAssumption
<1>5. ASSUME NEW r \in Request PROVE ViewInv(r)' /\ AnswerInv(r)'
  BY <1>2, <1>3 DEF AttemptInv, ViewInv, AnswerInv
<1>6. RowsInv'
  BY <1>2, <1>3 DEF AttemptInv, RowsInv
<1>7. ASSUME NEW k \in Key PROVE KeyInv(k)'
  BY <1>2, <1>3 DEF AttemptInv, KeyInv
<1>8. SameKeySameAttempt'
  BY <1>3 DEF AttemptInv, SameKeySameAttempt, AnswerInv
<1> QED
  BY <1>1, <1>4, <1>5, <1>6, <1>7, <1>8 DEF AttemptInv

-----------------------------------------------------------------------------
(* Grading, approvals, the rebuild and the calendar.                       *)

LEMMA GradedRows ==
  ASSUME NEW row \in SubmissionRow
  PROVE  /\ \A score \in 0..FULL :
              /\ [row EXCEPT !.status = "graded", !.score = score] \in SubmissionRow
              /\ [row EXCEPT !.status = "graded", !.score = score].day = row.day
              /\ [row EXCEPT !.status = "graded", !.score = score].status = "graded"
         /\ [row EXCEPT !.status = "void"] \in SubmissionRow
         /\ [row EXCEPT !.status = "void"].day = row.day
         /\ [row EXCEPT !.status = "void"].status = "void"
         /\ [row EXCEPT !.approved = TRUE] \in SubmissionRow
         /\ [row EXCEPT !.approved = TRUE].day = row.day
         /\ [row EXCEPT !.approved = TRUE].status = row.status
BY DEF SubmissionRow

LEMMA OutcomeRow ==
  ASSUME NEW base \in SubmissionRow, NEW row \in Outcome(base)
  PROVE  /\ row \in SubmissionRow /\ row.day = base.day
         /\ row.status \in {"graded", "void"}
<1>1. CASE row = [base EXCEPT !.status = "void"]
  BY <1>1, GradedRows
<1>2. CASE \E score \in 0..FULL : row = [base EXCEPT !.status = "graded", !.score = score]
  <2>1. PICK score \in 0..FULL : row = [base EXCEPT !.status = "graded", !.score = score]
    BY <1>2
  <2>2. /\ [base EXCEPT !.status = "graded", !.score = score] \in SubmissionRow
        /\ [base EXCEPT !.status = "graded", !.score = score].day = base.day
        /\ [base EXCEPT !.status = "graded", !.score = score].status = "graded"
    BY DEF SubmissionRow
  <2> QED
    BY <2>1, <2>2, Zenon
<1> QED
  BY <1>1, <1>2 DEF Outcome

LEMMA JudgeInv ==
  ASSUME AttemptInv, NEW s \in Submission, Judge(s)
  PROVE  AttemptInv'
<1>1. PICK row \in Outcome(subs[s]) : subs' = [subs EXCEPT ![s] = row]
  BY DEF Judge
<1>2. subs[s] \in SubmissionRow /\ subs[s].status = "active"
  BY DEF Judge, AttemptInv, TypeOK
<1>3. row \in SubmissionRow /\ row.day = subs[s].day /\ row.status \in {"graded", "void"}
  BY <1>1, <1>2, OutcomeRow
<1>4. Progressed
  BY <1>1, <1>2, <1>3 DEF Progressed, AttemptInv, TypeOK
<1> QED
  BY <1>4, ProgressedInv DEF Judge, calendar, AttemptInv, TypeOK

LEMMA UnchangedRows == AttemptInv /\ UNCHANGED subs => Progressed
BY DEF AttemptInv, TypeOK, Progressed

LEMMA ApprovalInv ==
  ASSUME AttemptInv, NEW a \in Approval,
         Approve(a) \/ KeepGrade(a) \/ \E s \in Submission : OpenApproval(a, s)
  PROVE  AttemptInv'
<1>1. UNCHANGED <<keys, today, due, user_lock, answer>>
  BY DEF Approve, KeepGrade, OpenApproval, calendar
<1>2. PICK step \in {"waiting", "done"}, t \in Submission \cup {None},
           view \in {NoSnapshot, [NoSnapshot EXCEPT !.subs = subs]} :
        /\ pc' = [pc EXCEPT ![a] = step] /\ target' = [target EXCEPT ![a] = t]
        /\ snap' = [snap EXCEPT ![a] = view] /\ pc[a] # "entered"
  <2>1. CASE Approve(a) \/ KeepGrade(a)
    <3>1. target' = [target EXCEPT ![a] = target[a]] /\ target[a] \in Submission \cup {None}
      BY <2>1 DEF Approve, KeepGrade, AttemptInv, TypeOK
    <3>2. pc' = [pc EXCEPT ![a] = "done"] /\ snap' = [snap EXCEPT ![a] = NoSnapshot]
          /\ pc[a] # "entered"
      BY <2>1 DEF Approve, KeepGrade
    <3> QED
      BY <3>1, <3>2
  <2>2. CASE \E s \in Submission : OpenApproval(a, s)
    BY <2>2 DEF OpenApproval
  <2> QED
    BY <2>1, <2>2
<1>3. Progressed
  <2>1. CASE Approve(a)
    <3> DEFINE s == target[a]
               row == [subs[s] EXCEPT !.approved = TRUE]
    <3>1. subs' = [subs EXCEPT ![s] = row]
      BY <2>1 DEF Approve
    <3>2. \A u \in Submission : subs[u] \in SubmissionRow
      BY DEF AttemptInv, TypeOK
    <3>3. s \in Submission => row \in SubmissionRow /\ row.day = subs[s].day
                              /\ row.status = subs[s].status
      BY <3>2, GradedRows
    <3> HIDE DEF s, row
    <3> QED
      BY <3>1, <3>2, <3>3 DEF Progressed, AttemptInv, TypeOK
  <2>2. CASE KeepGrade(a) \/ \E s \in Submission : OpenApproval(a, s)
    BY <2>2, UnchangedRows DEF KeepGrade, OpenApproval
  <2> QED
    BY <2>1, <2>2
<1>4. /\ pc' \in [Request \cup Approval -> {"new", "entered", "waiting", "done"}]
      /\ target' \in [Approval -> Submission \cup {None}]
      /\ DOMAIN snap' = Request \cup Approval
  BY <1>2 DEF AttemptInv, TypeOK
<1>5. ASSUME NEW r \in Request
      PROVE  /\ pc'[r] = "entered" <=> pc[r] = "entered"
             /\ pc'[r] = "new" => pc[r] = "new"
             /\ pc[r] = "entered" => snap'[r] = snap[r]
  BY <1>2 DEF AttemptInv, TypeOK
<1> QED
  BY <1>1, <1>3, <1>4, <1>5, ProgressedInv DEF AttemptInv, TypeOK

LEMMA OutsideInv ==
  ASSUME AttemptInv, Rebuild \/ EditDue
  PROVE  AttemptInv'
<1>1. UNCHANGED <<subs, keys, today, user_lock, answer, pc, snap, target>> /\ due' \in Day
  BY DEF Rebuild, EditDue, calendar, AttemptInv, TypeOK
<1> QED
  BY <1>1, UnchangedRows, ProgressedInv DEF AttemptInv, TypeOK

\* A day later nothing was answered today.
LEMMA NextDayInv ==
  ASSUME AttemptInv, NextDay
  PROVE  AttemptInv'
<1>1. /\ UNCHANGED <<subs, keys, due, user_lock, pc, snap, target, answer>>
      /\ today \in Day /\ today' = today + 1 /\ today' \in Day
  BY DEF NextDay, AttemptInv, TypeOK, Day, GradebookAssumption
<1>2. \A s \in Reserved(subs) : subs[s].day \in Nat /\ subs[s].day <= today
  BY DEF AttemptInv, RowsInv, TypeOK, SubmissionRow, Day, Reserved
<1>3. TypeOK' /\ LockInv' /\ NewUnanswered' /\ RowsInv'
  BY <1>1, <1>2 DEF AttemptInv, TypeOK, LockInv, NewUnanswered, RowsInv, Reserved, Day
<1>4. ASSUME NEW r \in Request PROVE ViewInv(r)' /\ AnswerInv(r)'
  <2>1. ViewInv(r)'
    BY <1>1 DEF AttemptInv, ViewInv, Active, Spent, Reserved
  <2>2. answer[r] # None => answer[r] \in Reserved(subs) /\ subs[answer[r]].day # today'
    BY <1>1, <1>2 DEF AttemptInv, AnswerInv, Day
  <2> QED
    BY <1>1, <2>1, <2>2 DEF AnswerInv, Reserved
<1>5. ASSUME NEW k \in Key PROVE KeyInv(k)'
  BY <1>1 DEF AttemptInv, KeyInv, Reserved
<1>6. OneActiveAttempt' /\ AttemptLimit' /\ SameKeySameAttempt'
  BY <1>1 DEF AttemptInv, OneActiveAttempt, AttemptLimit, SameKeySameAttempt, Active,
     Spent, Reserved
<1> QED
  BY <1>3, <1>4, <1>5, <1>6 DEF AttemptInv

\* A key that was used today is not purged.
LEMMA PurgeInv ==
  ASSUME AttemptInv, NEW k \in Key, Purge(k)
  PROVE  AttemptInv'
<1>1. /\ UNCHANGED <<subs, today, due, user_lock, pc, snap, target, answer>>
      /\ keys' = [keys EXCEPT ![k] = NoKey]
      /\ keys[k] # NoKey /\ keys[k].day < today
  BY DEF Purge, calendar, Lapsed
<1>2. NoKey \in KeyRow
  BY DEF AttemptInv, TypeOK, KeyRow, NoKey, Day, GradebookAssumption, None
<1>3. TypeOK' /\ LockInv' /\ NewUnanswered' /\ RowsInv'
  BY <1>1, <1>2 DEF AttemptInv, TypeOK, LockInv, NewUnanswered, RowsInv, Reserved
<1>4. \A j \in Key : keys'[j] = keys[j] \/ (j = k /\ keys'[j] = NoKey)
  BY <1>1 DEF AttemptInv, TypeOK
<1>5. ASSUME NEW r \in Request PROVE ViewInv(r)' /\ AnswerInv(r)'
  <2>1. ViewInv(r)'
    BY <1>1, <1>4 DEF AttemptInv, ViewInv, Active, Spent, Reserved
  <2>2. ASSUME answer[r] # None, subs[answer[r]].day = today PROVE KeyOf[r] # k
    <3>1. KeyOf[r] = k => keys[k].day = today
      BY <1>1, <2>2 DEF AttemptInv, AnswerInv, KeyInv
    <3>2. keys[k].day \in Nat /\ today \in Nat
      BY DEF AttemptInv, TypeOK, KeyRow, Day
    <3> QED
      BY <1>1, <3>1, <3>2
  <2>3. KeyOf[r] \in Key
    BY DEF GradebookAssumption
  <2>4. AnswerInv(r)'
    BY <1>1, <1>4, <2>2, <2>3 DEF AttemptInv, AnswerInv, Reserved
  <2> QED
    BY <2>1, <2>4
<1>6. ASSUME NEW j \in Key PROVE KeyInv(j)'
  BY <1>1, <1>4 DEF AttemptInv, KeyInv, Reserved
<1>7. OneActiveAttempt' /\ AttemptLimit' /\ SameKeySameAttempt'
  BY <1>1 DEF AttemptInv, OneActiveAttempt, AttemptLimit, SameKeySameAttempt, Active,
     Spent, Reserved
<1> QED
  BY <1>3, <1>5, <1>6, <1>7 DEF AttemptInv

-----------------------------------------------------------------------------
(* create_submission.                                                      *)

\* The snapshot is taken under the lock of the user.
LEMMA EnterInv ==
  ASSUME AttemptInv, NEW r \in Request, Enter(r)
  PROVE  AttemptInv'
<1>1. /\ UNCHANGED <<subs, keys, today, due, target, answer>>
      /\ pc[r] = "new" /\ pc' = [pc EXCEPT ![r] = "entered"]
      /\ user_lock = NoRequest /\ user_lock' = r
      /\ snap' = [snap EXCEPT ![r] = Snapshot]
  BY DEF Enter, UserLockFree, calendar
<1>2. TypeOK'
  BY <1>1 DEF AttemptInv, TypeOK
<1>3. LockInv'
  BY <1>1 DEF AttemptInv, LockInv, TypeOK, GradebookAssumption
<1>4. ASSUME NEW q \in Request PROVE ViewInv(q)' /\ AnswerInv(q)'
  <2>1. pc[q] # "entered"
    BY <1>1 DEF AttemptInv, LockInv, GradebookAssumption
  <2>2. AnswerInv(q)'
    BY <1>1 DEF AttemptInv, AnswerInv, Reserved
  <2>3. CASE q = r
    <3>1. snap'[q].subs = subs /\ snap'[q].keys = keys /\ snap'[q].due = due
      BY <1>1, <2>3 DEF AttemptInv, TypeOK, Snapshot
    <3>2. answer[q] = None
      BY <1>1, <2>3 DEF AttemptInv, NewUnanswered
    <3>3. due \in Day
      BY DEF AttemptInv, TypeOK
    <3> QED
      BY <1>1, <2>2, <3>1, <3>2, <3>3 DEF ViewInv, Active, Spent, Reserved
  <2>4. CASE q # r
    BY <1>1, <2>1, <2>2, <2>4 DEF AttemptInv, TypeOK, ViewInv
  <2> QED
    BY <2>3, <2>4
<1>5. ASSUME NEW k \in Key PROVE KeyInv(k)'
  BY <1>1 DEF AttemptInv, KeyInv, Reserved
<1>6. OneActiveAttempt' /\ AttemptLimit' /\ SameKeySameAttempt' /\ RowsInv'
  BY <1>1 DEF AttemptInv, OneActiveAttempt, AttemptLimit, SameKeySameAttempt, Active, Spent,
     Reserved, RowsInv
<1>7. NewUnanswered'
  BY <1>1 DEF AttemptInv, NewUnanswered, TypeOK
<1> QED
  BY <1>2, <1>3, <1>4, <1>5, <1>6, <1>7 DEF AttemptInv

\* The request r leaves; the others have not entered.
LEMMA LeaveInv ==
  ASSUME AttemptInv, NEW r \in Request, NEW reply \in Submission \cup {None},
         pc[r] = "entered", Leave(r, reply)
  PROVE  /\ UNCHANGED <<today, due, target>>
         /\ pc' \in [Request \cup Approval -> {"new", "entered", "waiting", "done"}]
         /\ DOMAIN snap' = Request \cup Approval
         /\ answer' \in [Request -> Submission \cup {None}]
         /\ user_lock' \in Request \cup {NoRequest}
         /\ answer[r] = None /\ answer' = [answer EXCEPT ![r] = reply]
         /\ LockInv' /\ NewUnanswered' /\ \A q \in Request : ViewInv(q)'
<1>1. /\ UNCHANGED <<today, due, target>>
      /\ pc' = [pc EXCEPT ![r] = "done"] /\ snap' = [snap EXCEPT ![r] = NoSnapshot]
      /\ answer' = [answer EXCEPT ![r] = reply] /\ user_lock' = NoRequest
  BY DEF Leave, calendar
<1>2. answer[r] = None /\ \A q \in Request \ {r} : pc[q] # "entered"
  BY DEF AttemptInv, LockInv, ViewInv
<1>3. \A q \in Request : pc'[q] # "entered"
  BY <1>1, <1>2 DEF AttemptInv, TypeOK
<1>4. LockInv' /\ \A q \in Request : ViewInv(q)'
  BY <1>1, <1>3 DEF LockInv, ViewInv, GradebookAssumption
<1>5. NewUnanswered'
  BY <1>1 DEF AttemptInv, NewUnanswered, TypeOK
<1> QED
  BY <1>1, <1>2, <1>4, <1>5 DEF AttemptInv, TypeOK

LEMMA RefuseInv ==
  ASSUME AttemptInv, NEW r \in Request, Refuse(r)
  PROVE  AttemptInv'
<1>1. UNCHANGED <<subs, keys>> /\ Leave(r, None) /\ pc[r] = "entered"
  BY DEF Refuse
<1>2. /\ UNCHANGED <<today, due, target>>
      /\ pc' \in [Request \cup Approval -> {"new", "entered", "waiting", "done"}]
      /\ DOMAIN snap' = Request \cup Approval
      /\ user_lock' \in Request \cup {NoRequest}
      /\ answer[r] = None /\ answer' = [answer EXCEPT ![r] = None]
      /\ LockInv' /\ NewUnanswered' /\ \A q \in Request : ViewInv(q)'
  BY <1>1, LeaveInv
<1>3. answer' = answer
  BY <1>2 DEF AttemptInv, TypeOK
<1>4. ASSUME NEW q \in Request PROVE AnswerInv(q)'
  BY <1>1, <1>2, <1>3 DEF AttemptInv, AnswerInv, Reserved
<1>5. ASSUME NEW k \in Key PROVE KeyInv(k)'
  BY <1>1, <1>3 DEF AttemptInv, KeyInv, Reserved
<1>6. OneActiveAttempt' /\ AttemptLimit' /\ SameKeySameAttempt' /\ RowsInv'
  BY <1>1, <1>2, <1>3 DEF AttemptInv, OneActiveAttempt, AttemptLimit, SameKeySameAttempt, Active,
     Spent, Reserved, RowsInv
<1> QED
  BY <1>1, <1>2, <1>3, <1>4, <1>5, <1>6 DEF AttemptInv, TypeOK

\* A request is answered with the attempt of its key, which another request of
\* the same key and body has reserved.
LEMMA ReplayInv ==
  ASSUME AttemptInv, NEW r \in Request, Replay(r)
  PROVE  AttemptInv'
<1> DEFINE k == KeyOf[r]
           reply == IF keys[k].body = BodyOf[r] THEN keys[k].sub ELSE None
<1>1. k \in Key /\ keys[k] # NoKey /\ ~Lapsed(keys[k]) /\ Record(r) = keys[k]
  BY DEF Replay, Record, GradebookAssumption
<1>2. UNCHANGED <<subs, keys>> /\ Leave(r, reply) /\ pc[r] = "entered"
  BY <1>1 DEF Replay
<1>3. /\ keys[k].sub \in Reserved(subs) /\ keys[k].sub \in Submission
      /\ keys[k].day = subs[keys[k].sub].day
  BY <1>1 DEF AttemptInv, KeyInv, Reserved
<1>4. PICK o \in Request : answer[o] = keys[k].sub /\ KeyOf[o] = k /\ BodyOf[o] = keys[k].body
  BY <1>1 DEF AttemptInv, KeyInv
<1>5. reply \in Submission \cup {None}
  BY <1>3
<1>6. /\ UNCHANGED <<today, due, target>>
      /\ pc' \in [Request \cup Approval -> {"new", "entered", "waiting", "done"}]
      /\ DOMAIN snap' = Request \cup Approval
      /\ answer' \in [Request -> Submission \cup {None}]
      /\ user_lock' \in Request \cup {NoRequest}
      /\ answer[r] = None /\ answer' = [answer EXCEPT ![r] = reply]
      /\ LockInv' /\ NewUnanswered' /\ \A q \in Request : ViewInv(q)'
  BY <1>2, <1>5, LeaveInv
<1>7. answer'[r] # None => answer'[r] = keys[k].sub /\ BodyOf[r] = keys[k].body
  BY <1>6 DEF AttemptInv, TypeOK
<1>8. \A q \in Request \ {r} : answer'[q] = answer[q]
  BY <1>6 DEF AttemptInv, TypeOK
<1> HIDE DEF k, reply
<1>9. ASSUME NEW q \in Request PROVE AnswerInv(q)'
  <2>1. CASE q = r
    BY <1>1, <1>2, <1>3, <1>6, <1>7, <2>1 DEF AnswerInv, Reserved, k
  <2>2. CASE q # r
    BY <1>2, <1>6, <1>8, <2>2 DEF AttemptInv, AnswerInv, Reserved
  <2> QED
    BY <2>1, <2>2
<1>10. ASSUME NEW j \in Key PROVE KeyInv(j)'
  <2>1. ASSUME NEW q \in Request, answer[q] = keys[j].sub, keys[j].sub \in Submission
        PROVE  answer'[q] = keys[j].sub
    BY <1>6, <1>8, <2>1 DEF None, Submission, GradebookAssumption
  <2>2. keys[j] # NoKey => keys[j].sub \in Submission
    BY DEF AttemptInv, KeyInv, Reserved
  <2> QED
    BY <1>2, <2>1, <2>2 DEF AttemptInv, KeyInv, Reserved
<1>11. SameKeySameAttempt'
  <2>1. ASSUME NEW q \in Request, answer'[q] # None
        PROVE  \E p \in Request :
                 answer[p] = answer'[q] /\ KeyOf[p] = KeyOf[q] /\ BodyOf[p] = BodyOf[q]
    BY <1>4, <1>7, <1>8, <2>1 DEF k
  <2>2. SameKeySameAttempt
    BY DEF AttemptInv
  <2> QED
    BY <1>2, <2>1, <2>2 DEF SameKeySameAttempt
<1>12. OneActiveAttempt' /\ AttemptLimit' /\ RowsInv'
  BY <1>2, <1>6 DEF AttemptInv, OneActiveAttempt, AttemptLimit, Active, Spent, Reserved, RowsInv
<1> QED
  BY <1>2, <1>6, <1>9, <1>10, <1>11, <1>12 DEF AttemptInv, TypeOK

\* What the reservation adds: one active attempt of today, with a number of its
\* own, where none was active and the limit was not reached.
LEMMA ReservedRow ==
  ASSUME AttemptInv, NEW r \in Request, Reserve(r)
  PROVE  \E s \in Submission :
           /\ s \notin Reserved(subs)
           /\ subs' \in [Submission -> SubmissionRow]
           /\ subs'[s].status = "active" /\ subs'[s].day = today
           /\ \A t \in Submission \ {s} : subs'[t] = subs[t]
           /\ AttachKey(r, s) /\ Leave(r, s)
           /\ Reserved(subs') = 1..s
           /\ RowsInv'
<1> DEFINE s == Cardinality(Reserved(subs)) + 1
           late == today > snap[r].due
           row == [NoSubmission EXCEPT !.status = "active", !.day = today, !.late = late]
<1>1. /\ s \in Submission /\ subs' = [subs EXCEPT ![s] = row]
      /\ AttachKey(r, s) /\ Leave(r, s) /\ today' = today
  BY DEF Reserve, Leave, calendar
<1>2. PICK n \in 0..NumSubmissions : Reserved(subs) = 1..n
  BY DEF AttemptInv, RowsInv
<1>3. s = n + 1
  BY <1>2, Intervals
<1>4. s \notin Reserved(subs)
  BY <1>2, <1>3
<1>5. late \in BOOLEAN
  <2>1. today \in Nat /\ snap[r].due \in Nat
    BY DEF Reserve, AttemptInv, TypeOK, ViewInv, Day
  <2> QED
    BY <2>1
<1> HIDE DEF late
<1>6. today \in Day /\ subs \in [Submission -> SubmissionRow]
  BY DEF AttemptInv, TypeOK
<1>7. row \in SubmissionRow /\ row.status = "active" /\ row.day = today
  <2>1. NoSubmission \in SubmissionRow
    BY DEF NoSubmission, SubmissionRow, Day, GradebookAssumption
  <2>2. ASSUME NEW base \in SubmissionRow, NEW l \in BOOLEAN
        PROVE  /\ [base EXCEPT !.status = "active", !.day = today, !.late = l] \in SubmissionRow
               /\ [base EXCEPT !.status = "active", !.day = today, !.late = l].status = "active"
               /\ [base EXCEPT !.status = "active", !.day = today, !.late = l].day = today
    BY <1>6 DEF SubmissionRow
  <2> QED
    BY <1>5, <2>1, <2>2
<1> HIDE DEF row, s
<1>8. /\ subs' \in [Submission -> SubmissionRow] /\ subs'[s] = row
      /\ \A t \in Submission \ {s} : subs'[t] = subs[t]
  BY <1>1, <1>6, <1>7
<1>9. Reserved(subs') = Reserved(subs) \cup {s}
  BY <1>1, <1>7, <1>8 DEF Reserved
<1>10. Reserved(subs') = 1..s /\ s \in 0..NumSubmissions
  <2>1. n + 1 \in 0..NumSubmissions /\ 1..(n + 1) = (1..n) \cup {n + 1}
    BY <1>1, <1>3 DEF Submission, GradebookAssumption
  <2> QED
    BY <1>2, <1>3, <1>9, <2>1
<1>11. RowsInv'
  <2>1. \A t \in Reserved(subs') : subs'[t].day <= today
    BY <1>4, <1>6, <1>7, <1>8, <1>9 DEF AttemptInv, RowsInv, Reserved, Day
  <2> QED
    BY <1>1, <1>10, <2>1 DEF RowsInv
<1> QED
  BY <1>1, <1>4, <1>7, <1>8, <1>10, <1>11

LEMMA ReserveInv ==
  ASSUME AttemptInv, NEW r \in Request, Reserve(r)
  PROVE  AttemptInv'
<1> DEFINE k == KeyOf[r]
<1>1. /\ pc[r] = "entered" /\ Record(r) = NoKey
      /\ Active(snap[r].subs) = {} /\ ~LimitReached(snap[r].subs)
  BY DEF Reserve
<1>2. PICK s \in Submission :
        /\ s \notin Reserved(subs)
        /\ subs' \in [Submission -> SubmissionRow]
        /\ subs'[s].status = "active" /\ subs'[s].day = today
        /\ \A t \in Submission \ {s} : subs'[t] = subs[t]
        /\ AttachKey(r, s) /\ Leave(r, s)
        /\ RowsInv'
  BY ReservedRow
<1>3. /\ UNCHANGED <<today, due, target>>
      /\ pc' \in [Request \cup Approval -> {"new", "entered", "waiting", "done"}]
      /\ DOMAIN snap' = Request \cup Approval
      /\ answer' \in [Request -> Submission \cup {None}]
      /\ user_lock' \in Request \cup {NoRequest}
      /\ answer[r] = None /\ answer' = [answer EXCEPT ![r] = s]
      /\ LockInv' /\ NewUnanswered' /\ \A q \in Request : ViewInv(q)'
  BY <1>1, <1>2, LeaveInv
<1>4. k \in Key /\ s # None
  BY DEF GradebookAssumption, Submission, None
<1>5. /\ keys' = [keys EXCEPT ![k] = [sub |-> s, body |-> BodyOf[r], day |-> today]]
      /\ keys' \in [Key -> KeyRow]
  <2>1. [sub |-> s, body |-> BodyOf[r], day |-> today] \in KeyRow
    BY DEF KeyRow, AttemptInv, TypeOK, GradebookAssumption
  <2> QED
    BY <1>2, <2>1 DEF AttachKey, AttemptInv, TypeOK
<1>6. /\ keys'[k].sub = s /\ keys'[k].body = BodyOf[r] /\ keys'[k].day = today
      /\ \A j \in Key \ {k} : keys'[j] = keys[j]
  BY <1>4, <1>5 DEF AttemptInv, TypeOK
<1>7. keys'[k] # NoKey
  BY <1>4, <1>6 DEF NoKey
<1>8. answer'[r] = s /\ \A q \in Request \ {r} : answer'[q] = answer[q]
  BY <1>3 DEF AttemptInv, TypeOK
\* No request of the same key was answered with an attempt of today.
<1>9. ASSUME NEW q \in Request, answer[q] # None, KeyOf[q] = k
      PROVE  subs[answer[q]].day # today
  <2>1. SUFFICES ASSUME subs[answer[q]].day = today PROVE FALSE
    OBVIOUS
  <2>2. keys[k] # NoKey /\ keys[k].day = today
    BY <1>4, <1>9, <2>1 DEF AttemptInv, AnswerInv, KeyInv
  <2>3. snap[r].keys[k] # NoKey
    BY <1>1, <1>4, <2>2 DEF AttemptInv, ViewInv
  <2>4. ~Lapsed(keys[k])
    BY <2>2 DEF Lapsed, AttemptInv, TypeOK, Day
  <2> QED
    BY <1>1, <2>2, <2>3, <2>4 DEF Record
<1>10. TypeOK'
  BY <1>2, <1>3, <1>5 DEF AttemptInv, TypeOK
<1>11. Reserved(subs') = Reserved(subs) \cup {s} /\ Active(subs') \subseteq Active(subs) \cup {s}
       /\ Spent(subs') \subseteq Spent(subs) \cup {s}
  BY <1>2 DEF Reserved, Active, Spent
<1>12. OneActiveAttempt'
  <2>1. Active(subs) = {}
    BY <1>1 DEF AttemptInv, ViewInv
  <2>2. Active(subs') \subseteq {s} /\ IsFiniteSet({s}) /\ Cardinality({s}) = 1
    BY <1>11, <2>1, FS_Singleton
  <2>3. Cardinality(Active(subs')) <= 1
    BY <2>2, Shrinking
  <2> QED
    BY <2>3 DEF OneActiveAttempt
<1>13. AttemptLimit'
  <2>1. Cardinality(Spent(snap[r].subs)) < Limit
    BY <1>1, Rows DEF LimitReached, GradebookAssumption
  <2>2. Cardinality(Spent(subs)) <= Cardinality(Spent(snap[r].subs))
    BY <1>1, Rows, Shrinking DEF AttemptInv, ViewInv
  <2>3. /\ IsFiniteSet(Spent(subs) \cup {s})
        /\ Cardinality(Spent(subs) \cup {s}) =
             IF s \in Spent(subs) THEN Cardinality(Spent(subs)) ELSE Cardinality(Spent(subs)) + 1
    BY Rows, FS_AddElement
  <2>4. Cardinality(Spent(subs')) <= Cardinality(Spent(subs) \cup {s})
    BY <1>11, <2>3, Shrinking
  <2>5. /\ Cardinality(Spent(subs)) \in Nat /\ Cardinality(Spent(subs')) \in Nat
        /\ Cardinality(Spent(snap[r].subs)) \in Nat
    BY Rows
  <2>6. Cardinality(Spent(subs')) <= Limit
    BY <2>1, <2>2, <2>3, <2>4, <2>5 DEF GradebookAssumption
  <2> QED
    BY <2>6 DEF AttemptLimit
<1>14. ASSUME NEW q \in Request PROVE AnswerInv(q)'
  <2>1. CASE q = r
    BY <1>6, <1>7, <1>8, <1>11, <2>1 DEF AnswerInv
  <2>2. CASE q # r
    <3>1. ASSUME answer[q] # None
          PROVE  answer[q] \in Reserved(subs) /\ subs'[answer[q]] = subs[answer[q]]
      BY <1>2, <3>1 DEF AttemptInv, AnswerInv, Reserved
    <3>2. KeyOf[q] \in Key
      BY DEF GradebookAssumption
    <3> QED
      BY <1>3, <1>6, <1>8, <1>9, <1>11, <2>2, <3>1, <3>2 DEF AttemptInv, AnswerInv
  <2> QED
    BY <2>1, <2>2
<1>15. ASSUME NEW j \in Key PROVE KeyInv(j)'
  <2>1. CASE j = k
    BY <1>2, <1>6, <1>8, <1>11, <2>1 DEF KeyInv
  <2>2. CASE j # k
    <3>1. keys'[j] = keys[j]
      BY <1>6, <2>2
    <3>2. ASSUME keys[j] # NoKey
          PROVE  keys[j].sub \in Reserved(subs) /\ subs'[keys[j].sub] = subs[keys[j].sub]
      BY <1>2, <3>2 DEF AttemptInv, KeyInv, Reserved
    <3>3. ASSUME NEW q \in Request, answer[q] = keys[j].sub, keys[j].sub \in Reserved(subs)
          PROVE  answer'[q] = keys[j].sub
      BY <1>3, <1>8, <3>3 DEF Reserved, None, Submission, GradebookAssumption
    <3> QED
      BY <1>11, <3>1, <3>2, <3>3 DEF AttemptInv, KeyInv
  <2> QED
    BY <2>1, <2>2
<1>16. SameKeySameAttempt'
  <2>1. ASSUME NEW q \in Request, answer'[q] # None, q # r
        PROVE  /\ answer'[q] = answer[q] /\ answer[q] \in Reserved(subs) /\ answer[q] # s
               /\ subs'[answer[q]] = subs[answer[q]]
    BY <1>2, <1>8, <2>1 DEF AttemptInv, AnswerInv, Reserved
  <2>2. ASSUME NEW q \in Request, answer'[q] # None, q # r, KeyOf[q] = k
        PROVE  subs'[answer'[q]].day # subs'[answer'[r]].day
    BY <1>2, <1>8, <1>9, <2>1, <2>2
  <2>3. ASSUME NEW p \in Request, NEW q \in Request, p # r, q # r,
               answer'[p] # None, answer'[q] # None
        PROVE  IF answer'[p] = answer'[q] THEN KeyOf[p] = KeyOf[q] /\ BodyOf[p] = BodyOf[q]
               ELSE KeyOf[p] = KeyOf[q] => subs'[answer'[p]].day # subs'[answer'[q]].day
    BY <2>1, <2>3 DEF AttemptInv, SameKeySameAttempt
  <2> QED
    BY <1>8, <2>1, <2>2, <2>3 DEF SameKeySameAttempt
<1> QED
  BY <1>2, <1>3, <1>10, <1>12, <1>13, <1>14, <1>15, <1>16 DEF AttemptInv

-----------------------------------------------------------------------------
\* The invariant holds of every reachable state.
THEOREM Invariance == Spec => []AttemptInv
<1>1. AttemptInv /\ [Next]_vars => AttemptInv'
  <2> SUFFICES ASSUME AttemptInv, [Next]_vars PROVE AttemptInv'
    OBVIOUS
  <2>1. ASSUME NEW r \in Request, Enter(r) PROVE AttemptInv'
    BY <2>1, EnterInv
  <2>2. ASSUME NEW r \in Request, Replay(r) \/ Refuse(r) \/ Reserve(r) PROVE AttemptInv'
    BY <2>2, ReplayInv, RefuseInv, ReserveInv
  <2>3. CASE UNCHANGED vars
    BY <2>3, UnchangedRows, ProgressedInv DEF vars, calendar, AttemptInv, TypeOK
  <2> QED
    BY <2>1, <2>2, <2>3, PurgeInv, NextDayInv, OutsideInv, JudgeInv, ApprovalInv DEF Next
<1> QED
  BY <1>1, InitAttemptInv, PTL DEF Spec

\* OneActiveAttempt: create_submission takes its snapshot under the lock of the
\* user row, so no two requests both find nothing in work.
THEOREM NeverTwoActive == Spec => []OneActiveAttempt
<1>1. AttemptInv => OneActiveAttempt
  BY DEF AttemptInv
<1> QED
  BY <1>1, Invariance, PTL

\* AttemptLimit: nor do two requests both find room under submission_limit.
THEOREM LimitHolds == Spec => []AttemptLimit
<1>1. AttemptInv => AttemptLimit
  BY DEF AttemptInv
<1> QED
  BY <1>1, Invariance, PTL

\* SameKeySameAttempt: find_existing_submission answers every copy of a request
\* with the attempt its key reserved, for as long as the key is kept.
THEOREM OneAttemptPerKey == Spec => []SameKeySameAttempt
<1>1. AttemptInv => SameKeySameAttempt
  BY DEF AttemptInv
<1> QED
  BY <1>1, Invariance, PTL

-----------------------------------------------------------------------------
(* The grade.  The progress row is a function of the rows of the attempts:  *)
(* finalize_progress computes it anew from the row that was just graded, so *)
(* long as it is the last one, and the snapshot of an approval never shows  *)
(* a grade that is not there.                                               *)

ProgressRow == [attempts : Nat, retries : Nat, errors : Nat, best : 0..FULL,
                first_passed : Submission \cup {None}]

Grades(rows) == {s \in Submission : rows[s].status = "graded"}

\* What the rows of the attempts are worth.
ProgressOf(rows) ==
  [attempts |-> Cardinality(Grades(rows)),
   retries |-> IF Grades(rows) = {} THEN 0 ELSE Cardinality(Grades(rows)) - 1,
   errors |-> Cardinality({s \in Grades(rows) : ~Passing(rows[s])}),
   best |-> BestOf(rows),
   first_passed |-> FirstOf(Passes(rows))]

\* No attempt is reserved after the one in work.
LastActive == \A s \in Active(subs) : Reserved(subs) \subseteq 1..s

\* The attempt of an approval is there, and so are the grades it has read.
ApprovalView(a) ==
  pc[a] = "waiting" =>
    /\ target[a] \in Reserved(subs)
    /\ snap[a].subs \in [Submission -> SubmissionRow]
    /\ \A s \in Grades(snap[a].subs) :
         /\ s \in Grades(subs)
         /\ subs[s].score = snap[a].subs[s].score /\ subs[s].late = snap[a].subs[s].late
         /\ snap[a].subs[s].approved => subs[s].approved

\* A progress row that counts what the rows hold and records no more than they
\* are worth.
Earned(p, rows) ==
  /\ p.attempts = ProgressOf(rows).attempts
  /\ p.retries = ProgressOf(rows).retries
  /\ p.errors = ProgressOf(rows).errors
  /\ p.best <= ProgressOf(rows).best
  /\ p.first_passed # None => p.first_passed \in Passes(rows)

GradeInv ==
  /\ progress \in ProgressRow
  /\ LastActive
  /\ \A a \in Approval : ApprovalView(a)
  /\ Earned(progress, subs)
  /\ ~stale => progress = ProgressOf(subs)

-----------------------------------------------------------------------------
(* Best scores, first passes and counts.                                   *)

LEMMA LeastNumber ==
  ASSUME NEW T, T \subseteq Nat, T # {}
  PROVE  \E x \in T : \A y \in T : x <= y
<1>1. PICK x \in T : \A y \in T : <<y, x>> \notin OpToRel(<, Nat)
  BY NatLessThanWellFounded, WFMin
<1>2. \A y \in T : ~(y < x)
  BY <1>1 DEF OpToRel
<1> QED
  BY <1>2

LEMMA BestIs ==
  ASSUME NEW rows \in [Submission -> SubmissionRow]
  PROVE  /\ BestOf(rows) \in 0..FULL
         /\ \A s \in EligibleGrades(rows) : rows[s].score <= BestOf(rows)
         /\ BestOf(rows) = 0 \/ \E s \in EligibleGrades(rows) : rows[s].score = BestOf(rows)
<1> DEFINE scores == {rows[s].score : s \in EligibleGrades(rows)} \cup {0}
           bounds == {n \in Nat : \A x \in scores : x <= n}
<1>1. scores \subseteq 0..FULL /\ 0 \in scores /\ FULL \in Nat
  BY DEF EligibleGrades, SubmissionRow, GradebookAssumption
<1>2. PICK b \in bounds : \A y \in bounds : b <= y
  <2>1. FULL \in bounds
    BY <1>1
  <2> HIDE DEF scores
  <2> QED
    BY <2>1, LeastNumber
<1>3. BestOf(rows) = CHOOSE x \in scores : \A y \in scores : y <= x
  BY DEF BestOf
<1>4. \A s \in EligibleGrades(rows) : rows[s].score \in scores
  OBVIOUS
<1>5. \A x \in scores : x = 0 \/ \E s \in EligibleGrades(rows) : rows[s].score = x
  OBVIOUS
<1> HIDE DEF scores
<1>6. b \in scores
  <2> SUFFICES ASSUME b \notin scores
               PROVE  FALSE
    OBVIOUS
  <2>1. b \in Nat /\ b # 0 /\ \A x \in scores : x <= b /\ x # b
    BY <1>1, <1>2
  <2>2. b - 1 \in Nat /\ \A x \in scores : x <= b - 1
    BY <1>1, <2>1
  <2> QED
    BY <1>2, <2>1, <2>2
<1>7. BestOf(rows) \in scores /\ \A y \in scores : y <= BestOf(rows)
  BY <1>2, <1>3, <1>6
<1> QED
  BY <1>1, <1>4, <1>5, <1>7

LEMMA BestUnique ==
  ASSUME NEW rows \in [Submission -> SubmissionRow], NEW b \in 0..FULL,
         \A s \in EligibleGrades(rows) : rows[s].score <= b,
         b = 0 \/ \E s \in EligibleGrades(rows) : rows[s].score = b
  PROVE  BestOf(rows) = b
<1>1. BestOf(rows) \in Int /\ b \in Int /\ b >= 0 /\ BestOf(rows) >= 0
  BY BestIs DEF GradebookAssumption
<1>2. BestOf(rows) <= b /\ b <= BestOf(rows)
  BY <1>1, BestIs
<1> QED
  BY <1>1, <1>2

LEMMA FirstIs ==
  ASSUME NEW ids, ids \subseteq Submission
  PROVE  /\ ids = {} => FirstOf(ids) = None
         /\ ids # {} => FirstOf(ids) \in ids /\ \A t \in ids : FirstOf(ids) <= t
<1>1. ASSUME ids # {}
      PROVE  FirstOf(ids) \in ids /\ \A t \in ids : FirstOf(ids) <= t
  <2>1. ids \subseteq Nat
    BY DEF Submission
  <2>2. \E s \in ids : \A t \in ids : s <= t
    BY <1>1, <2>1, LeastNumber
  <2> QED
    BY <1>1, <2>2 DEF FirstOf
<1> QED
  BY <1>1 DEF FirstOf

LEMMA FirstUnique ==
  ASSUME NEW ids, ids \subseteq Submission, NEW s \in ids, \A t \in ids : s <= t
  PROVE  FirstOf(ids) = s
<1>1. FirstOf(ids) \in ids /\ FirstOf(ids) <= s
  BY FirstIs
<1>2. s <= FirstOf(ids)
  BY <1>1, Zenon
<1>3. \A t \in ids : t \in Int
  BY DEF Submission
<1> QED
  BY <1>1, <1>2, <1>3

LEMMA GradesFinite ==
  ASSUME NEW S, S \subseteq Submission
  PROVE  /\ IsFiniteSet(S) /\ Cardinality(S) \in Nat
         /\ Cardinality(S) = 0 <=> S = {}
<1>1. IsFiniteSet(S)
  BY Intervals, FS_Subset
<1> QED
  BY <1>1, FS_CardinalityType, FS_EmptySet

LEMMA ProgressOfType ==
  ASSUME NEW rows \in [Submission -> SubmissionRow]
  PROVE  ProgressOf(rows) \in ProgressRow
<1>1. /\ Cardinality(Grades(rows)) \in Nat
      /\ Grades(rows) # {} => Cardinality(Grades(rows)) - 1 \in Nat
      /\ Cardinality({s \in Grades(rows) : ~Passing(rows[s])}) \in Nat
  <2>1. Grades(rows) \subseteq Submission
    BY DEF Grades
  <2>2. {s \in Grades(rows) : ~Passing(rows[s])} \subseteq Submission
    BY DEF Grades
  <2> QED
    BY <2>1, <2>2, GradesFinite
<1>2. FirstOf(Passes(rows)) \in Submission \cup {None}
  <2>1. Passes(rows) \subseteq Submission
    BY DEF Passes, EligibleGrades
  <2> QED
    BY <2>1, FirstIs
<1>3. BestOf(rows) \in 0..FULL
  BY BestIs
<1> QED
  BY <1>1, <1>2, <1>3 DEF ProgressOf, ProgressRow

-----------------------------------------------------------------------------
(* One grade more.                                                         *)

\* Attempt s is graded in after and not in before; the others are the same.
GradeAdded(before, after, s) ==
  /\ before[s].status # "graded" /\ after[s].status = "graded"
  /\ \A t \in Submission \ {s} : after[t] = before[t]

LEMMA GradeAddedSets ==
  ASSUME NEW before \in [Submission -> SubmissionRow],
         NEW after \in [Submission -> SubmissionRow],
         NEW s \in Submission, GradeAdded(before, after, s)
  PROVE  /\ s \notin Grades(before) /\ s \notin EligibleGrades(before)
         /\ Grades(after) = Grades(before) \cup {s}
         /\ {t \in Grades(after) : ~Passing(after[t])} =
              IF Passing(after[s]) THEN {t \in Grades(before) : ~Passing(before[t])}
              ELSE {t \in Grades(before) : ~Passing(before[t])} \cup {s}
         /\ EligibleGrades(after) =
              IF Eligible(after[s]) THEN EligibleGrades(before) \cup {s}
              ELSE EligibleGrades(before)
         /\ Passes(after) =
              IF Eligible(after[s]) /\ Passing(after[s]) THEN Passes(before) \cup {s}
              ELSE Passes(before)
         /\ \A t \in EligibleGrades(before) : after[t].score = before[t].score
BY DEF GradeAdded, Grades, EligibleGrades, Passes

LEMMA BestOfAdded ==
  ASSUME NEW before \in [Submission -> SubmissionRow],
         NEW after \in [Submission -> SubmissionRow],
         NEW s \in Submission, GradeAdded(before, after, s)
  PROVE  BestOf(after) =
           IF Eligible(after[s]) /\ after[s].score > BestOf(before) THEN after[s].score
           ELSE BestOf(before)
<1> DEFINE b == IF Eligible(after[s]) /\ after[s].score > BestOf(before)
                THEN after[s].score ELSE BestOf(before)
<1>1. /\ BestOf(before) \in 0..FULL /\ after[s].score \in 0..FULL
      /\ \A t \in EligibleGrades(before) : before[t].score <= BestOf(before)
      /\ BestOf(before) = 0
         \/ \E t \in EligibleGrades(before) : before[t].score = BestOf(before)
  BY BestIs DEF SubmissionRow
<1>2. /\ EligibleGrades(after) =
           IF Eligible(after[s]) THEN EligibleGrades(before) \cup {s}
           ELSE EligibleGrades(before)
      /\ \A t \in EligibleGrades(before) :
           after[t].score = before[t].score /\ before[t].score \in 0..FULL
  BY GradeAddedSets DEF EligibleGrades, SubmissionRow
<1>3. b \in 0..FULL
  BY <1>1
<1>4. \A t \in EligibleGrades(after) : after[t].score <= b
  <2>1. FULL \in Nat
    BY DEF GradebookAssumption
  <2>2. CASE Eligible(after[s])
    BY <1>1, <1>2, <2>1, <2>2
  <2>3. CASE ~Eligible(after[s])
    BY <1>1, <1>2, <2>3
  <2> QED
    BY <2>2, <2>3
<1>5. b = 0 \/ \E t \in EligibleGrades(after) : after[t].score = b
  BY <1>1, <1>2
<1> HIDE DEF b
<1>6. BestOf(after) = b
  BY <1>3, <1>4, <1>5, BestUnique
<1> QED
  BY <1>6 DEF b

\* The progress after a grade is that of before with this grade, provided no
\* attempt after s was graded already.
LEMMA ProgressOfAdded ==
  ASSUME NEW before \in [Submission -> SubmissionRow],
         NEW after \in [Submission -> SubmissionRow],
         NEW s \in Submission, GradeAdded(before, after, s),
         \A t \in Grades(before) : t < s
  PROVE  ProgressOf(after) = FinalizeProgress(ProgressOf(before), s, after[s])
<1> DEFINE wrong(rows) == {t \in Grades(rows) : ~Passing(rows[t])}
           p == ProgressOf(before)
<1>1. /\ Grades(before) \subseteq Submission /\ s \notin Grades(before)
      /\ Grades(after) = Grades(before) \cup {s}
      /\ wrong(before) \subseteq Submission /\ s \notin wrong(before)
      /\ wrong(after) = IF Passing(after[s]) THEN wrong(before) ELSE wrong(before) \cup {s}
      /\ Passes(after) = IF Eligible(after[s]) /\ Passing(after[s])
                         THEN Passes(before) \cup {s} ELSE Passes(before)
      /\ Passes(before) \subseteq Grades(before)
  BY GradeAddedSets DEF Grades, Passes, EligibleGrades
<1> HIDE DEF wrong
<1>2. /\ Cardinality(Grades(before)) \in Nat
      /\ Cardinality(Grades(after)) = Cardinality(Grades(before)) + 1
      /\ Grades(after) # {}
  BY <1>1, GradesFinite, FS_AddElement
<1>3. Cardinality(wrong(after)) = IF Passing(after[s]) THEN Cardinality(wrong(before))
                                  ELSE Cardinality(wrong(before)) + 1
  BY <1>1, GradesFinite, FS_AddElement
<1>4. BestOf(after) = IF Eligible(after[s]) /\ after[s].score > BestOf(before)
                      THEN after[s].score ELSE BestOf(before)
  BY BestOfAdded
<1>5. FirstOf(Passes(after)) =
        IF Eligible(after[s]) /\ Passing(after[s]) /\ FirstOf(Passes(before)) = None
        THEN s ELSE FirstOf(Passes(before))
  <2>1. /\ Passes(before) \subseteq Submission /\ Passes(after) \subseteq Submission
        /\ \A t \in Passes(before) : t < s
        /\ None \notin Submission
    BY <1>1 DEF Passes, EligibleGrades, None, Submission
  <2>2. Passes(before) = {} <=> FirstOf(Passes(before)) = None
    BY <2>1, FirstIs
  <2>3. CASE ~(Eligible(after[s]) /\ Passing(after[s]))
    BY <1>1, <2>3
  <2>4. CASE Eligible(after[s]) /\ Passing(after[s]) /\ Passes(before) = {}
    <3>1. Passes(after) = {s} /\ s <= s
      BY <1>1, <2>4 DEF Submission
    <3>2. FirstOf(Passes(after)) = s
      BY <2>1, <3>1, FirstUnique
    <3> QED
      BY <2>2, <2>4, <3>2
  <2>5. CASE Eligible(after[s]) /\ Passing(after[s]) /\ Passes(before) # {}
    <3> DEFINE first == FirstOf(Passes(before))
    <3>1. first \in Passes(before) /\ \A t \in Passes(before) : first <= t
      BY <2>1, <2>5, FirstIs
    <3>2. first <= s
      BY <2>1, <3>1 DEF Submission
    <3>3. first \in Passes(after) /\ \A t \in Passes(after) : first <= t
      BY <1>1, <2>5, <3>1, <3>2
    <3> HIDE DEF first
    <3>4. FirstOf(Passes(after)) = first
      BY <2>1, <3>3, FirstUnique
    <3> QED
      BY <2>2, <2>5, <3>4 DEF first
  <2> QED
    BY <2>3, <2>4, <2>5
<1>6. p.attempts = Cardinality(Grades(before)) /\ p.errors = Cardinality(wrong(before))
      /\ p.best = BestOf(before) /\ p.first_passed = FirstOf(Passes(before))
  BY DEF ProgressOf, wrong
<1>7. ProgressOf(after) =
        [attempts |-> Cardinality(Grades(after)),
         retries |-> Cardinality(Grades(after)) - 1,
         errors |-> Cardinality(wrong(after)),
         best |-> BestOf(after),
         first_passed |-> FirstOf(Passes(after))]
  BY <1>2 DEF ProgressOf, wrong
<1>8. FinalizeProgress(p, s, after[s]) =
        [attempts |-> p.attempts + 1,
         retries |-> p.attempts,
         errors |-> IF Passing(after[s]) THEN p.errors ELSE p.errors + 1,
         best |-> BestWith(p, after[s]),
         first_passed |-> IF Eligible(after[s]) /\ Passing(after[s]) /\ p.first_passed = None
                          THEN s ELSE p.first_passed]
  BY DEF FinalizeProgress, GradeAdded
<1>9. BestWith(p, after[s]) = BestOf(after)
  BY <1>4, <1>6 DEF BestWith
<1> HIDE DEF p
<1>10. ProgressOf(after) = FinalizeProgress(p, s, after[s])
  BY <1>2, <1>3, <1>5, <1>6, <1>7, <1>8, <1>9
<1> QED
  BY <1>10 DEF p

\* Progress depends on the graded rows only.
LEMMA ProgressOfSame ==
  ASSUME NEW rows \in [Submission -> SubmissionRow],
         NEW same \in [Submission -> SubmissionRow],
         Grades(same) = Grades(rows), \A s \in Grades(rows) : same[s] = rows[s]
  PROVE  /\ ProgressOf(same) = ProgressOf(rows)
         /\ EligibleGrades(same) = EligibleGrades(rows)
<1>1. EligibleGrades(same) = EligibleGrades(rows)
  BY DEF EligibleGrades, Grades
<1>2. /\ Passes(same) = Passes(rows)
      /\ {s \in Grades(same) : ~Passing(same[s])} = {s \in Grades(rows) : ~Passing(rows[s])}
      /\ \A s \in EligibleGrades(rows) : same[s].score = rows[s].score
  BY <1>1 DEF Passes, EligibleGrades, Grades
<1>3. BestOf(same) = BestOf(rows)
  BY <1>1, <1>2, BestIs, BestUnique
<1> QED
  BY <1>1, <1>2, <1>3 DEF ProgressOf

\* The maintenance job computes what the rows are worth.
LEMMA RebuiltIs ==
  ASSUME subs \in [Submission -> SubmissionRow]
  PROVE  Rebuilt = ProgressOf(subs)
<1> DEFINE N == 0..NumSubmissions
           upTo(n) == [s \in Submission |-> IF s <= n THEN subs[s] ELSE NoSubmission]
           One(g, n) == IF n = 0 THEN NoProgress
                        ELSE IF subs[n].status = "graded"
                             THEN FinalizeProgress(g[n - 1], n, subs[n])
                        ELSE g[n - 1]
           worth == [n \in N |-> ProgressOf(upTo(n))]
           f == CHOOSE g : g = [n \in N |-> One(g, n)]
<1>1. \A n \in N : upTo(n) \in [Submission -> SubmissionRow]
  <2>1. NoSubmission \in SubmissionRow
    BY DEF NoSubmission, SubmissionRow, Day, GradebookAssumption
  <2> QED
    BY <2>1
<1>2. ProgressOf(upTo(0)) = NoProgress
  <2>1. Grades(upTo(0)) = {} /\ EligibleGrades(upTo(0)) = {} /\ Passes(upTo(0)) = {}
    <3>1. \A s \in Submission : upTo(0)[s] = NoSubmission
      BY DEF Submission
    <3> QED
      BY <3>1 DEF Grades, EligibleGrades, Passes, NoSubmission
  <2>2. 0 \in N
    BY DEF GradebookAssumption
  <2>3. BestOf(upTo(0)) = 0
    BY <1>1, <2>1, <2>2, BestIs
  <2>4. FirstOf(Passes(upTo(0))) = None
    BY <2>1 DEF FirstOf
  <2>5. {s \in Grades(upTo(0)) : ~Passing(upTo(0)[s])} = {}
    BY <2>1
  <2>6. Cardinality({}) = 0
    BY FS_EmptySet
  <2> HIDE DEF upTo
  <2> QED
    BY <2>1, <2>3, <2>4, <2>5, <2>6 DEF ProgressOf, NoProgress
<1>3. ASSUME NEW n \in N, n # 0
      PROVE  /\ n \in Submission /\ n - 1 \in N
             /\ ProgressOf(upTo(n)) =
                  IF subs[n].status = "graded"
                  THEN FinalizeProgress(ProgressOf(upTo(n - 1)), n, subs[n])
                  ELSE ProgressOf(upTo(n - 1))
  <2>1. n \in Submission /\ n - 1 \in N
    BY <1>3 DEF Submission
  <2>2. /\ upTo(n)[n] = subs[n] /\ upTo(n - 1)[n] = NoSubmission
        /\ \A t \in Submission \ {n} : upTo(n)[t] = upTo(n - 1)[t]
        /\ \A t \in Submission : upTo(n - 1)[t].status = "graded" => t < n
    BY <2>1 DEF Submission, NoSubmission
  <2>3. upTo(n) \in [Submission -> SubmissionRow] /\ upTo(n - 1) \in [Submission -> SubmissionRow]
    BY <1>1, <2>1
  <2>4. NoSubmission.status # "graded"
    BY DEF NoSubmission
  <2> HIDE DEF upTo
  <2>5. CASE subs[n].status = "graded"
    <3>1. GradeAdded(upTo(n - 1), upTo(n), n)
      BY <2>2, <2>4, <2>5 DEF GradeAdded
    <3>2. \A t \in Grades(upTo(n - 1)) : t < n
      BY <2>2 DEF Grades
    <3> QED
      BY <2>1, <2>2, <2>3, <2>5, <3>1, <3>2, ProgressOfAdded
  <2>6. CASE subs[n].status # "graded"
    <3>1. /\ Grades(upTo(n)) = Grades(upTo(n - 1))
          /\ \A t \in Grades(upTo(n - 1)) : upTo(n)[t] = upTo(n - 1)[t]
      BY <2>1, <2>2, <2>4, <2>6 DEF Grades
    <3> QED
      BY <2>1, <2>3, <2>6, <3>1, ProgressOfSame
  <2> QED
    BY <2>1, <2>5, <2>6
<1>4. worth = [n \in N |-> One(worth, n)]
  <2>1. ASSUME NEW n \in N
        PROVE  ProgressOf(upTo(n)) = One(worth, n)
    <3>1. CASE n = 0
      BY <1>2, <3>1
    <3>2. CASE n # 0
      <4> HIDE DEF upTo
      <4>1. worth[n - 1] = ProgressOf(upTo(n - 1))
        BY <1>3, <3>2
      <4> QED
        BY <1>3, <3>2, <4>1
    <3> QED
      BY <3>1, <3>2
  <2> QED
    BY <2>1
<1>5. f = [n \in N |-> One(f, n)]
  <2> HIDE DEF worth, One
  <2> QED
    BY <1>4
<1>6. Rebuilt = f[NumSubmissions]
  BY DEF Rebuilt
<1> HIDE DEF f
<1>7. \A n \in N : f[n] = worth[n]
  <2> DEFINE differ == {n \in N : f[n] # worth[n]}
  <2> SUFFICES ASSUME differ # {}
               PROVE  FALSE
    OBVIOUS
  <2>1. differ \subseteq Nat
    OBVIOUS
  <2>2. PICK n \in differ : \A m \in differ : n <= m
    <3> HIDE DEF differ
    <3> QED
      BY <2>1, LeastNumber
  <2>3. n \in N /\ f[n] # worth[n]
    OBVIOUS
  <2> HIDE DEF worth
  <2>4. f[n] = One(f, n) /\ worth[n] = One(worth, n)
    <3> HIDE DEF One
    <3> QED
      BY <1>4, <1>5, <2>3
  <2>5. CASE n = 0
    BY <2>3, <2>4, <2>5
  <2>6. CASE n # 0
    <3>1. n - 1 \in N /\ n - 1 \notin differ
      BY <2>2, <2>3, <2>6
    <3>2. f[n - 1] = worth[n - 1]
      BY <3>1
    <3> QED
      BY <2>3, <2>4, <2>6, <3>2
  <2> QED
    BY <2>5, <2>6
<1>8. upTo(NumSubmissions) = subs
  <2>1. \A s \in Submission : s <= NumSubmissions
    BY DEF Submission, GradebookAssumption
  <2> QED
    BY <2>1
<1>9. NumSubmissions \in N
  BY DEF GradebookAssumption
<1>10. worth[NumSubmissions] = ProgressOf(upTo(NumSubmissions))
  BY <1>9
<1> QED
  BY <1>6, <1>7, <1>8, <1>9, <1>10

-----------------------------------------------------------------------------
(* The steps, as far as the grade is concerned.                            *)

LEMMA ProgressFields ==
  ASSUME NEW p \in ProgressRow, NEW q \in ProgressRow,
         p.attempts = q.attempts, p.retries = q.retries, p.errors = q.errors,
         p.best = q.best, p.first_passed = q.first_passed
  PROVE  p = q
BY DEF ProgressRow

\* What the rows are worth is earned.
LEMMA WorthEarned ==
  ASSUME NEW rows \in [Submission -> SubmissionRow]
  PROVE  Earned(ProgressOf(rows), rows)
<1>1. ProgressOf(rows).best <= ProgressOf(rows).best
  BY ProgressOfType DEF ProgressRow
<1>2. FirstOf(Passes(rows)) # None => FirstOf(Passes(rows)) \in Passes(rows)
  <2>1. Passes(rows) \subseteq Submission
    BY DEF Passes, EligibleGrades
  <2> QED
    BY <2>1, FirstIs
<1>3. ProgressOf(rows).first_passed = FirstOf(Passes(rows))
  BY DEF ProgressOf
<1> QED
  BY <1>1, <1>2, <1>3 DEF Earned

\* Rows with the same grades earn the same.
LEMMA EarnedSame ==
  ASSUME NEW p, NEW rows \in [Submission -> SubmissionRow],
         NEW same \in [Submission -> SubmissionRow],
         Grades(same) = Grades(rows), \A s \in Grades(rows) : same[s] = rows[s]
  PROVE  /\ Earned(p, same) <=> Earned(p, rows)
         /\ ProgressOf(same) = ProgressOf(rows)
<1>1. ProgressOf(same) = ProgressOf(rows) /\ EligibleGrades(same) = EligibleGrades(rows)
  BY ProgressOfSame
<1>2. Passes(same) = Passes(rows)
  BY <1>1 DEF Passes, EligibleGrades, Grades
<1> QED
  BY <1>1, <1>2 DEF Earned

\* The grades an approval has read stay where they are.
LEMMA ViewKept ==
  ASSUME NEW a \in Approval, ApprovalView(a),
         pc'[a] = "waiting" =>
           pc[a] = "waiting" /\ snap'[a] = snap[a] /\ target'[a] = target[a],
         Reserved(subs) \subseteq Reserved(subs'),
         \A s \in Grades(subs) :
           /\ s \in Grades(subs')
           /\ subs'[s].score = subs[s].score /\ subs'[s].late = subs[s].late
           /\ subs[s].approved => subs'[s].approved
  PROVE  ApprovalView(a)'
BY DEF ApprovalView

\* Steps that change no submission and no progress.
LEMMA RowsKept ==
  ASSUME AttemptInv, GradeInv, UNCHANGED <<subs, progress, stale>>,
         \A a \in Approval : ApprovalView(a)'
  PROVE  GradeInv'
BY DEF GradeInv, LastActive

LEMMA RequestGrade ==
  ASSUME AttemptInv, GradeInv, NEW r \in Request, Enter(r) \/ Replay(r) \/ Refuse(r)
  PROVE  GradeInv'
<1>1. UNCHANGED <<subs, progress, stale, target>>
  BY DEF Enter, Replay, Refuse, Leave
<1>2. PICK step \in {"entered", "done"}, view \in {Snapshot, NoSnapshot} :
        pc' = [pc EXCEPT ![r] = step] /\ snap' = [snap EXCEPT ![r] = view]
  BY DEF Enter, Replay, Refuse, Leave
<1>3. pc[r] # "waiting"
  BY DEF Enter, Replay, Refuse
<1>4. ASSUME NEW a \in Approval
      PROVE  ApprovalView(a)'
  <2>1. a \in DOMAIN pc /\ a \in DOMAIN snap
    BY DEF AttemptInv, TypeOK
  <2>2. pc'[a] = "waiting" => pc[a] = "waiting"
    BY <1>2, <2>1
  <2>3. pc[a] = "waiting" => snap'[a] = snap[a]
    BY <1>2, <1>3, <2>1
  <2> QED
    BY <1>1, <2>2, <2>3, ViewKept DEF GradeInv
<1> QED
  BY <1>1, <1>4, RowsKept

LEMMA OutsideGrade ==
  ASSUME AttemptInv, GradeInv,
         (\E k \in Key : Purge(k)) \/ NextDay \/ EditDue \/ UNCHANGED vars
  PROVE  GradeInv'
<1>1. UNCHANGED <<subs, progress, stale, target, pc, snap>>
  BY DEF Purge, NextDay, EditDue, vars
<1>2. \A a \in Approval : ApprovalView(a)'
  BY <1>1, ViewKept DEF GradeInv
<1> QED
  BY <1>1, <1>2, RowsKept

LEMMA ReserveGrade ==
  ASSUME AttemptInv, GradeInv, NEW r \in Request, Reserve(r)
  PROVE  GradeInv'
<1>1. PICK s \in Submission :
        /\ s \notin Reserved(subs)
        /\ subs' \in [Submission -> SubmissionRow]
        /\ subs'[s].status = "active"
        /\ \A t \in Submission \ {s} : subs'[t] = subs[t]
        /\ Leave(r, s)
        /\ Reserved(subs') = 1..s
  BY ReservedRow
<1>2. UNCHANGED <<progress, stale, target>>
  BY <1>1 DEF Leave
<1>3. subs \in [Submission -> SubmissionRow]
  BY DEF AttemptInv, TypeOK
<1>4. Grades(subs') = Grades(subs) /\ \A t \in Grades(subs) : subs'[t] = subs[t]
  BY <1>1 DEF Grades, Reserved
<1>5. Earned(progress', subs') /\ (~stale' => progress' = ProgressOf(subs'))
  BY <1>1, <1>2, <1>3, <1>4, EarnedSame DEF GradeInv
<1>6. LastActive'
  <2>1. Active(subs) = {}
    <3>1. Active(snap[r].subs) = {} /\ pc[r] = "entered"
      BY DEF Reserve
    <3> QED
      BY <3>1 DEF AttemptInv, ViewInv
  <2>2. \A t \in Active(subs') : t = s
    BY <1>1, <2>1 DEF Active
  <2> QED
    BY <1>1, <2>2 DEF LastActive
<1>7. ASSUME NEW a \in Approval
      PROVE  ApprovalView(a)'
  <2>1. a \in DOMAIN pc /\ a \in DOMAIN snap
    BY DEF AttemptInv, TypeOK
  <2>2. pc'[a] = "waiting" => pc[a] = "waiting"
    BY <1>1, <2>1 DEF Leave
  <2>3. pc[a] = "waiting" => snap'[a] = snap[a]
    BY <1>1, <2>1 DEF Leave, Reserve
  <2>4. Reserved(subs) \subseteq Reserved(subs')
    BY <1>1 DEF Reserved
  <2> QED
    BY <1>2, <1>4, <2>2, <2>3, <2>4, ViewKept DEF GradeInv
<1> QED
  BY <1>2, <1>5, <1>6, <1>7 DEF GradeInv

LEMMA JudgeGrade ==
  ASSUME AttemptInv, GradeInv, NEW s \in Submission, Judge(s)
  PROVE  GradeInv' /\ progress'.best >= progress.best
<1>1. PICK row \in Outcome(subs[s]) :
        /\ subs' = [subs EXCEPT ![s] = row]
        /\ progress' = FinalizeProgress(progress, s, row)
  BY DEF Judge
<1>2. /\ subs \in [Submission -> SubmissionRow] /\ subs[s].status = "active"
      /\ progress \in ProgressRow
      /\ UNCHANGED <<pc, snap, target, stale>>
  BY DEF Judge, AttemptInv, TypeOK, GradeInv
<1>3. row \in SubmissionRow /\ row.status \in {"graded", "void"}
  BY <1>1, <1>2, OutcomeRow
<1>4. /\ subs' \in [Submission -> SubmissionRow] /\ subs'[s] = row
      /\ \A t \in Submission \ {s} : subs'[t] = subs[t]
      /\ s \notin Grades(subs)
  BY <1>1, <1>2, <1>3 DEF Grades
<1>5. LastActive'
  <2>1. Active(subs') \subseteq Active(subs) /\ Reserved(subs') = Reserved(subs)
    BY <1>2, <1>3, <1>4 DEF Active, Reserved
  <2> QED
    BY <2>1 DEF GradeInv, LastActive
<1>6. \A a \in Approval : ApprovalView(a)'
  <2>1. \A t \in Grades(subs) : t \in Grades(subs') /\ subs'[t] = subs[t]
    BY <1>4 DEF Grades
  <2>2. Reserved(subs) \subseteq Reserved(subs')
    BY <1>3, <1>4 DEF Reserved
  <2> QED
    BY <1>2, <2>1, <2>2, ViewKept DEF GradeInv
<1>7. CASE row.status = "void"
  <2>1. progress' = progress
    BY <1>1, <1>7 DEF FinalizeProgress
  <2>2. Grades(subs') = Grades(subs) /\ \A t \in Grades(subs) : subs'[t] = subs[t]
    BY <1>4, <1>7 DEF Grades
  <2>3. Earned(progress', subs') /\ (~stale' => progress' = ProgressOf(subs'))
    BY <1>2, <1>4, <2>1, <2>2, EarnedSame DEF GradeInv
  <2>4. progress.best >= progress.best
    BY <1>2 DEF ProgressRow
  <2> QED
    BY <1>2, <1>5, <1>6, <2>1, <2>3, <2>4 DEF GradeInv
<1>8. CASE row.status = "graded"
  <2> DEFINE p == ProgressOf(subs)
             q == ProgressOf(subs')
  <2>1. GradeAdded(subs, subs', s)
    BY <1>2, <1>4, <1>8 DEF GradeAdded
  <2>2. \A t \in Grades(subs) : t < s
    <3>1. s \in Active(subs) /\ Grades(subs) \subseteq Reserved(subs)
      BY <1>2 DEF Active, Grades, Reserved
    <3>2. Grades(subs) \subseteq 1..s
      BY <3>1 DEF GradeInv, LastActive
    <3> QED
      BY <1>4, <3>2 DEF Submission
  <2>3. q = FinalizeProgress(p, s, row)
    BY <1>2, <1>4, <2>1, <2>2, ProgressOfAdded
  <2>4. p \in ProgressRow /\ q \in ProgressRow
    BY <1>2, <1>4, ProgressOfType
  <2>5. Earned(progress, subs)
    BY DEF GradeInv
  <2>6. Passes(subs') = IF Eligible(row) /\ Passing(row) THEN Passes(subs) \cup {s}
                        ELSE Passes(subs)
    BY <1>2, <1>4, <2>1, GradeAddedSets
  <2>7. row.score \in 0..FULL
    BY <1>3 DEF SubmissionRow
  <2>8. \A x : FinalizeProgress(x, s, row) =
          [attempts |-> x.attempts + 1,
           retries |-> x.attempts,
           errors |-> IF Passing(row) THEN x.errors ELSE x.errors + 1,
           best |-> BestWith(x, row),
           first_passed |-> IF Eligible(row) /\ Passing(row) /\ x.first_passed = None
                            THEN s ELSE x.first_passed]
    BY <1>8 DEF FinalizeProgress
  <2> HIDE DEF p, q
  <2>9. progress' \in ProgressRow
    BY <1>1, <1>2, <2>7, <2>8 DEF ProgressRow, BestWith
  <2>10. progress'.best <= q.best /\ progress'.best >= progress.best
    <3>1. progress.best <= p.best
      BY <2>5 DEF Earned, p
    <3>2. progress'.best = BestWith(progress, row) /\ q.best = BestWith(p, row)
      BY <1>1, <2>3, <2>8
    <3>3. progress.best \in Int /\ p.best \in Int /\ row.score \in Int
      BY <1>2, <2>4, <2>7 DEF ProgressRow
    <3> QED
      BY <3>1, <3>2, <3>3 DEF BestWith
  <2>11. Earned(progress', subs')
    <3>1. /\ progress'.attempts = q.attempts /\ progress'.retries = q.retries
          /\ progress'.errors = q.errors
      BY <1>1, <2>3, <2>5, <2>8 DEF Earned, p
    <3>2. progress'.first_passed # None => progress'.first_passed \in Passes(subs')
      BY <1>1, <2>5, <2>6, <2>8 DEF Earned
    <3> QED
      BY <2>10, <3>1, <3>2 DEF Earned, q
  <2>12. ~stale' => progress' = q
    BY <1>1, <1>2, <2>3 DEF GradeInv, p
  <2> QED
    BY <1>5, <1>6, <2>9, <2>10, <2>11, <2>12 DEF GradeInv, q
<1> QED
  BY <1>3, <1>7, <1>8

LEMMA KeepGradeStep ==
  ASSUME AttemptInv, GradeInv, NEW a \in Approval,
         KeepGrade(a) \/ \E s \in Submission : OpenApproval(a, s)
  PROVE  GradeInv'
<1>1. UNCHANGED <<subs, progress, stale>>
  BY DEF KeepGrade, OpenApproval
<1>2. /\ pc \in [Request \cup Approval -> {"new", "entered", "waiting", "done"}]
      /\ DOMAIN snap = Request \cup Approval /\ DOMAIN target = Approval
      /\ subs \in [Submission -> SubmissionRow]
  BY DEF AttemptInv, TypeOK
<1>3. ASSUME NEW b \in Approval
      PROVE  ApprovalView(b)'
  <2>1. ApprovalView(b)
    BY DEF GradeInv
  <2>2. CASE KeepGrade(a) \/ b # a
    <3>1. pc'[b] = "waiting" =>
            pc[b] = "waiting" /\ snap'[b] = snap[b] /\ target'[b] = target[b]
      BY <1>2, <2>2 DEF KeepGrade, OpenApproval
    <3> QED
      BY <1>1, <2>1, <3>1, ViewKept
  <2>3. CASE b = a /\ \E s \in Submission : OpenApproval(a, s)
    <3>1. snap'[a].subs = subs /\ target'[a] \in Reserved(subs)
      BY <1>2, <2>3 DEF OpenApproval, NoSnapshot, Reserved
    <3>2. Reserved(subs') = Reserved(subs) /\ Grades(subs') = Grades(subs)
      BY <1>1
    <3> QED
      BY <1>1, <1>2, <2>3, <3>1, <3>2 DEF ApprovalView
  <2> QED
    BY <2>2, <2>3
<1> QED
  BY <1>1, <1>3, RowsKept

LEMMA RebuildGrade ==
  ASSUME AttemptInv, GradeInv, Rebuild
  PROVE  GradeInv' /\ progress'.best >= progress.best
<1>1. subs \in [Submission -> SubmissionRow]
  BY DEF AttemptInv, TypeOK
<1>2. UNCHANGED <<subs, pc, snap, target>> /\ progress' = ProgressOf(subs)
  BY <1>1, RebuiltIs DEF Rebuild
<1>3. progress' \in ProgressRow /\ Earned(progress', subs')
  BY <1>1, <1>2, ProgressOfType, WorthEarned
<1>4. \A a \in Approval : ApprovalView(a)'
  BY <1>2, ViewKept DEF GradeInv
<1>5. LastActive'
  BY <1>2 DEF GradeInv, LastActive
<1>6. progress'.best >= progress.best
  <2>1. progress.best <= ProgressOf(subs).best
    BY DEF GradeInv, Earned
  <2> QED
    BY <1>2, <1>3, <2>1 DEF GradeInv, ProgressRow
<1> QED
  BY <1>2, <1>3, <1>4, <1>5, <1>6 DEF GradeInv

\* More eligible grades are worth no less.
LEMMA BestGrows ==
  ASSUME NEW rows \in [Submission -> SubmissionRow],
         NEW more \in [Submission -> SubmissionRow],
         \A s \in EligibleGrades(rows) :
           s \in EligibleGrades(more) /\ more[s].score = rows[s].score
  PROVE  /\ BestOf(rows) <= BestOf(more)
         /\ Passes(rows) \subseteq Passes(more)
<1>1. Passes(rows) \subseteq Passes(more)
  BY DEF Passes, Passing, EligibleGrades
<1>2. BestOf(rows) \in Nat /\ BestOf(more) \in Nat
  BY BestIs DEF GradebookAssumption
<1>3. CASE BestOf(rows) = 0
  BY <1>1, <1>2, <1>3
<1>4. CASE \E s \in EligibleGrades(rows) : rows[s].score = BestOf(rows)
  BY <1>1, <1>4, BestIs
<1> QED
  BY <1>3, <1>4, BestIs

LEMMA ApprovedRow ==
  ASSUME NEW base \in SubmissionRow
  PROVE  LET row == [base EXCEPT !.approved = TRUE]
         IN  /\ row \in SubmissionRow /\ row.status = base.status
             /\ row.score = base.score /\ row.late = base.late /\ row.approved = TRUE
BY DEF SubmissionRow

\* The approval computes the grade from its own view of the rows, which shows no
\* grade that is not there, and misses none unless it overlooked one.
LEMMA ApproveGrade ==
  ASSUME AttemptInv, GradeInv, NEW a \in Approval, Approve(a)
  PROVE  GradeInv' /\ (~Overlooked(a) => progress'.best >= progress.best)
<1> DEFINE t == target[a]
           row == [subs[t] EXCEPT !.approved = TRUE]
           view == OwnView(a, row)
<1>1. /\ subs \in [Submission -> SubmissionRow] /\ progress \in ProgressRow
      /\ t \in Submission /\ snap[a].subs \in [Submission -> SubmissionRow]
      /\ \A s \in Grades(snap[a].subs) :
           /\ s \in Grades(subs)
           /\ subs[s].score = snap[a].subs[s].score /\ subs[s].late = snap[a].subs[s].late
           /\ snap[a].subs[s].approved => subs[s].approved
  BY DEF Approve, AttemptInv, TypeOK, GradeInv, ApprovalView, Reserved
<1>2. /\ subs' = [subs EXCEPT ![t] = row]
      /\ progress' = Recomputed(view) /\ stale' = Overlooked(a)
      /\ pc' = [pc EXCEPT ![a] = "done"] /\ snap' = [snap EXCEPT ![a] = NoSnapshot]
      /\ target' = target
      /\ view = [snap[a].subs EXCEPT ![t] = row]
  BY DEF Approve, OwnView
<1>3. /\ row \in SubmissionRow /\ row.status = subs[t].status
      /\ row.score = subs[t].score /\ row.late = subs[t].late /\ row.approved = TRUE
  <2>1. subs[t] \in SubmissionRow
    BY <1>1
  <2> QED
    BY <2>1, ApprovedRow
<1> HIDE DEF row, view, t
<1>4. /\ subs' \in [Submission -> SubmissionRow] /\ view \in [Submission -> SubmissionRow]
      /\ subs'[t] = row /\ view[t] = row
      /\ \A s \in Submission \ {t} : subs'[s] = subs[s] /\ view[s] = snap[a].subs[s]
  BY <1>1, <1>2, <1>3
<1>5. \A s \in Submission :
        /\ subs'[s].status = subs[s].status /\ subs'[s].score = subs[s].score
        /\ subs'[s].late = subs[s].late
        /\ subs[s].approved => subs'[s].approved
  BY <1>3, <1>4
<1>6. /\ Grades(subs') = Grades(subs) /\ Active(subs') = Active(subs)
      /\ Reserved(subs') = Reserved(subs)
      /\ {s \in Grades(subs') : ~Passing(subs'[s])} = {s \in Grades(subs) : ~Passing(subs[s])}
  BY <1>5 DEF Grades, Active, Reserved, Passing
<1>7. \A s \in EligibleGrades(subs) :
        s \in EligibleGrades(subs') /\ subs'[s].score = subs[s].score
  BY <1>5 DEF EligibleGrades, Eligible
<1>8. \A s \in EligibleGrades(view) :
        s \in EligibleGrades(subs') /\ subs'[s].score = view[s].score
  <2>1. ASSUME NEW s \in EligibleGrades(view), s # t
        PROVE  s \in EligibleGrades(subs') /\ subs'[s].score = view[s].score
    <3>1. /\ s \in Submission /\ view[s] = snap[a].subs[s] /\ subs'[s] = subs[s]
          /\ s \in Grades(snap[a].subs) /\ Eligible(view[s])
      BY <1>4, <2>1 DEF EligibleGrades, Grades
    <3>2. s \in Grades(subs) /\ subs[s].score = view[s].score /\ Eligible(subs[s])
      BY <1>1, <3>1 DEF Eligible
    <3> QED
      BY <3>1, <3>2 DEF EligibleGrades, Grades
  <2>2. t \in EligibleGrades(view) => t \in EligibleGrades(subs')
    BY <1>4 DEF EligibleGrades
  <2> QED
    BY <1>4, <2>1, <2>2
<1>9. BestOf(view) <= BestOf(subs') /\ Passes(view) \subseteq Passes(subs')
  BY <1>4, <1>8, BestGrows
<1>10. /\ BestOf(view) \in 0..FULL
       /\ FirstOf(Passes(view)) \in Passes(view) \cup {None}
       /\ Passes(view) \subseteq Submission
  <2>1. Passes(view) \subseteq Submission
    BY DEF Passes, EligibleGrades
  <2> QED
    BY <1>4, <2>1, BestIs, FirstIs
<1>11. /\ progress' \in ProgressRow
       /\ progress'.attempts = progress.attempts /\ progress'.retries = progress.retries
       /\ progress'.errors = progress.errors
       /\ progress'.best = BestOf(view) /\ progress'.first_passed = FirstOf(Passes(view))
  BY <1>1, <1>2, <1>10 DEF Recomputed, ProgressRow
<1>12. /\ progress.attempts = ProgressOf(subs').attempts
       /\ progress.retries = ProgressOf(subs').retries
       /\ progress.errors = ProgressOf(subs').errors
  BY <1>6 DEF GradeInv, Earned, ProgressOf
<1>13. Earned(progress', subs')
  <2>1. ProgressOf(subs').best = BestOf(subs')
    BY DEF ProgressOf
  <2> QED
    BY <1>9, <1>10, <1>11, <1>12, <2>1 DEF Earned
<1>14. ASSUME ~Overlooked(a)
       PROVE  progress' = ProgressOf(subs') /\ progress'.best >= progress.best
  <2>1. \A s \in EligibleGrades(subs') :
          s \in EligibleGrades(view) /\ view[s].score = subs'[s].score
    <3>1. ASSUME NEW s \in EligibleGrades(subs'), s # t
          PROVE  s \in EligibleGrades(view)
      <4>1. s \in Submission /\ s \in EligibleGrades(subs)
        BY <1>4, <3>1 DEF EligibleGrades
      <4>2. s \in EligibleGrades(snap[a].subs)
        BY <1>14, <3>1, <4>1 DEF Overlooked, t
      <4> QED
        BY <1>4, <3>1, <4>2 DEF EligibleGrades
    <3>2. t \in EligibleGrades(subs') => t \in EligibleGrades(view)
      BY <1>4 DEF EligibleGrades
    <3> QED
      BY <1>8, <3>1, <3>2
  <2>2. BestOf(subs') <= BestOf(view) /\ Passes(subs') = Passes(view)
    BY <1>4, <1>9, <2>1, BestGrows
  <2>3. BestOf(subs') = BestOf(view)
    <3>1. BestOf(subs') \in Int /\ BestOf(view) \in Int
      BY <1>4, BestIs
    <3> QED
      BY <1>9, <2>2, <3>1
  <2>4. /\ ProgressOf(subs') \in ProgressRow
        /\ ProgressOf(subs').best = BestOf(subs')
        /\ ProgressOf(subs').first_passed = FirstOf(Passes(subs'))
    BY <1>4, ProgressOfType DEF ProgressOf
  <2>5. progress' = ProgressOf(subs')
    BY <1>11, <1>12, <2>2, <2>3, <2>4, ProgressFields
  <2>6. progress.best <= BestOf(subs) /\ BestOf(subs) <= BestOf(subs')
    BY <1>1, <1>4, <1>7, BestGrows DEF GradeInv, Earned, ProgressOf
  <2>7. progress.best \in Int /\ BestOf(subs) \in Int /\ BestOf(subs') \in Int
    BY <1>1, <1>4, BestIs DEF ProgressRow
  <2> QED
    BY <1>11, <2>3, <2>5, <2>6, <2>7
<1>15. LastActive'
  BY <1>6 DEF GradeInv, LastActive
<1>16. ASSUME NEW b \in Approval
       PROVE  ApprovalView(b)'
  <2>1. a \in DOMAIN pc /\ b \in DOMAIN pc /\ b \in DOMAIN snap
    BY DEF AttemptInv, TypeOK
  <2>2. pc'[b] = "waiting" => pc[b] = "waiting" /\ snap'[b] = snap[b] /\ target'[b] = target[b]
    BY <1>2, <2>1
  <2>3. \A s \in Grades(subs) : s \in Grades(subs') /\ s \in Submission
    BY <1>6 DEF Grades
  <2> QED
    BY <1>5, <1>6, <2>2, <2>3, ViewKept DEF GradeInv
<1> QED
  BY <1>2, <1>11, <1>13, <1>14, <1>15, <1>16 DEF GradeInv

LEMMA InitGradeInv == Init => GradeInv
<1> SUFFICES ASSUME Init
             PROVE  GradeInv
  OBVIOUS
<1>1. subs \in [Submission -> SubmissionRow]
  BY InitAttemptInv DEF AttemptInv, TypeOK
<1>2. \A s \in Submission : subs[s].status = "absent"
  BY DEF Init, NoSubmission
<1>3. Grades(subs) = {} /\ EligibleGrades(subs) = {} /\ Passes(subs) = {} /\ Active(subs) = {}
  BY <1>2 DEF Grades, EligibleGrades, Passes, Active
<1>4. ProgressOf(subs) = NoProgress
  <2>1. BestOf(subs) = 0 /\ FirstOf({}) = None /\ Cardinality({}) = 0
    BY <1>1, <1>3, BestIs, FS_EmptySet DEF FirstOf
  <2>2. {s \in Grades(subs) : ~Passing(subs[s])} = {}
    BY <1>3
  <2> QED
    BY <1>3, <2>1, <2>2 DEF ProgressOf, NoProgress
<1>5. progress = ProgressOf(subs)
  BY <1>4 DEF Init
<1>6. progress \in ProgressRow /\ Earned(progress, subs)
  BY <1>1, <1>5, ProgressOfType, WorthEarned
<1>7. \A a \in Approval : pc[a] # "waiting"
  BY DEF Init
<1> QED
  BY <1>3, <1>5, <1>6, <1>7 DEF GradeInv, LastActive, ApprovalView

LEMMA GradeStep ==
  AttemptInv /\ GradeInv /\ [Next]_vars =>
    /\ GradeInv'
    /\ progress'.best < progress.best => \E a \in Approval : Approve(a) /\ Overlooked(a)
<1> SUFFICES ASSUME AttemptInv, GradeInv, [Next]_vars
             PROVE  /\ GradeInv'
                    /\ \/ progress'.best >= progress.best
                       \/ \E a \in Approval : Approve(a) /\ Overlooked(a)
  <2>1. GradeInv /\ GradeInv' => progress.best \in Int /\ progress'.best \in Int
    BY DEF GradeInv, ProgressRow
  <2> QED
    BY <2>1
<1>1. progress.best >= progress.best
  BY DEF GradeInv, ProgressRow
<1>2. ASSUME NEW r \in Request, Enter(r) \/ Replay(r) \/ Refuse(r)
      PROVE  GradeInv' /\ progress' = progress
  BY <1>2, RequestGrade DEF Enter, Replay, Refuse, Leave
<1>3. ASSUME NEW r \in Request, Reserve(r)
      PROVE  GradeInv' /\ progress' = progress
  BY <1>3, ReserveGrade, ReservedRow DEF Leave
<1>4. CASE (\E k \in Key : Purge(k)) \/ NextDay \/ EditDue \/ UNCHANGED vars
  <2>1. progress' = progress
    BY <1>4 DEF Purge, NextDay, EditDue, vars
  <2> QED
    BY <1>1, <1>4, <2>1, OutsideGrade
<1>5. ASSUME NEW s \in Submission, Judge(s)
      PROVE  GradeInv' /\ progress'.best >= progress.best
  BY <1>5, JudgeGrade
<1>6. ASSUME NEW a \in Approval, Approve(a)
      PROVE  GradeInv' /\ (~Overlooked(a) => progress'.best >= progress.best)
  BY <1>6, ApproveGrade
<1>7. ASSUME NEW a \in Approval, KeepGrade(a) \/ \E s \in Submission : OpenApproval(a, s)
      PROVE  GradeInv' /\ progress' = progress
  BY <1>7, KeepGradeStep DEF KeepGrade, OpenApproval
<1>8. CASE Rebuild
  BY <1>8, RebuildGrade
<1> QED
  BY <1>1, <1>2, <1>3, <1>4, <1>5, <1>6, <1>7, <1>8 DEF Next

-----------------------------------------------------------------------------
\* The grade is what the rows are worth, as the invariant says it.
THEOREM GradeInvariance == Spec => []GradeInv
<1>1. AttemptInv /\ GradeInv /\ [Next]_vars => GradeInv'
  BY GradeStep
<1> QED
  BY <1>1, InitGradeInv, Invariance, PTL DEF Spec

\* CountersAddUp: every finalized attempt is counted once by finalize_progress,
\* and approve_late_submission keeps the counts.
THEOREM CountersHold == Spec => []CountersAddUp
<1>1. GradeInv => CountersAddUp
  <2>1. Grades(subs) = {s \in Submission : subs[s].status = "graded"}
    BY DEF Grades
  <2> QED
    BY <2>1 DEF GradeInv, Earned, ProgressOf, CountersAddUp
<1> QED
  BY <1>1, GradeInvariance, PTL

\* NoUnearnedGrade: a stale snapshot can lose a grade, never invent one.
THEOREM GradeIsEarned == Spec => []NoUnearnedGrade
<1>1. GradeInv => NoUnearnedGrade
  BY DEF GradeInv, Earned, ProgressOf, NoUnearnedGrade
<1> QED
  BY <1>1, GradeInvariance, PTL

\* ProgressIsRebuildable: rebuild_progress returns the row that is there, unless
\* the last approval overlooked a grade.
THEOREM RebuildAgrees == Spec => []ProgressIsRebuildable
<1>1. AttemptInv /\ GradeInv => ProgressIsRebuildable
  <2> SUFFICES ASSUME AttemptInv, GradeInv, ~stale
               PROVE  /\ progress = Rebuilt
                      /\ progress.best = BestOf(subs)
                      /\ progress.first_passed = FirstOf(Passes(subs))
    BY DEF ProgressIsRebuildable
  <2>1. progress = ProgressOf(subs)
    BY DEF GradeInv
  <2>2. Rebuilt = ProgressOf(subs)
    BY RebuiltIs DEF AttemptInv, TypeOK
  <2> QED
    BY <2>1, <2>2 DEF ProgressOf
<1> QED
  BY <1>1, Invariance, GradeInvariance, PTL

\* The one way in which D1_Detailed_Design.md:190 fails.
BestDropsOnlyOverlooked ==
  [][progress'.best < progress.best =>
       \E a \in Approval : Approve(a) /\ Overlooked(a)]_vars

\* Of all steps only an approval that overlooks a grade lowers the recorded best.
THEOREM BestDropsOnlyByStaleApproval == Spec => BestDropsOnlyOverlooked
BY GradeStep, Invariance, GradeInvariance, PTL DEF Spec, BestDropsOnlyOverlooked

-----------------------------------------------------------------------------
(* The gradebook implements SerialGradebook.                               *)

LEMMA SameCardinality == \A S : Serial!Cardinality(S) = Cardinality(S)
BY Zenon DEF Serial!Cardinality, Cardinality

\* The operators of the two modules say the same of the rows.
LEMMA SameSets ==
  ASSUME NEW rows \in [Submission -> SubmissionRow]
  PROVE  /\ Serial!Made(rows) = Reserved(rows) /\ Serial!Open(rows) = Active(rows)
         /\ Serial!Graded(rows) = Grades(rows) /\ Serial!Eligible(rows) = EligibleGrades(rows)
         /\ Serial!Eligible(rows) \cap Serial!Passed(rows) = Passes(rows)
         /\ Serial!Graded(rows) \ Serial!Passed(rows) = {s \in Grades(rows) : ~Passing(rows[s])}
         /\ Serial!Counted(rows) = Spent(rows)
         /\ Serial!Full(rows) <=> Active(rows) # {} \/ LimitReached(rows)
<1>1. /\ Serial!Made(rows) = Reserved(rows) /\ Serial!Open(rows) = Active(rows)
      /\ Serial!Graded(rows) = Grades(rows)
  BY DEF Serial!Made, Serial!Open, Serial!Graded, Reserved, Active, Grades
<1>2. Serial!Eligible(rows) = EligibleGrades(rows)
  BY DEF Serial!Eligible, Serial!Graded, EligibleGrades, Eligible
<1>3. /\ Serial!Eligible(rows) \cap Serial!Passed(rows) = Passes(rows)
      /\ Serial!Graded(rows) \ Serial!Passed(rows) = {s \in Grades(rows) : ~Passing(rows[s])}
  BY DEF Serial!Eligible, Serial!Passed, Serial!Graded, Grades, Passes, EligibleGrades, Eligible,
     Passing
<1>4. Serial!Counted(rows) = Spent(rows)
  BY DEF Serial!Counted, Serial!Open, Serial!Graded, Spent, Reserved, SubmissionRow
<1>5. Serial!Full(rows) <=> Active(rows) # {} \/ LimitReached(rows)
  BY <1>1, <1>4, SameCardinality DEF Serial!Full, LimitReached
<1> QED
  BY <1>1, <1>2, <1>3, <1>4, <1>5

\* What is earned is sound, and what the rows are worth is complete.
LEMMA EarnedIsSound ==
  ASSUME NEW rows \in [Submission -> SubmissionRow], NEW p \in ProgressRow, Earned(p, rows)
  PROVE  Serial!Sound(p, rows)
<1>1. /\ p.attempts = Cardinality(Grades(rows))
      /\ p.retries = IF Grades(rows) = {} THEN 0 ELSE Cardinality(Grades(rows)) - 1
      /\ p.errors = Cardinality({s \in Grades(rows) : ~Passing(rows[s])})
      /\ p.best <= BestOf(rows)
      /\ p.first_passed # None => p.first_passed \in Passes(rows)
  BY DEF Earned, ProgressOf
<1>2. BestOf(rows) \in Serial!Merits(rows)
  BY BestIs, SameSets DEF Serial!Merits
<1> QED
  BY <1>1, <1>2, SameSets, SameCardinality DEF Serial!Sound

LEMMA WorthIsComplete ==
  ASSUME NEW rows \in [Submission -> SubmissionRow]
  PROVE  Serial!Complete(ProgressOf(rows), rows)
<1>1. ProgressOf(rows).best = BestOf(rows) /\ ProgressOf(rows).first_passed = FirstOf(Passes(rows))
  BY DEF ProgressOf
<1>2. BestOf(rows) \in Serial!Merits(rows) /\ \A x \in Serial!Merits(rows) : x <= BestOf(rows)
  <2>1. BestOf(rows) >= 0
    BY BestIs DEF GradebookAssumption
  <2> QED
    BY <2>1, BestIs, SameSets DEF Serial!Merits
<1>3. \A s \in Passes(rows) : FirstOf(Passes(rows)) # None /\ FirstOf(Passes(rows)) <= s
  <2>1. Passes(rows) \subseteq Submission /\ None \notin Submission
    BY DEF Passes, EligibleGrades, None, Submission
  <2> QED
    BY <2>1, FirstIs
<1> QED
  BY <1>1, <1>2, <1>3, SameSets DEF Serial!Complete

\* A step after which the grade is as its invariant says is Booked.
LEMMA GradeIsBooked == AttemptInv' /\ GradeInv' => Serial!Booked
<1> SUFFICES ASSUME AttemptInv', GradeInv'
             PROVE  Serial!Booked
  OBVIOUS
<1>1. /\ subs' \in [Submission -> SubmissionRow] /\ progress' \in ProgressRow
      /\ Earned(progress', subs') /\ (~stale' => progress' = ProgressOf(subs'))
  BY DEF AttemptInv, TypeOK, GradeInv
<1>2. Serial!Sound(progress', subs')
  BY <1>1, EarnedIsSound
<1>3. ~stale' => Serial!Complete(progress', subs')
  BY <1>1, WorthIsComplete
<1> QED
  BY <1>2, <1>3 DEF Serial!Booked

-----------------------------------------------------------------------------
(* Requests.                                                               *)

\* A step in which no request moves.
LEMMA NoRequestMoves ==
  ASSUME \A r \in Request : pc'[r] = pc[r] /\ (pc[r] = "entered" => snap'[r] = snap[r])
  PROVE  stageBar' = stageBar /\ termsBar' = termsBar
BY DEF stageBar, termsBar

LEMMA EnterRefines ==
  ASSUME AttemptInv, NEW r \in Request, Enter(r)
  PROVE  Serial!Arrive(r)
<1>1. /\ pc[r] = "new" /\ pc' = [pc EXCEPT ![r] = "entered"]
      /\ snap' = [snap EXCEPT ![r] = Snapshot]
      /\ UNCHANGED <<subs, answer, today, due, progress, summary, stale>>
      /\ DOMAIN pc = Request \cup Approval /\ DOMAIN snap = Request \cup Approval
      /\ subs \in [Submission -> SubmissionRow]
  BY DEF Enter, calendar, AttemptInv, TypeOK
<1>2. /\ snap'[r].subs = subs /\ snap'[r].due = due /\ pc'[r] = "entered"
      /\ \A q \in Request \ {r} : pc'[q] = pc[q] /\ snap'[q] = snap[q]
  BY <1>1 DEF Snapshot
<1>3. stageBar[r] = "new" /\ stageBar' = [stageBar EXCEPT ![r] = "entered"]
  BY <1>1, <1>2 DEF stageBar
<1>4. termsBar'[r] = [due |-> due, full |-> Serial!Full(subs)]
  <2>1. Serial!Full(subs) = (Active(subs) # {} \/ LimitReached(subs))
    BY <1>1, SameSets DEF Serial!Full
  <2> QED
    BY <1>2, <2>1 DEF termsBar
<1>5. termsBar' = [termsBar EXCEPT ![r] = [due |-> due, full |-> Serial!Full(subs)]]
  BY <1>2, <1>4 DEF termsBar
<1> QED
  BY <1>1, <1>3, <1>5 DEF Serial!Arrive, Serial!ledger

\* Leaving is answering.
LEMMA LeaveRefines ==
  ASSUME AttemptInv, NEW r \in Request, NEW reply, pc[r] = "entered", Leave(r, reply)
  PROVE  Serial!Answered(r, reply)
<1>1. /\ pc' = [pc EXCEPT ![r] = "done"] /\ snap' = [snap EXCEPT ![r] = NoSnapshot]
      /\ answer' = [answer EXCEPT ![r] = reply]
      /\ UNCHANGED <<today, due, progress, summary, stale>>
      /\ DOMAIN pc = Request \cup Approval /\ DOMAIN snap = Request \cup Approval
  BY DEF Leave, calendar, AttemptInv, TypeOK
<1>2. /\ pc'[r] = "done"
      /\ \A q \in Request \ {r} : pc'[q] = pc[q] /\ snap'[q] = snap[q]
  BY <1>1
<1>3. stageBar[r] = "entered" /\ stageBar' = [stageBar EXCEPT ![r] = "done"]
  BY <1>2 DEF stageBar
<1>4. termsBar' = [termsBar EXCEPT ![r] = Serial!NoTerms]
  BY <1>2 DEF termsBar, Serial!NoTerms
<1> QED
  BY <1>1, <1>3, <1>4 DEF Serial!Answered, Serial!ledger

\* An attempt of today is found under its key by the request that holds the lock.
LEMMA TodaysIsRecorded ==
  ASSUME AttemptInv, NEW r \in Request, pc[r] = "entered", NEW s \in Serial!Todays(r)
  PROVE  Record(r) # NoKey
<1>1. PICK q \in Request : answer[q] = s /\ KeyOf[q] = KeyOf[r]
  BY DEF Serial!Todays
<1>2. s \in Submission /\ subs[s].day = today /\ s # None /\ KeyOf[r] \in Key
  BY DEF Serial!Todays, Serial!Made, None, Submission, GradebookAssumption
<1>3. keys[KeyOf[r]] # NoKey /\ keys[KeyOf[r]].day = today
  BY <1>1, <1>2 DEF AttemptInv, AnswerInv, KeyInv
<1>4. snap[r].keys[KeyOf[r]] # NoKey
  BY <1>2, <1>3 DEF AttemptInv, ViewInv
<1>5. ~Lapsed(keys[KeyOf[r]])
  BY <1>3 DEF Lapsed, AttemptInv, TypeOK, Day
<1> QED
  BY <1>3, <1>4, <1>5 DEF Record

LEMMA ReplayRefines ==
  ASSUME AttemptInv, NEW r \in Request, Replay(r)
  PROVE  Serial!Repeat(r)
<1> DEFINE k == KeyOf[r]
           s == keys[k].sub
           reply == IF keys[k].body = BodyOf[r] THEN s ELSE None
<1>1. k \in Key /\ keys[k] # NoKey /\ ~Lapsed(keys[k]) /\ Record(r) = keys[k]
  BY DEF Replay, Record, GradebookAssumption
<1>2. Leave(r, reply) /\ pc[r] = "entered" /\ UNCHANGED subs
  BY <1>1 DEF Replay
<1>3. s \in Reserved(subs) /\ keys[k].day = subs[s].day
  BY <1>1 DEF AttemptInv, KeyInv
<1>4. PICK o \in Request : answer[o] = s /\ KeyOf[o] = k /\ BodyOf[o] = keys[k].body
  BY <1>1 DEF AttemptInv, KeyInv
<1>5. subs[s].day = today
  <2>1. subs[s].day <= today
    BY <1>3 DEF AttemptInv, RowsInv
  <2>2. ~(subs[s].day < today)
    BY <1>1, <1>3 DEF Lapsed
  <2>3. keys[k].day \in Nat /\ today \in Nat
    BY <1>1 DEF AttemptInv, TypeOK, KeyRow, Day
  <2> QED
    BY <1>3, <2>1, <2>2, <2>3
<1>6. s \in Submission /\ s # None
  BY <1>3 DEF Reserved, Submission, None, GradebookAssumption
<1>7. (keys[k].body = BodyOf[r]) <=> \E q \in Request : answer[q] = s /\ BodyOf[q] = BodyOf[r]
  BY <1>4, <1>6 DEF AttemptInv, SameKeySameAttempt
<1>8. s \in Serial!Todays(r)
  BY <1>3, <1>4, <1>5 DEF Serial!Todays, Serial!Made, Reserved
<1>9. Serial!Answered(r, reply)
  BY <1>2, LeaveRefines
<1>10. reply = IF \E q \in Request : answer[q] = s /\ BodyOf[q] = BodyOf[r] THEN s ELSE None
  BY <1>7
<1> QED
  BY <1>2, <1>8, <1>9, <1>10 DEF Serial!Repeat

LEMMA RefuseRefines ==
  ASSUME AttemptInv, NEW r \in Request, Refuse(r)
  PROVE  Serial!Decline(r)
<1>1. /\ pc[r] = "entered" /\ Record(r) = NoKey /\ Leave(r, None) /\ UNCHANGED subs
      /\ Active(snap[r].subs) # {} \/ LimitReached(snap[r].subs)
  BY DEF Refuse
<1>2. Serial!Todays(r) = {}
  BY <1>1, TodaysIsRecorded
<1>3. termsBar[r].full
  BY <1>1 DEF termsBar
<1>4. Serial!Answered(r, None)
  BY <1>1, LeaveRefines
<1> QED
  BY <1>1, <1>2, <1>3, <1>4 DEF Serial!Decline

\* What the snapshot shows can only have become less.
LEMMA ReserveRefines ==
  ASSUME AttemptInv, NEW r \in Request, Reserve(r)
  PROVE  Serial!Begin(r)
<1> DEFINE s == Cardinality(Reserved(subs)) + 1
<1>1. /\ pc[r] = "entered" /\ Record(r) = NoKey /\ Leave(r, s) /\ s \in Submission
      /\ Active(snap[r].subs) = {} /\ ~LimitReached(snap[r].subs)
      /\ subs' = [subs EXCEPT ![s] =
           [NoSubmission EXCEPT !.status = "active", !.day = today,
                                  !.late = today > snap[r].due]]
  BY DEF Reserve
<1>2. Serial!Todays(r) = {}
  BY <1>1, TodaysIsRecorded
<1>3. ~Serial!Full(subs)
  <2>1. Active(subs) = {} /\ Spent(subs) \subseteq Spent(snap[r].subs)
    BY <1>1 DEF AttemptInv, ViewInv
  <2>2. Cardinality(Spent(snap[r].subs)) < Limit
    BY <1>1, Rows DEF LimitReached, GradebookAssumption
  <2>3. Cardinality(Spent(subs)) <= Cardinality(Spent(snap[r].subs))
    BY <2>1, Rows, Shrinking
  <2>4. ~LimitReached(subs)
    <3>1. Cardinality(Spent(subs)) \in Nat /\ Cardinality(Spent(snap[r].subs)) \in Nat
      BY Rows
    <3> QED
      BY <2>2, <2>3, <3>1 DEF LimitReached, GradebookAssumption
  <2> QED
    BY <2>1, <2>4, SameSets DEF AttemptInv, TypeOK
<1>4. s \notin Serial!Made(subs)
  <2>1. PICK n \in 0..NumSubmissions : Reserved(subs) = 1..n
    BY DEF AttemptInv, RowsInv
  <2>2. s = n + 1
    BY <2>1, Intervals
  <2>3. s \notin Reserved(subs)
    BY <2>1, <2>2
  <2> QED
    BY <2>3, SameSets DEF AttemptInv, TypeOK
<1>5. Serial!Answered(r, s)
  BY <1>1, LeaveRefines
<1>6. termsBar[r].due = snap[r].due
  BY <1>1 DEF termsBar
<1>7. Serial!Fresh = NoSubmission
  BY DEF Serial!Fresh, NoSubmission
<1> HIDE DEF s
<1>8. subs' = [subs EXCEPT ![s] =
        [Serial!Fresh EXCEPT !.status = "active", !.day = today, !.late = today > termsBar[r].due]]
  BY <1>1, <1>6, <1>7
<1> QED
  BY <1>1, <1>2, <1>3, <1>4, <1>5, <1>8 DEF Serial!Begin

-----------------------------------------------------------------------------
(* Grading, approvals and the rebuild.                                     *)

LEMMA JudgeRefines ==
  ASSUME AttemptInv, GradeInv, AttemptInv', GradeInv', NEW s \in Submission, Judge(s)
  PROVE  Serial!Decide(s)
<1>1. PICK row \in Outcome(subs[s]) : subs' = [subs EXCEPT ![s] = row]
  BY DEF Judge
<1>2. /\ subs \in [Submission -> SubmissionRow] /\ subs[s].status = "active"
      /\ UNCHANGED <<pc, snap, answer, today, due, summary, stale>>
  BY DEF Judge, calendar, AttemptInv, TypeOK
<1>3. s \in Serial!Open(subs)
  BY <1>2 DEF Serial!Open
<1>4. \/ \E score \in 0..FULL :
           subs' = [subs EXCEPT ![s].status = "graded", ![s].score = score]
      \/ subs' = [subs EXCEPT ![s].status = "void"]
  <2>1. CASE row = [subs[s] EXCEPT !.status = "void"]
    BY <1>1, <1>2, <2>1
  <2>2. ASSUME NEW score \in 0..FULL,
               row = [subs[s] EXCEPT !.status = "graded", !.score = score]
        PROVE  subs' = [subs EXCEPT ![s].status = "graded", ![s].score = score]
    BY <1>1, <1>2, <2>2
  <2> QED
    BY <1>1, <2>1, <2>2 DEF Outcome
<1>5. Serial!Booked /\ progress'.best >= progress.best
  BY GradeIsBooked, JudgeGrade
<1>6. UNCHANGED <<stageBar, termsBar>>
  BY <1>2, NoRequestMoves
<1> QED
  BY <1>2, <1>3, <1>4, <1>5, <1>6 DEF Serial!Decide, Serial!requests

\* The counts of the progress row are those of the attempts.
LEMMA SummaryIsCount ==
  ASSUME AttemptInv, GradeInv
  PROVE  progress.attempts = Serial!Cardinality(Serial!Graded(subs))
<1>1. subs \in [Submission -> SubmissionRow]
  BY DEF AttemptInv, TypeOK
<1> QED
  BY <1>1, SameSets, SameCardinality DEF GradeInv, Earned, ProgressOf

LEMMA ApproveRefines ==
  ASSUME AttemptInv, GradeInv, AttemptInv', GradeInv', NEW a \in Approval, Approve(a)
  PROVE  Serial!Accept(target[a])
<1> DEFINE t == target[a]
           row == [subs[t] EXCEPT !.approved = TRUE]
           view == OwnView(a, row)
<1>1. /\ subs \in [Submission -> SubmissionRow] /\ pc[a] = "waiting"
      /\ t \in Submission /\ snap[a].subs \in [Submission -> SubmissionRow]
  BY DEF Approve, AttemptInv, TypeOK, GradeInv, ApprovalView, Reserved
<1>2. /\ subs' = [subs EXCEPT ![t] = row] /\ row.late /\ ~subs[t].approved
      /\ progress' = Recomputed(view) /\ summary' = progress.attempts
      /\ stale' = Overlooked(a)
      /\ pc' = [pc EXCEPT ![a] = "done"] /\ snap' = [snap EXCEPT ![a] = NoSnapshot]
      /\ UNCHANGED <<answer, today, due>>
      /\ view = [snap[a].subs EXCEPT ![t] = row]
  BY DEF Approve, OwnView, calendar
<1>3. row \in SubmissionRow /\ row.late = subs[t].late /\ row.score = subs[t].score
      /\ row.status = subs[t].status
  <2>1. subs[t] \in SubmissionRow
    BY <1>1
  <2> QED
    BY <2>1, ApprovedRow
<1>4. subs' = [subs EXCEPT ![t].approved = TRUE]
  BY <1>2
<1> HIDE DEF row, view, t
<1>5. /\ subs'[t] = row /\ view[t] = row
      /\ view \in [Submission -> SubmissionRow] /\ subs' \in [Submission -> SubmissionRow]
  BY <1>1, <1>2, <1>3
<1>6. t \in Serial!Made(subs)
  BY <1>1, SameSets DEF GradeInv, ApprovalView, t
<1>7. Serial!Booked /\ stale' \in BOOLEAN
  BY <1>2, GradeIsBooked DEF Overlooked
<1>8. stale' => Serial!Eligible(subs) \ {t} # {}
  BY <1>1, <1>2, SameSets DEF Overlooked, t
<1>9. ASSUME t \in Serial!Eligible(subs')
      PROVE  progress'.best >= subs[t].score
  <2>1. t \in EligibleGrades(view)
    BY <1>5, <1>9, SameSets DEF EligibleGrades
  <2>2. progress'.best = BestOf(view)
    BY <1>2 DEF Recomputed, GradeInv, ProgressRow
  <2>3. view[t].score <= BestOf(view) /\ BestOf(view) \in 0..FULL
    BY <1>5, <2>1, BestIs
  <2>4. view[t].score = subs[t].score /\ subs[t].score \in 0..FULL
    BY <1>1, <1>3, <1>5 DEF SubmissionRow
  <2> QED
    BY <2>2, <2>3, <2>4
<1>10. \A r \in Request : pc'[r] = pc[r] /\ snap'[r] = snap[r]
  <2>1. a \notin Request /\ DOMAIN pc = Request \cup Approval
        /\ DOMAIN snap = Request \cup Approval
    BY DEF AttemptInv, TypeOK, GradebookAssumption
  <2> QED
    BY <1>2, <2>1
<1>11. UNCHANGED <<stageBar, termsBar>>
  BY <1>10, NoRequestMoves
<1>12. summary' = Serial!Cardinality(Serial!Graded(subs))
  BY <1>2, SummaryIsCount
<1>13. subs[t].late /\ ~subs[t].approved
  BY <1>2, <1>3
<1>14. Serial!Accept(t)
  BY <1>2, <1>4, <1>6, <1>7, <1>8, <1>9, <1>11, <1>12, <1>13
     DEF Serial!Accept, Serial!requests
<1> QED
  BY <1>14 DEF t

LEMMA RebuildRefines ==
  ASSUME AttemptInv, GradeInv, AttemptInv', GradeInv', Rebuild
  PROVE  Serial!Restore
<1>1. /\ UNCHANGED <<subs, answer, today, due, pc, snap>> /\ stale' = FALSE
      /\ summary' = progress'.attempts
  BY DEF Rebuild, calendar
<1>2. summary' = Serial!Cardinality(Serial!Graded(subs))
  <2>1. progress'.attempts = Serial!Cardinality(Serial!Graded(subs'))
    <3>1. subs' \in [Submission -> SubmissionRow]
      BY DEF AttemptInv, TypeOK
    <3>2. progress'.attempts = Cardinality(Grades(subs'))
      BY DEF GradeInv, Earned, ProgressOf
    <3> QED
      BY <3>1, <3>2, SameSets, SameCardinality
  <2> QED
    BY <1>1, <2>1
<1>3. UNCHANGED <<stageBar, termsBar>>
  BY <1>1, NoRequestMoves
<1> QED
  BY <1>1, <1>2, <1>3, GradeIsBooked DEF Serial!Restore, Serial!requests

-----------------------------------------------------------------------------
(* The calendar, and what SerialGradebook does not see.                    *)

LEMMA CalendarRefines ==
  ASSUME AttemptInv, AttemptInv', NextDay \/ EditDue
  PROVE  Serial!TimePasses
<1>1. /\ UNCHANGED <<subs, answer, progress, summary, stale, pc, snap>>
      /\ \/ today' = today + 1 /\ UNCHANGED due
         \/ due' \in Day /\ UNCHANGED today
  BY DEF NextDay, EditDue
<1>2. UNCHANGED <<stageBar, termsBar>>
  BY <1>1, NoRequestMoves
<1> QED
  BY <1>1, <1>2 DEF Serial!TimePasses, Serial!requests, Serial!ledger

LEMMA UnseenStep ==
  ASSUME AttemptInv,
         \/ \E k \in Key : Purge(k)
         \/ \E a \in Approval : KeepGrade(a) \/ \E s \in Submission : OpenApproval(a, s)
         \/ UNCHANGED vars
  PROVE  UNCHANGED Serial!svars
<1>1. UNCHANGED <<subs, answer, today, due, progress, summary, stale>>
  BY DEF Purge, KeepGrade, OpenApproval, vars, calendar
<1>2. \A r \in Request : pc'[r] = pc[r] /\ snap'[r] = snap[r]
  <2>1. CASE (\E k \in Key : Purge(k)) \/ UNCHANGED vars
    BY <2>1 DEF Purge, vars
  <2>2. ASSUME NEW a \in Approval, KeepGrade(a) \/ \E s \in Submission : OpenApproval(a, s)
        PROVE  \A r \in Request : pc'[r] = pc[r] /\ snap'[r] = snap[r]
    <3>1. a \notin Request /\ DOMAIN pc = Request \cup Approval
          /\ DOMAIN snap = Request \cup Approval
      BY DEF AttemptInv, TypeOK, GradebookAssumption
    <3>2. \E step, view : pc' = [pc EXCEPT ![a] = step] /\ snap' = [snap EXCEPT ![a] = view]
      BY <2>2 DEF KeepGrade, OpenApproval
    <3> QED
      BY <3>1, <3>2
  <2> QED
    BY <2>1, <2>2
<1>3. UNCHANGED <<stageBar, termsBar>>
  BY <1>2, NoRequestMoves
<1> QED
  BY <1>1, <1>3 DEF Serial!svars

-----------------------------------------------------------------------------
LEMMA InitIsSerial == Init => Serial!SInit
<1> SUFFICES ASSUME Init PROVE Serial!SInit
  OBVIOUS
<1>1. subs \in [Submission -> SubmissionRow]
  BY InitAttemptInv DEF AttemptInv, TypeOK
<1>2. progress = ProgressOf(subs) /\ progress \in ProgressRow
  BY InitGradeInv DEF GradeInv, Init
<1>3. Serial!Sound(progress, subs) /\ Serial!Complete(progress, subs)
  BY <1>1, <1>2, WorthEarned, EarnedIsSound, WorthIsComplete
<1>4. \A r \in Request : pc[r] = "new"
  BY DEF Init
<1>5. stageBar = [r \in Request |-> "new"] /\ termsBar = [r \in Request |-> Serial!NoTerms]
  BY <1>4 DEF stageBar, termsBar, Serial!NoTerms
<1> QED
  BY <1>3, <1>5 DEF Init, Serial!SInit, Serial!Fresh, NoSubmission

LEMMA StepIsSerial ==
  AttemptInv /\ GradeInv /\ AttemptInv' /\ GradeInv' /\ [Next]_vars =>
    [Serial!SNext]_(Serial!svars)
<1> SUFFICES ASSUME AttemptInv, GradeInv, AttemptInv', GradeInv', [Next]_vars
             PROVE  Serial!SNext \/ UNCHANGED Serial!svars
  OBVIOUS
<1>1. ASSUME NEW r \in Request, Enter(r) \/ Replay(r) \/ Refuse(r) \/ Reserve(r)
      PROVE  Serial!SNext
  BY <1>1, EnterRefines, ReplayRefines, RefuseRefines, ReserveRefines DEF Serial!SNext
<1>2. ASSUME NEW s \in Submission, Judge(s) PROVE Serial!SNext
  BY <1>2, JudgeRefines DEF Serial!SNext
<1>3. ASSUME NEW a \in Approval, Approve(a) PROVE Serial!SNext
  <2>1. target[a] \in Submission
    BY <1>3 DEF Approve, GradeInv, ApprovalView, Reserved
  <2> QED
    BY <1>3, <2>1, ApproveRefines DEF Serial!SNext
<1>4. CASE NextDay \/ EditDue
  BY <1>4, CalendarRefines DEF Serial!SNext
<1>5. CASE Rebuild
  BY <1>5, RebuildRefines DEF Serial!SNext
<1> QED
  BY <1>1, <1>2, <1>3, <1>4, <1>5, UnseenStep DEF Next

\* GradebookPromise: create_submission, the verdicts of the workers,
\* approve_late_submission and rebuild_progress, each in the two or more steps
\* its locks and its snapshot make of it, take effect as if at one moment.
THEOREM GradebookIsSerial == Spec => GradebookPromise
<1>1. AttemptInv /\ GradeInv /\ AttemptInv' /\ GradeInv' /\ [Next]_vars =>
        [Serial!SNext]_(Serial!svars)
  BY StepIsSerial
<1> QED
  BY <1>1, Invariance, GradeInvariance, InitIsSerial, PTL DEF Spec, GradebookPromise, Serial!SSpec
=============================================================================
