-------------------------- MODULE SerialGradebook --------------------------
(***************************************************************************)
(* What the gradebook promises a student and her instructors, without      *)
(* locks, snapshots, keys or transactions: a request takes effect at one   *)
(* moment, on the attempts there are; its deadline is the one that stood   *)
(* when it arrived; grading and a rebuild make the book worth exactly the  *)
(* attempts, and so does an approval, unless it loses grades, which the    *)
(* next approval or rebuild restores.                                      *)
(***************************************************************************)
EXTENDS Integers, FiniteSets

CONSTANTS
  Request, KeyOf, BodyOf,
  Submission,  \* numbers of attempts
  Limit, FULL, Day,
  None         \* no attempt

VARIABLES
  attempt,   \* of a number: its state, day, lateness, approval and score
  stage,     \* of a request: "new", "entered" once it has arrived, or "done"
  terms,     \* of one that has arrived: the due date and whether there was room
  answer,    \* the attempt a request was answered with
  today, due,
  book,      \* the student's progress
  reported,  \* the attempts the course summary counts
  lost       \* the book misses a grade

svars == <<attempt, stage, terms, answer, today, due, book, reported, lost>>
requests == <<stage, terms, answer>>
ledger == <<book, reported, lost>>

Fresh == [status |-> "absent", day |-> 0, late |-> FALSE, approved |-> FALSE, score |-> 0]
NoTerms == [due |-> 0, full |-> FALSE]

Made(rows) == {s \in Submission : rows[s].status # "absent"}
Open(rows) == {s \in Submission : rows[s].status = "active"}
Graded(rows) == {s \in Submission : rows[s].status = "graded"}
Counted(rows) == Open(rows) \cup Graded(rows)
Full(rows) == Open(rows) # {} \/ Cardinality(Counted(rows)) >= Limit

Eligible(rows) == {s \in Graded(rows) : ~rows[s].late \/ rows[s].approved}
Passed(rows) == {s \in Graded(rows) : rows[s].score = FULL}
Merits(rows) == {rows[s].score : s \in Eligible(rows)} \cup {0}

\* Every grade is counted once, and no grade or pass is claimed that is not there.
Sound(b, rows) ==
  /\ b.attempts = Cardinality(Graded(rows))
  /\ b.retries = IF Graded(rows) = {} THEN 0 ELSE b.attempts - 1
  /\ b.errors = Cardinality(Graded(rows) \ Passed(rows))
  /\ \E x \in Merits(rows) : b.best <= x
  /\ b.first_passed = None \/ b.first_passed \in Eligible(rows) \cap Passed(rows)

\* The book has the best eligible grade and the first eligible pass.
Complete(b, rows) ==
  /\ b.best \in Merits(rows) /\ \A x \in Merits(rows) : x <= b.best
  /\ \A s \in Eligible(rows) \cap Passed(rows) :
       b.first_passed # None /\ b.first_passed <= s

Booked == Sound(book', attempt') /\ (~lost' => Complete(book', attempt'))

SInit ==
  /\ attempt = [s \in Submission |-> Fresh]
  /\ stage = [r \in Request |-> "new"] /\ terms = [r \in Request |-> NoTerms]
  /\ answer = [r \in Request |-> None]
  /\ today = 0 /\ due = 0
  /\ Sound(book, attempt) /\ Complete(book, attempt)
  /\ reported = 0 /\ lost = FALSE

Arrive(r) ==
  /\ stage[r] = "new"
  /\ stage' = [stage EXCEPT ![r] = "entered"]
  /\ terms' = [terms EXCEPT ![r] = [due |-> due, full |-> Full(attempt)]]
  /\ UNCHANGED <<attempt, answer, today, due, ledger>>

\* The attempts of today that were made under the key of r.
Todays(r) ==
  {s \in Made(attempt) : attempt[s].day = today
                         /\ \E q \in Request : answer[q] = s /\ KeyOf[q] = KeyOf[r]}

Answered(r, reply) ==
  /\ stage[r] = "entered"
  /\ stage' = [stage EXCEPT ![r] = "done"]
  /\ terms' = [terms EXCEPT ![r] = NoTerms]
  /\ answer' = [answer EXCEPT ![r] = reply]
  /\ UNCHANGED <<today, due, ledger>>

\* A repeated request gets the attempt it made; another body under its key none.
Repeat(r) ==
  /\ \E s \in Todays(r) :
       Answered(r, IF \E q \in Request : answer[q] = s /\ BodyOf[q] = BodyOf[r]
                   THEN s ELSE None)
  /\ UNCHANGED attempt

\* There was no room when the request arrived.
Decline(r) ==
  /\ Todays(r) = {}
  /\ terms[r].full
  /\ Answered(r, None)
  /\ UNCHANGED attempt

\* There is room at this moment.
Begin(r) ==
  /\ Todays(r) = {}
  /\ ~Full(attempt)
  /\ \E s \in Submission \ Made(attempt) :
       /\ attempt' = [attempt EXCEPT ![s] =
            [Fresh EXCEPT !.status = "active", !.day = today, !.late = today > terms[r].due]]
       /\ Answered(r, s)

\* An attempt is decided once; the best grade never drops by it.
Decide(s) ==
  /\ s \in Open(attempt)
  /\ \/ \E score \in 0..FULL :
          attempt' = [attempt EXCEPT ![s].status = "graded", ![s].score = score]
     \/ attempt' = [attempt EXCEPT ![s].status = "void"]
  /\ Booked /\ lost' = lost /\ book'.best >= book.best
  /\ UNCHANGED <<requests, today, due, reported>>

\* Only an approval may lose grades, of other attempts than its own.
Accept(s) ==
  /\ s \in Made(attempt) /\ attempt[s].late /\ ~attempt[s].approved
  /\ attempt' = [attempt EXCEPT ![s].approved = TRUE]
  /\ Booked /\ lost' \in BOOLEAN
  /\ lost' => Eligible(attempt) \ {s} # {}
  /\ s \in Eligible(attempt') => book'.best >= attempt[s].score
  /\ reported' = Cardinality(Graded(attempt))
  /\ UNCHANGED <<requests, today, due>>

Restore ==
  /\ lost' = FALSE /\ Booked
  /\ reported' = Cardinality(Graded(attempt))
  /\ UNCHANGED <<attempt, requests, today, due>>

TimePasses ==
  /\ \/ today' = today + 1 /\ UNCHANGED due
     \/ due' \in Day /\ UNCHANGED today
  /\ UNCHANGED <<attempt, requests, ledger>>

SNext ==
  \/ \E r \in Request : Arrive(r) \/ Repeat(r) \/ Decline(r) \/ Begin(r)
  \/ \E s \in Submission : Decide(s) \/ Accept(s)
  \/ Restore \/ TimePasses

SSpec == SInit /\ [][SNext]_svars
=============================================================================
