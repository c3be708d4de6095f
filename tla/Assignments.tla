---------------------------- MODULE Assignments ----------------------------
(***************************************************************************)
(* One assignment of a course, from its draft to its archive: its items,   *)
(* its recipients, the audit of their changes and the count of recipients  *)
(* in the course summaries.  It is made of the problems and the question   *)
(* set of Authoring, whose requests run beside its own.                    *)
(*                                                                         *)
(* The instructor's membership is read first and fixes the snapshot.       *)
(* load_assignment then locks the course and the assignment and reads both *)
(* rows as they are; the items, and the problems loaded with them, still   *)
(* come from the snapshot.  Memberships and recipients are read under      *)
(* locks.  Dates and titles are left out (the due date is Gradebook's).    *)
(***************************************************************************)
EXTENDS Authoring, Sequences

CONSTANTS
  Student,    \* memberships of the course that are not its instructors'
  Selection,  \* the selections of recipients that are made
  Change,     \* the changes of recipients that are asked for
  MaxMoves    \* bound: changes of the roster, its archive included

\* RecipientChange: nobody is added and removed at once.
ASSUME AssignmentAssumption ==
  /\ Selection \subseteq [everybody : BOOLEAN, selected : SUBSET Student]
  /\ Change \subseteq [add : SUBSET Student, remove : SUBSET Student]
  /\ \A c \in Change : c.add \cap c.remove = {}
  /\ MaxMoves \in Nat

VARIABLES
  work,       \* the assignment, its selection of recipients and its items
  recipient,  \* assignment_recipients: "none", "active" or "removed"
  audits,     \* the audits of publication and of changes of recipients
  assigned,   \* assigned_count of a problem in course_problem_analytics
  member,     \* course_memberships: "student", "ta" or "withdrawn"
  closed,     \* archived_at of the course is set
  moves

course == <<member, closed, moves>>
assignment == <<work, recipient, audits, assigned>>
vars == <<authoring_vars, assignment, course>>

NoAssignment == [state |-> "none", selected |-> {}, everybody |-> TRUE,
                 items |-> {}, edition |-> 0]

Init ==
  /\ AuthoringInit
  /\ work \in {NoAssignment} \cup
       {[NoAssignment EXCEPT !.state = "draft", !.items = items] :
          items \in SUBSET {p \in Problem : problem[p].state = "published"} \ {{}}}
  /\ recipient = [s \in Student |-> "none"]
  /\ audits = <<>>
  /\ assigned = [p \in Problem |-> 0]
  /\ member = [s \in Student |-> "student"]
  /\ closed = FALSE /\ moves = 0

Students == {s \in Student : member[s] = "student"}
Recipients == {s \in Student : recipient[s] = "active"}

-----------------------------------------------------------------------------
(* What a request reads before it waits for the course.                    *)

\* The items, and the states of their problems.
ReadsWork == [items |-> work.items, edition |-> work.edition,
              state |-> [p \in work.items |-> problem[p].state]]

OpenAssignment(r, request, snapshot) ==
  Open(r, request, snapshot) /\ UNCHANGED <<bank, assignment, course>>

\* From items, or from a published question set of the instructor.
OpenCreate(r) ==
  /\ work.state = "none"
  /\ \E selection \in Selection :
       \/ \E items \in SUBSET Problem \ {{}} :
            OpenAssignment(r, [op |-> "create", items |-> items, selection |-> selection],
                           <<>>)
       \/ /\ set.state = "published"
          /\ OpenAssignment(r, [op |-> "copy set", selection |-> selection], ReadsSet)

\* The items may be left out.
OpenEdit(r) ==
  \E items \in SUBSET Problem, selection \in Selection :
    /\ work.state = "draft"
    /\ OpenAssignment(r, [op |-> "edit", items |-> items, selection |-> selection],
                      ReadsWork)

\* publish checks the items again, as they were loaded, with their problems.
Ready == work.items # {} /\ \A p \in work.items : problem[p].state = "published"

OpenPublishWork(r) ==
  /\ work.state = "draft" /\ Ready
  /\ OpenAssignment(r, [op |-> "publish assignment"], ReadsWork)

OpenRecipients(r) ==
  \E change \in Change :
    /\ work.state \in {"draft", "published"}
    /\ OpenAssignment(r, [op |-> "recipients", add |-> change.add,
                          remove |-> change.remove], ReadsWork)

OpenArchiveWork(r) ==
  /\ work.state \in {"draft", "published"}
  /\ OpenAssignment(r, [op |-> "archive assignment"], ReadsWork)

-----------------------------------------------------------------------------
(* The handlers, from the lock of the assignment to the commit.            *)

\* require_active_course.
ActiveCourse == ~closed

\* student_memberships, by a locking read: the selection must be students still.
Selectable(selection) == selection.everybody \/ selection.selected \subseteq Students
Chosen(selection) == IF selection.everybody THEN Students ELSE selection.selected

\* A problem in the snapshot's items keeps the state it had there, although it is
\* read again, even under a lock; the others are read as they are.
SeenPublished(p, read) ==
  IF p \in DOMAIN read THEN read[p] = "published" ELSE problem[p].state = "published"

CreateAssignment(r) ==
  LET items == IF req[r].op = "create" THEN Asked(r).items ELSE Snap(r).set.items
      read == IF req[r].op = "create" THEN <<>> ELSE Snap(r).state
  IN  /\ req[r].op \in {"create", "copy set"}
      /\ work.state = "none" /\ ActiveCourse
      /\ Selectable(Asked(r).selection)
      /\ \A p \in items : SeenPublished(p, read)
      /\ work' = [state |-> "draft", items |-> items, edition |-> req[r].number,
                  everybody |-> Asked(r).selection.everybody,
                  selected |-> Asked(r).selection.selected]
      /\ Commit(r)
      /\ UNCHANGED <<bank, recipient, audits, assigned, course>>

\* Mutant: the state is the one the request was sent for.
SeenAsDraft == work.state # "none"

\* load_assignment reads the state of the assignment under its lock.
IsDraft == work.state = "draft"

\* New items collide with those of another edit: both number from 1.
EditAssignment(r) ==
  LET keeps == Asked(r).items = {}
  IN  /\ Holds(r, "edit") /\ ActiveCourse /\ IsDraft
      /\ Selectable(Asked(r).selection)
      /\ \A p \in Asked(r).items : SeenPublished(p, Snap(r).state)
      /\ keeps \/ work.edition = Snap(r).edition
      /\ work' = [work EXCEPT !.items = IF keeps THEN @ ELSE Asked(r).items,
                              !.edition = IF keeps THEN @ ELSE req[r].number,
                              !.everybody = Asked(r).selection.everybody,
                              !.selected = Asked(r).selection.selected]
      /\ Commit(r)
      /\ UNCHANGED <<bank, recipient, audits, assigned, course>>

\* Mutant: removed recipients are counted.
CountEverybody(active, p) ==
  IF p \in work.items THEN Cardinality({s \in Student : active[s] # "none"}) ELSE 0

\* refresh_course_problem counts the recipients of p by a locking read.
Assigned(active, p) ==
  IF p \in work.items THEN Cardinality({s \in Student : active[s] = "active"}) ELSE 0

\* refresh_summaries, for the problems of the items as they were read.
RefreshSummaries(r) ==
  assigned' = [p \in Problem |-> IF p \in Snap(r).items THEN Assigned(recipient', p)
                                 ELSE assigned[p]]

Audit(before) ==
  audits' = Append(audits, [before |-> before,
                            after |-> {s \in Student : recipient'[s] = "active"}])

PublishAssignment(r) ==
  /\ Holds(r, "publish assignment") /\ ActiveCourse /\ IsDraft
  /\ Selectable(work)
  /\ recipient' = [s \in Student |-> IF s \in Chosen(work) THEN "active" ELSE "none"]
  /\ work' = [work EXCEPT !.state = "published"]
  /\ Audit({})
  /\ RefreshSummaries(r)
  /\ Commit(r)
  /\ UNCHANGED <<bank, course>>

Changed(r, s) ==
  IF s \in Asked(r).add THEN "active"
  ELSE IF s \in Asked(r).remove THEN "removed" ELSE recipient[s]

\* Mutant: whoever is a member may be added.
AnyMember(s) == TRUE

CurrentStudent(s) == member[s] = "student"

ChangeRecipients(r) ==
  /\ Holds(r, "recipients") /\ ActiveCourse /\ work.state = "published"
  /\ \A s \in Asked(r).add : CurrentStudent(s)
  /\ \A s \in Asked(r).remove : recipient[s] # "none"
  /\ recipient' = [s \in Student |-> Changed(r, s)]
  /\ Audit(Recipients)
  /\ RefreshSummaries(r)
  /\ Commit(r)
  /\ UNCHANGED <<bank, work, course>>

ArchiveAssignment(r) ==
  /\ Holds(r, "archive assignment") /\ ActiveCourse /\ work.state = "published"
  /\ work' = [work EXCEPT !.state = "archived"]
  /\ Commit(r)
  /\ UNCHANGED <<bank, recipient, audits, assigned, course>>

-----------------------------------------------------------------------------
(* CourseRoster: withdrawals, changes of role and the archive.             *)

MoveMember ==
  /\ ActiveCourse /\ moves < MaxMoves /\ moves' = moves + 1
  /\ \E s \in Student, place \in {"student", "ta", "withdrawn"} :
       place # member[s] /\ member' = [member EXCEPT ![s] = place]
  /\ UNCHANGED <<authoring_vars, assignment, closed>>

ArchiveCourse ==
  /\ ActiveCourse /\ moves < MaxMoves /\ moves' = moves + 1
  /\ closed' = TRUE
  /\ UNCHANGED <<authoring_vars, assignment, member>>

Next ==
  \/ AuthoringNext /\ UNCHANGED <<assignment, course>>
  \/ \E r \in Request :
       \/ OpenCreate(r) \/ CreateAssignment(r)
       \/ OpenEdit(r) \/ EditAssignment(r)
       \/ OpenPublishWork(r) \/ PublishAssignment(r)
       \/ OpenRecipients(r) \/ ChangeRecipients(r)
       \/ OpenArchiveWork(r) \/ ArchiveAssignment(r)
  \/ MoveMember \/ ArchiveCourse

Spec == Init /\ [][Next]_vars

-----------------------------------------------------------------------------
(* Properties.                                                             *)

\* What the request of the slot r read of p, to rewrite or publish it, has been
\* changed since: the state or, when it is published, the content.
ProblemOvertaken(r, p) ==
  /\ req[r].op \in {"update", "publish"} /\ Asked(r).problem = p
  /\ \/ Snap(r).row.state # problem[p].state
     \/ Holds(r, "publish") /\ Snap(r).row.content # problem[p].content

\* The same of the question set: its state or, when it is published, its items
\* and the states of their problems.
SetOvertaken(r) ==
  \/ req[r].op \in {"items", "publish set"} /\ Snap(r).set.state # set.state
  \/ Holds(r, "publish set") /\ Snap(r).state # ReadsSet.state

\* README.md:165: a problem is published with a solution that passes all its
\* cases, is immutable from then on and is archived for good, and so is a question
\* set with its items: no request breaks this unless another commit changed that
\* very row between what it read and what it writes.
Rank(state) ==
  CASE state = "none" -> 0 [] state = "draft" -> 1 [] state = "published" -> 2
    [] state = "archived" -> 3
PublishedContent ==
  [][/\ \A p \in Problem :
          \/ \E r \in Request : ProblemOvertaken(r, p) /\ req'[r] = Idle
          \/ /\ Rank(problem'[p].state) >= Rank(problem[p].state)
             /\ problem'[p].state = "published" =>
                  \/ problem[p].state = "draft" /\ problem'[p].content = "passing"
                  \/ problem[p] = problem'[p]
     /\ \/ \E r \in Request : SetOvertaken(r) /\ req'[r] = Idle
        \/ /\ Rank(set'.state) >= Rank(set.state)
           /\ set'.state = "published" =>
                \/ set'.items # {} /\ \A p \in set.items : problem[p].state = "published"
                \/ set.state = "published"
           /\ set.state # "draft" => set'.items = set.items]_vars

\* A published assignment keeps its items and its selection, whatever edit was
\* opened while it was a draft; only an item that was added, or archived, after the
\* publication had read the items can be a problem that is not published.
FrozenAtPublication ==
  [][/\ work.state \in {"published", "archived"} =>
          /\ Rank(work'.state) >= Rank(work.state)
          /\ [work' EXCEPT !.state = work.state] = work
     /\ work.state = "draft" /\ work'.state = "published" =>
          \A p \in work.items :
            \/ problem[p].state = "published"
            \/ \E r \in Request :
                 /\ Holds(r, "publish assignment") /\ req'[r] = Idle
                 /\ p \in Snap(r).items => Snap(r).state[p] # problem[p].state]_vars

\* Who becomes a recipient is a student of the course at that moment, and the
\* audits explain the recipients: each starts from what the one before left, and
\* the last one ends with who they are.
RecipientsExplained ==
  [][/\ \A s \in Student :
          recipient[s] # "active" /\ recipient'[s] = "active" => member[s] = "student"
     /\ IF audits' = <<>> THEN \A s \in Student : recipient'[s] = "none"
        ELSE /\ audits'[Len(audits')].after = {s \in Student : recipient'[s] = "active"}
             /\ audits # audits' =>
                  audits'[Len(audits')].before =
                    IF audits = <<>> THEN {} ELSE audits[Len(audits)].after]_vars

\* The summaries count the active recipients of every problem of the assignment,
\* unless a request refreshed them for items it had read before others were set.
Counted ==
  work.state \in {"published", "archived"} =>
    \A p \in Problem : assigned[p] = IF p \in work.items THEN Cardinality(Recipients) ELSE 0
SummaryCountsRecipients ==
  [][Counted /\ ~Counted' =>
       \E r \in Request : /\ req[r].op \in {"publish assignment", "recipients"}
                          /\ req'[r] = Idle /\ Snap(r).items # work.items]_vars
=============================================================================
