----------------------------- MODULE Authoring -----------------------------
(***************************************************************************)
(* The problems and the question set of one professor.                     *)
(*                                                                         *)
(* The authoring routes lock nothing: what a request checks (the state of  *)
(* a draft, the test cases its solution passes) comes from the snapshot of *)
(* its first read, and it writes afterwards, whatever was committed in     *)
(* between.  A request is therefore two actions: Open, which reads and     *)
(* checks, and its handler, which writes and commits.  A request its       *)
(* checks refuse is left out, since it writes nothing, and one that only   *)
(* inserts rows nobody knows is one action.                                *)
(***************************************************************************)
EXTENDS Integers, FiniteSets

CONSTANTS
  Problem,     \* rows of problems, those not yet created included
  Request,     \* request slots: how many transactions overlap
  MaxRequests  \* bound: requests opened in all, which also numbers them

ASSUME AuthoringAssumption == MaxRequests \in Nat

VARIABLES
  problem,  \* problems, each with its test cases
  set,      \* the question set and its items
  req,      \* the open request of a slot with its snapshot, or Idle
  opened

bank == <<problem, set>>
authoring_vars == <<bank, req, opened>>

\* What validate_problem finds: no test cases, a canonical solution that is
\* missing or fails one, or one that passes them all.
Content == {"empty", "failing", "passing"}

Missing == [state |-> "none", content |-> "empty", edition |-> 0]
Idle == [op |-> "idle"]

\* One problem is published, another may be a draft.
AuthoringInit ==
  /\ problem \in [Problem -> {Missing}
       \cup [state : {"draft"}, content : Content, edition : {0}]
       \cup [state : {"published"}, content : {"passing"}, edition : {0}]]
  /\ \E p \in Problem : problem[p].state = "published"
  /\ set = [state |-> "draft", items |-> {}, edition |-> 0]
  /\ req = [r \in Request |-> Idle]
  /\ opened = 0

-----------------------------------------------------------------------------
(* Requests and their snapshots.                                           *)

OnProblem == {"update", "publish", "archive"}
OnSet == {"items", "publish set", "archive set"}

\* The question set as it is read, with the states of its problems.
ReadsSet == [set |-> set, state |-> [p \in set.items |-> problem[p].state]]

\* What a request of the authoring routes reads.
Reads(request) ==
  IF request.op \in OnProblem THEN [row |-> problem[request.problem]] ELSE ReadsSet

Open(r, request, snapshot) ==
  /\ req[r] = Idle
  /\ opened < MaxRequests
  /\ opened' = opened + 1
  /\ req' = [req EXCEPT ![r] = [op |-> request.op, request |-> request,
                                number |-> opened + 1, snap |-> snapshot]]

OpenAuthoring(r, request) ==
  Open(r, request, Reads(request)) /\ UNCHANGED bank

Holds(r, op) == req[r].op = op
Asked(r) == req[r].request
Snap(r) == req[r].snap
Commit(r) == req' = [req EXCEPT ![r] = Idle] /\ UNCHANGED opened

-----------------------------------------------------------------------------
(* Problems.                                                               *)

CreateProblem ==
  \E p \in Problem, content \in Content :
    /\ problem[p] = Missing
    /\ problem' = [problem EXCEPT ![p].state = "draft", ![p].content = content]
    /\ UNCHANGED <<set, req, opened>>

\* copy_problem: the content a visible problem has in one snapshot.
CopyProblem ==
  \E p, source \in Problem :
    /\ problem[p] = Missing /\ problem[source] # Missing
    /\ problem' = [problem EXCEPT ![p].state = "draft",
                                  ![p].content = problem[source].content]
    /\ UNCHANGED <<set, req, opened>>

\* Mutant: any problem may be edited.
AnyState(row) == row # Missing

\* _owned_draft.
OwnedDraft(row) == row.state = "draft"

OpenUpdate(r) ==
  \E p \in Problem, content \in Content :
    /\ OwnedDraft(problem[p])
    /\ OpenAuthoring(r, [op |-> "update", problem |-> p, content |-> content])

\* _set_payload deletes the test cases it has read and numbers its own from 1.
\* If they were replaced meanwhile the new ones collide, unless there are none;
\* then the problem is a mixture of two bodies.
Written(now, read, content) ==
  IF now.edition = read.edition THEN {content}
  ELSE IF now.content # "empty" /\ content # "empty" THEN {}
  ELSE IF now.content = "empty" /\ content = "empty" THEN {"empty"}
  ELSE {"failing", "passing"}

UpdateProblem(r) ==
  /\ Holds(r, "update")
  /\ \E content \in Written(problem[Asked(r).problem], Snap(r).row, Asked(r).content) :
       problem' = [problem EXCEPT ![Asked(r).problem].content = content,
                                  ![Asked(r).problem].edition = req[r].number]
  /\ Commit(r)
  /\ UNCHANGED set

\* validate_problem runs the canonical solution on every case it has read.
Valid(row) == row.content = "passing"

OpenPublish(r) ==
  \E p \in Problem :
    /\ OwnedDraft(problem[p]) /\ Valid(problem[p])
    /\ OpenAuthoring(r, [op |-> "publish", problem |-> p])

PublishProblem(r) ==
  /\ Holds(r, "publish")
  /\ problem' = [problem EXCEPT ![Asked(r).problem].state = "published"]
  /\ Commit(r)
  /\ UNCHANGED set

\* archive_problem: a state that is read as archived is not written.
OpenArchive(r) ==
  \E p \in Problem :
    /\ problem[p].state \in {"draft", "published"}
    /\ OpenAuthoring(r, [op |-> "archive", problem |-> p])

ArchiveProblem(r) ==
  /\ Holds(r, "archive")
  /\ problem' = [problem EXCEPT ![Asked(r).problem].state = "archived"]
  /\ Commit(r)
  /\ UNCHANGED set

-----------------------------------------------------------------------------
(* The question set.                                                       *)

\* replace_items of authoring.py: custom problems in any state may be listed.
OpenSetItems(r) ==
  \E items \in SUBSET {p \in Problem : problem[p] # Missing} :
    /\ set.state = "draft"
    /\ OpenAuthoring(r, [op |-> "items", items |-> items])

\* Items somebody else inserted collide with the new ones, and stay otherwise.
ReplaceSetItems(r) ==
  LET stale == set.edition # Snap(r).set.edition
      none == Asked(r).items = {}
  IN  /\ Holds(r, "items")
      /\ stale => set.items = {} \/ none
      /\ set' = [set EXCEPT !.items = IF stale /\ none THEN @ ELSE Asked(r).items,
                            !.edition = req[r].number]
      /\ Commit(r)
      /\ UNCHANGED problem

OpenPublishSet(r) ==
  /\ set.state = "draft" /\ set.items # {}
  /\ \A p \in set.items : problem[p].state = "published"
  /\ OpenAuthoring(r, [op |-> "publish set"])

PublishQuestionSet(r) ==
  /\ Holds(r, "publish set")
  /\ set' = [set EXCEPT !.state = "published"]
  /\ Commit(r)
  /\ UNCHANGED problem

OpenArchiveSet(r) ==
  /\ set.state # "archived"
  /\ OpenAuthoring(r, [op |-> "archive set"])

ArchiveQuestionSet(r) ==
  /\ Holds(r, "archive set")
  /\ set' = [set EXCEPT !.state = "archived"]
  /\ Commit(r)
  /\ UNCHANGED problem

-----------------------------------------------------------------------------
\* The roll back of a collision or of an error of the database, or a 4xx answer
\* to a check made under a lock.
Refuse(r) ==
  /\ req[r] # Idle
  /\ Commit(r)
  /\ UNCHANGED bank

AuthoringNext ==
  \/ CreateProblem \/ CopyProblem
  \/ \E r \in Request :
       \/ OpenUpdate(r) \/ UpdateProblem(r)
       \/ OpenPublish(r) \/ PublishProblem(r)
       \/ OpenArchive(r) \/ ArchiveProblem(r)
       \/ OpenSetItems(r) \/ ReplaceSetItems(r)
       \/ OpenPublishSet(r) \/ PublishQuestionSet(r)
       \/ OpenArchiveSet(r) \/ ArchiveQuestionSet(r)
       \/ Refuse(r)
=============================================================================
