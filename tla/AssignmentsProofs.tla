------------------------- MODULE AssignmentsProofs -------------------------
(***************************************************************************)
(* Proofs about Assignments for any problems, students, selections and     *)
(* number of overlapping requests.                                         *)
(*                                                                         *)
(* A handler writes what it decided on a snapshot.  The invariant keeps    *)
(* what the checks of an open request found in its snapshot; a handler     *)
(* whose snapshot still reads the same then knows it of the present.       *)
(***************************************************************************)
EXTENDS Assignments, FiniteSetTheorems, SequenceTheorems, TLAPS

States == {"none", "draft", "published", "archived"}

\* The rows of problems, of the question set and of the assignment, the slots,
\* the recipients, their audits and the memberships.
TypeOK ==
  /\ problem \in [Problem -> [state : States, content : Content, edition : Nat]]
  /\ set \in [state : States, items : SUBSET Problem, edition : Nat]
  /\ req = [r \in Request |-> req[r]]
  /\ opened \in Nat
  /\ work \in [state : States, selected : SUBSET Student, everybody : BOOLEAN,
               items : SUBSET Problem, edition : Nat]
  /\ recipient \in [Student -> {"none", "active", "removed"}]
  /\ audits \in Seq([before : SUBSET Student, after : SUBSET Student])
  /\ assigned = [p \in Problem |-> assigned[p]]
  /\ member \in [Student -> {"student", "ta", "withdrawn"}]

\* What the checks of an open request found in its snapshot.
RequestOK(q) ==
  /\ q # Idle => q.number \in Nat /\ q.request.op = q.op
  /\ q.op \in OnProblem => q.request.problem \in Problem
  /\ q.op = "update" => q.request.content \in Content /\ OwnedDraft(q.snap.row)
  /\ q.op = "publish" => OwnedDraft(q.snap.row) /\ Valid(q.snap.row)
  /\ q.op = "items" => q.request.items \subseteq Problem /\ q.snap.set.state = "draft"
  /\ q.op = "publish set" =>
       /\ q.snap.set.state = "draft" /\ q.snap.set.items # {}
       /\ DOMAIN q.snap.state = q.snap.set.items
       /\ \A p \in q.snap.set.items : q.snap.state[p] = "published"
  /\ q.op = "publish assignment" =>
       \A p \in q.snap.items : q.snap.state[p] = "published"
  /\ q.op = "create" => q.request.items \subseteq Problem
  /\ q.op = "copy set" => q.snap.set.items \subseteq Problem
  /\ q.op = "edit" => q.request.items \subseteq Problem
  /\ q.op \in {"create", "copy set", "edit"} => q.request.selection \in Selection

RequestsChecked == \A r \in Request : RequestOK(req[r])

\* Nothing follows from an assignment that was never published.
Unpublished ==
  work.state \in {"none", "draft"} => audits = <<>> /\ \A p \in Problem : assigned[p] = 0

\* The last audit ends with the recipients there are.
LastAudit ==
  IF audits = <<>> THEN \A s \in Student : recipient[s] = "none"
  ELSE audits[Len(audits)].after = Recipients

IInv == TypeOK /\ RequestsChecked /\ Unpublished /\ LastAudit

-----------------------------------------------------------------------------
(* The slots of the requests.                                              *)

RequestsKept == RequestsChecked /\ req = [r \in Request |-> req[r]] /\ opened \in Nat

LEMMA SlotWritten ==
  ASSUME IInv, NEW r \in Request, NEW q, RequestOK(q),
         req' = [req EXCEPT ![r] = q], opened' \in {opened, opened + 1}
  PROVE  RequestsKept'
<1>1. \A x \in Request : req'[x] = IF x = r THEN q ELSE req[x]
  BY DEF IInv, TypeOK
<1>2. RequestsChecked'
  BY <1>1 DEF IInv, RequestsChecked
<1>3. req' = [x \in Request |-> req'[x]]
  BY DEF IInv, TypeOK
<1>4. opened' \in Nat
  BY DEF IInv, TypeOK
<1> QED
  BY <1>2, <1>3, <1>4 DEF RequestsKept

LEMMA HeldRequestOK ==
  ASSUME IInv, NEW r \in Request
  PROVE  RequestOK(req[r])
BY DEF IInv, RequestsChecked

LEMMA SlotFreed ==
  ASSUME IInv, NEW r \in Request, Commit(r)
  PROVE  RequestsKept'
<1>1. RequestOK(Idle)
  BY DEF RequestOK, Idle, OnProblem
<1> QED
  BY <1>1, SlotWritten DEF Commit

\* A request of the authoring routes is opened.
AuthoringOpens(r) ==
  \/ OpenUpdate(r) \/ OpenPublish(r) \/ OpenArchive(r)
  \/ OpenSetItems(r) \/ OpenPublishSet(r) \/ OpenArchiveSet(r)

LEMMA AuthoringOpened ==
  ASSUME IInv, NEW r \in Request, AuthoringOpens(r)
  PROVE  RequestsKept' /\ UNCHANGED bank
<1> DEFINE Q(request, snapshot) == [op |-> request.op, request |-> request,
                                    number |-> opened + 1, snap |-> snapshot]
<1>1. \A request : OpenAuthoring(r, request) =>
        /\ req' = [req EXCEPT ![r] = Q(request, Reads(request))]
        /\ opened' = opened + 1 /\ UNCHANGED bank
  BY DEF OpenAuthoring, Open
<1>2. opened + 1 \in Nat
  BY DEF IInv, TypeOK
<1>3. SUFFICES \E request : OpenAuthoring(r, request) /\ RequestOK(Q(request, Reads(request)))
  <2> HIDE DEF Q
  <2> QED
    BY <1>1, SlotWritten
<1>4. CASE OpenUpdate(r)
  <2>1. PICK p \in Problem, content \in Content :
          /\ OwnedDraft(problem[p])
          /\ OpenAuthoring(r, [op |-> "update", problem |-> p, content |-> content])
    BY <1>4 DEF OpenUpdate
  <2> DEFINE request == [op |-> "update", problem |-> p, content |-> content]
  <2>2. RequestOK(Q(request, Reads(request)))
    BY <1>2, <2>1 DEF RequestOK, Reads, OnProblem, Idle
  <2> QED
    BY <2>1, <2>2
<1>5. CASE OpenPublish(r)
  <2>1. PICK p \in Problem :
          /\ OwnedDraft(problem[p]) /\ Valid(problem[p])
          /\ OpenAuthoring(r, [op |-> "publish", problem |-> p])
    BY <1>5 DEF OpenPublish
  <2> DEFINE request == [op |-> "publish", problem |-> p]
  <2>2. RequestOK(Q(request, Reads(request)))
    BY <1>2, <2>1 DEF RequestOK, Reads, OnProblem, Idle
  <2> QED
    BY <2>1, <2>2
<1>6. CASE OpenArchive(r)
  <2>1. PICK p \in Problem : OpenAuthoring(r, [op |-> "archive", problem |-> p])
    BY <1>6 DEF OpenArchive
  <2> DEFINE request == [op |-> "archive", problem |-> p]
  <2>2. RequestOK(Q(request, Reads(request)))
    BY <1>2 DEF RequestOK, Reads, OnProblem, Idle
  <2> QED
    BY <2>1, <2>2
<1>7. CASE OpenSetItems(r)
  <2>1. PICK items \in SUBSET Problem :
          set.state = "draft" /\ OpenAuthoring(r, [op |-> "items", items |-> items])
    BY <1>7 DEF OpenSetItems
  <2> DEFINE request == [op |-> "items", items |-> items]
  <2>2. RequestOK(Q(request, Reads(request)))
    BY <1>2, <2>1 DEF RequestOK, Reads, ReadsSet, OnProblem, Idle
  <2> QED
    BY <2>1, <2>2
<1>8. CASE OpenPublishSet(r)
  <2>1. /\ set.state = "draft" /\ set.items # {}
        /\ \A p \in set.items : problem[p].state = "published"
        /\ OpenAuthoring(r, [op |-> "publish set"])
    BY <1>8 DEF OpenPublishSet
  <2> DEFINE request == [op |-> "publish set"]
  <2>2. RequestOK(Q(request, Reads(request)))
    BY <1>2, <2>1 DEF RequestOK, Reads, ReadsSet, OnProblem, Idle
  <2> QED
    BY <2>1, <2>2
<1>9. CASE OpenArchiveSet(r)
  <2>1. OpenAuthoring(r, [op |-> "archive set"])
    BY <1>9 DEF OpenArchiveSet
  <2> DEFINE request == [op |-> "archive set"]
  <2>2. RequestOK(Q(request, Reads(request)))
    BY <1>2 DEF RequestOK, Reads, OnProblem, Idle
  <2> QED
    BY <2>1, <2>2
<1> QED
  BY <1>4, <1>5, <1>6, <1>7, <1>8, <1>9 DEF AuthoringOpens

\* A request of the assignment routes is opened.
WorkOpens(r) ==
  \/ OpenCreate(r) \/ OpenEdit(r) \/ OpenPublishWork(r)
  \/ OpenRecipients(r) \/ OpenArchiveWork(r)

LEMMA WorkOpened ==
  ASSUME IInv, NEW r \in Request, WorkOpens(r)
  PROVE  RequestsKept' /\ UNCHANGED <<bank, assignment, course>>
<1> DEFINE Q(request, snapshot) == [op |-> request.op, request |-> request,
                                    number |-> opened + 1, snap |-> snapshot]
<1>1. \A request, snapshot : OpenAssignment(r, request, snapshot) =>
        /\ req' = [req EXCEPT ![r] = Q(request, snapshot)]
        /\ opened' = opened + 1 /\ UNCHANGED <<bank, assignment, course>>
  BY DEF OpenAssignment, Open
<1>2. opened + 1 \in Nat
  BY DEF IInv, TypeOK
<1>3. SUFFICES \E request, snapshot :
                 OpenAssignment(r, request, snapshot) /\ RequestOK(Q(request, snapshot))
  <2> HIDE DEF Q
  <2> QED
    BY <1>1, SlotWritten
<1>4. CASE OpenCreate(r)
  <2>1. PICK selection \in Selection :
         \/ \E items \in SUBSET Problem \ {{}} :
               OpenAssignment(r, [op |-> "create", items |-> items, selection |-> selection], <<>>)
         \/ OpenAssignment(r, [op |-> "copy set", selection |-> selection], ReadsSet)
    BY <1>4 DEF OpenCreate
  <2>2. ASSUME NEW items \in SUBSET Problem,
               OpenAssignment(r, [op |-> "create", items |-> items, selection |-> selection], <<>>)
        PROVE  \E request, snapshot :
                 OpenAssignment(r, request, snapshot) /\ RequestOK(Q(request, snapshot))
    <3> DEFINE request == [op |-> "create", items |-> items, selection |-> selection]
    <3>1. RequestOK(Q(request, <<>>))
      BY <1>2 DEF RequestOK, OnProblem, Idle
    <3> QED
      BY <2>2, <3>1
  <2>3. CASE OpenAssignment(r, [op |-> "copy set", selection |-> selection], ReadsSet)
    <3> DEFINE request == [op |-> "copy set", selection |-> selection]
    <3>1. set.items \subseteq Problem
      BY DEF IInv, TypeOK
    <3>2. RequestOK(Q(request, ReadsSet))
      BY <1>2, <3>1 DEF RequestOK, ReadsSet, OnProblem, Idle
    <3> QED
      BY <2>3, <3>2
  <2> QED
    BY <2>1, <2>2, <2>3
<1>5. CASE OpenEdit(r)
  <2>1. PICK items \in SUBSET Problem, selection \in Selection :
          OpenAssignment(r, [op |-> "edit", items |-> items, selection |-> selection], ReadsWork)
    BY <1>5 DEF OpenEdit
  <2> DEFINE request == [op |-> "edit", items |-> items, selection |-> selection]
  <2>2. RequestOK(Q(request, ReadsWork))
    BY <1>2 DEF RequestOK, OnProblem, Idle
  <2> QED
    BY <2>1, <2>2
<1>6. CASE OpenPublishWork(r)
  <2>1. Ready /\ OpenAssignment(r, [op |-> "publish assignment"], ReadsWork)
    BY <1>6 DEF OpenPublishWork
  <2> DEFINE request == [op |-> "publish assignment"]
  <2>2. RequestOK(Q(request, ReadsWork))
    BY <1>2, <2>1 DEF RequestOK, Ready, ReadsWork, OnProblem, Idle
  <2> QED
    BY <2>1, <2>2
<1>7. CASE OpenRecipients(r)
  <2>1. PICK change \in Change :
          OpenAssignment(r, [op |-> "recipients", add |-> change.add, remove |-> change.remove],
                         ReadsWork)
    BY <1>7 DEF OpenRecipients
  <2> DEFINE request == [op |-> "recipients", add |-> change.add, remove |-> change.remove]
  <2>2. RequestOK(Q(request, ReadsWork))
    BY <1>2 DEF RequestOK, OnProblem, Idle
  <2> QED
    BY <2>1, <2>2
<1>8. CASE OpenArchiveWork(r)
  <2>1. OpenAssignment(r, [op |-> "archive assignment"], ReadsWork)
    BY <1>8 DEF OpenArchiveWork
  <2> DEFINE request == [op |-> "archive assignment"]
  <2>2. RequestOK(Q(request, ReadsWork))
    BY <1>2 DEF RequestOK, OnProblem, Idle
  <2> QED
    BY <2>1, <2>2
<1> QED
  BY <1>4, <1>5, <1>6, <1>7, <1>8 DEF WorkOpens

\* A request that commits leaves its slot.
LEMMA Answered ==
  ASSUME IInv, NEW r \in Request, Commit(r)
  PROVE  req'[r] = Idle
BY DEF Commit, IInv, TypeOK

-----------------------------------------------------------------------------
(* The handlers of problems and of the question set.                       *)

BankTyped ==
  /\ problem \in [Problem -> [state : States, content : Content, edition : Nat]]
  /\ set \in [state : States, items : SUBSET Problem, edition : Nat]

\* The step of PublishedContent for a problem and for the question set.
ProblemKept(p) ==
  /\ Rank(problem'[p].state) >= Rank(problem[p].state)
  /\ problem'[p].state = "published" =>
       \/ problem[p].state = "draft" /\ problem'[p].content = "passing"
       \/ problem[p] = problem'[p]
SetKept ==
  /\ Rank(set'.state) >= Rank(set.state)
  /\ set'.state = "published" =>
       \/ set'.items # {} /\ \A p \in set.items : problem[p].state = "published"
       \/ set.state = "published"
  /\ set.state # "draft" => set'.items = set.items

\* Unless the request that leaves was overtaken by another commit.
ProblemStep(p) ==
  ProblemKept(p) \/ \E r \in Request : ProblemOvertaken(r, p) /\ req'[r] = Idle
SetStep == SetKept \/ \E r \in Request : SetOvertaken(r) /\ req'[r] = Idle
BankKept == (\A p \in Problem : ProblemStep(p)) /\ SetStep

LEMMA Ranks ==
  /\ Rank("none") = 0 /\ Rank("draft") = 1 /\ Rank("published") = 2 /\ Rank("archived") = 3
  /\ \A state \in States : Rank(state) \in 0..3 /\ Rank(state) >= Rank(state)
BY DEF Rank, States

LEMMA ProblemStays ==
  ASSUME IInv, NEW p \in Problem, problem'[p] = problem[p]
  PROVE  ProblemKept(p)
<1>1. problem[p].state \in States
  BY DEF IInv, TypeOK
<1> QED
  BY <1>1, Ranks DEF ProblemKept

LEMMA SetStays ==
  ASSUME IInv, UNCHANGED set
  PROVE  SetKept
<1>1. set.state \in States
  BY DEF IInv, TypeOK
<1> QED
  BY <1>1, Ranks DEF SetKept

LEMMA BankStays ==
  ASSUME IInv, UNCHANGED bank
  PROVE  BankTyped' /\ BankKept
BY ProblemStays, SetStays DEF bank, BankKept, ProblemStep, SetStep, BankTyped, IInv, TypeOK

\* One row of a problem is written.
LEMMA ProblemWritten ==
  ASSUME IInv, NEW p \in Problem,
         NEW row \in [state : States, content : Content, edition : Nat],
         problem' = [problem EXCEPT ![p] = row], UNCHANGED set
  PROVE  BankTyped' /\ problem'[p] = row /\ (ProblemStep(p) => BankKept)
<1>1. problem'[p] = row /\ \A x \in Problem \ {p} : problem'[x] = problem[x]
  BY DEF IInv, TypeOK
<1>2. BankTyped'
  BY DEF IInv, TypeOK, BankTyped
<1> QED
  BY <1>1, <1>2, ProblemStays, SetStays DEF BankKept, ProblemStep, SetStep

LEMMA ProblemCreated ==
  ASSUME IInv, CreateProblem \/ CopyProblem
  PROVE  BankTyped' /\ BankKept /\ UNCHANGED <<req, opened>>
<1>1. PICK p \in Problem, content \in Content :
        /\ problem[p] = Missing
        /\ problem' = [problem EXCEPT ![p].state = "draft", ![p].content = content]
        /\ UNCHANGED <<set, req, opened>>
  <2>1. \A source \in Problem : problem[source].content \in Content
    BY DEF IInv, TypeOK
  <2> QED
    BY <2>1 DEF CreateProblem, CopyProblem
<1> DEFINE row == [problem[p] EXCEPT !.state = "draft", !.content = content]
<1>2. problem' = [problem EXCEPT ![p] = row]
  BY <1>1
<1>3. /\ row.state = "draft" /\ problem[p].state = "none"
      /\ row \in [state : States, content : Content, edition : Nat]
  <2>1. problem[p] \in [state : States, content : Content, edition : Nat]
    BY DEF IInv, TypeOK
  <2>2. row.state = "draft" /\ row \in [state : States, content : Content, edition : Nat]
    BY <2>1 DEF States
  <2> QED
    BY <1>1, <2>2 DEF Missing
<1> HIDE DEF row
<1>4. BankTyped' /\ problem'[p] = row /\ (ProblemStep(p) => BankKept)
  BY <1>1, <1>2, <1>3, ProblemWritten
<1>5. ProblemStep(p)
  BY <1>3, <1>4, Ranks DEF ProblemKept, ProblemStep
<1> QED
  BY <1>1, <1>4, <1>5

LEMMA ProblemUpdated ==
  ASSUME IInv, NEW r \in Request, UpdateProblem(r)
  PROVE  BankTyped' /\ RequestsKept' /\ BankKept
<1> DEFINE p == Asked(r).problem
<1>1. /\ req[r].op = "update" /\ p \in Problem /\ Asked(r).content \in Content
      /\ OwnedDraft(Snap(r).row) /\ Asked(r).op = "update"
      /\ req[r].number \in Nat
  <2>1. req[r].op = "update" /\ RequestOK(req[r])
    BY HeldRequestOK DEF UpdateProblem, Holds
  <2> QED
    BY <2>1 DEF RequestOK, OnProblem, Asked, Snap, Idle
<1>2. PICK content \in Content :
        problem' = [problem EXCEPT ![p].content = content, ![p].edition = req[r].number]
  BY <1>1 DEF UpdateProblem, Written, Content
<1>3. Commit(r) /\ UNCHANGED set
  BY DEF UpdateProblem
<1> DEFINE row == [problem[p] EXCEPT !.content = content, !.edition = req[r].number]
<1>4. problem' = [problem EXCEPT ![p] = row]
  BY <1>2
<1>5. /\ row.state = problem[p].state
      /\ row \in [state : States, content : Content, edition : Nat]
  <2>1. problem[p] \in [state : States, content : Content, edition : Nat]
    BY <1>1 DEF IInv, TypeOK
  <2> QED
    BY <1>1, <2>1
<1> HIDE DEF row
<1>6. BankTyped' /\ problem'[p] = row /\ (ProblemStep(p) => BankKept)
  BY <1>1, <1>3, <1>4, <1>5, ProblemWritten
<1>7. ProblemStep(p)
  <2>1. CASE problem[p].state = "draft"
    BY <1>5, <1>6, <2>1, Ranks DEF ProblemKept, ProblemStep
  <2>2. CASE problem[p].state # "draft"
    <3>1. ProblemOvertaken(r, p)
      BY <1>1, <2>2 DEF ProblemOvertaken, OwnedDraft
    <3> QED
      BY <1>3, <3>1, Answered DEF ProblemStep
  <2> QED
    BY <2>1, <2>2
<1> QED
  BY <1>3, <1>6, <1>7, SlotFreed

LEMMA ProblemPublished ==
  ASSUME IInv, NEW r \in Request, PublishProblem(r)
  PROVE  BankTyped' /\ RequestsKept' /\ BankKept
<1> DEFINE p == Asked(r).problem
<1>1. /\ req[r].op = "publish" /\ p \in Problem /\ Asked(r).op = "publish"
      /\ OwnedDraft(Snap(r).row) /\ Valid(Snap(r).row)
  <2>1. req[r].op = "publish" /\ RequestOK(req[r])
    BY HeldRequestOK DEF PublishProblem, Holds
  <2> QED
    BY <2>1 DEF RequestOK, OnProblem, Asked, Snap, Idle
<1>2. /\ problem' = [problem EXCEPT ![p].state = "published"]
      /\ Commit(r) /\ UNCHANGED set
  BY DEF PublishProblem
<1> DEFINE row == [problem[p] EXCEPT !.state = "published"]
<1>3. problem' = [problem EXCEPT ![p] = row]
  BY <1>2
<1>4. /\ row.state = "published" /\ row.content = problem[p].content
      /\ row \in [state : States, content : Content, edition : Nat]
  <2>1. problem[p] \in [state : States, content : Content, edition : Nat]
    BY <1>1 DEF IInv, TypeOK
  <2> QED
    BY <2>1 DEF States
<1> HIDE DEF row
<1>5. BankTyped' /\ problem'[p] = row /\ (ProblemStep(p) => BankKept)
  BY <1>1, <1>2, <1>3, <1>4, ProblemWritten
<1>6. ProblemStep(p)
  <2>1. CASE problem[p].state = "draft" /\ problem[p].content = "passing"
    BY <1>4, <1>5, <2>1, Ranks DEF ProblemKept, ProblemStep
  <2>2. CASE problem[p].state # "draft" \/ problem[p].content # "passing"
    <3>1. ProblemOvertaken(r, p)
      BY <1>1, <2>2 DEF ProblemOvertaken, OwnedDraft, Valid, Holds
    <3> QED
      BY <1>2, <3>1, Answered DEF ProblemStep
  <2> QED
    BY <2>1, <2>2
<1> QED
  BY <1>2, <1>5, <1>6, SlotFreed

LEMMA ProblemArchived ==
  ASSUME IInv, NEW r \in Request, ArchiveProblem(r)
  PROVE  BankTyped' /\ RequestsKept' /\ BankKept
<1> DEFINE p == Asked(r).problem
<1>1. p \in Problem
  <2>1. req[r].op = "archive" /\ RequestOK(req[r])
    BY HeldRequestOK DEF ArchiveProblem, Holds
  <2> QED
    BY <2>1 DEF RequestOK, OnProblem, Asked
<1>2. /\ problem' = [problem EXCEPT ![p].state = "archived"]
      /\ Commit(r) /\ UNCHANGED set
  BY DEF ArchiveProblem
<1> DEFINE row == [problem[p] EXCEPT !.state = "archived"]
<1>3. problem' = [problem EXCEPT ![p] = row]
  BY <1>2
<1>4. /\ row.state = "archived" /\ row.content = problem[p].content
      /\ row \in [state : States, content : Content, edition : Nat]
  <2>1. problem[p] \in [state : States, content : Content, edition : Nat]
    BY <1>1 DEF IInv, TypeOK
  <2> QED
    BY <2>1 DEF States
<1> HIDE DEF row
<1>5. BankTyped' /\ problem'[p] = row /\ (ProblemStep(p) => BankKept)
  BY <1>1, <1>2, <1>3, <1>4, ProblemWritten
<1>6. ProblemStep(p)
  <2>1. problem[p].state \in States
    BY <1>1 DEF IInv, TypeOK
  <2> QED
    BY <1>4, <1>5, <2>1, Ranks DEF ProblemKept, ProblemStep
<1> QED
  BY <1>2, <1>5, <1>6, SlotFreed

LEMMA SetItemsReplaced ==
  ASSUME IInv, NEW r \in Request, ReplaceSetItems(r)
  PROVE  BankTyped' /\ RequestsKept' /\ BankKept
<1>1. /\ req[r].op = "items" /\ Asked(r).op = "items" /\ req[r].number \in Nat
      /\ Asked(r).items \subseteq Problem /\ Snap(r).set.state = "draft"
  <2>1. req[r].op = "items" /\ RequestOK(req[r])
    BY HeldRequestOK DEF ReplaceSetItems, Holds
  <2> QED
    BY <2>1 DEF RequestOK, Asked, Snap, Idle
<1>2. PICK items \in SUBSET Problem :
        set' = [set EXCEPT !.items = items, !.edition = req[r].number]
  <2>1. set.items \subseteq Problem
    BY DEF IInv, TypeOK
  <2> QED
    BY <1>1, <2>1 DEF ReplaceSetItems
<1>3. Commit(r) /\ UNCHANGED problem
  BY DEF ReplaceSetItems
<1>4. set'.state = set.state /\ set' \in [state : States, items : SUBSET Problem, edition : Nat]
  BY <1>1, <1>2 DEF IInv, TypeOK
<1>5. SetStep
  <2>1. CASE set.state = "draft"
    BY <1>4, <2>1, Ranks DEF SetKept, SetStep
  <2>2. CASE set.state # "draft"
    <3>1. SetOvertaken(r)
      BY <1>1, <2>2 DEF SetOvertaken
    <3> QED
      BY <1>3, <3>1, Answered DEF SetStep
  <2> QED
    BY <2>1, <2>2
<1> QED
  BY <1>3, <1>4, <1>5, ProblemStays, SlotFreed DEF BankTyped, BankKept, ProblemStep, IInv, TypeOK

LEMMA SetPublished ==
  ASSUME IInv, NEW r \in Request, PublishQuestionSet(r)
  PROVE  BankTyped' /\ RequestsKept' /\ BankKept
<1>1. /\ req[r].op = "publish set" /\ Asked(r).op = "publish set"
      /\ Snap(r).set.state = "draft" /\ Snap(r).set.items # {}
      /\ DOMAIN Snap(r).state = Snap(r).set.items
      /\ \A p \in Snap(r).set.items : Snap(r).state[p] = "published"
  <2>1. req[r].op = "publish set" /\ RequestOK(req[r])
    BY HeldRequestOK DEF PublishQuestionSet, Holds
  <2>2. Asked(r).op = "publish set"
    <3>1. req[r].op # Idle.op
      BY <2>1 DEF Idle
    <3> QED
      BY <2>1, <3>1, Zenon DEF RequestOK, Asked
  <2>3. /\ Snap(r).set.state = "draft" /\ Snap(r).set.items # {}
        /\ DOMAIN Snap(r).state = Snap(r).set.items
        /\ \A p \in Snap(r).set.items : Snap(r).state[p] = "published"
    BY <2>1, Zenon DEF RequestOK, Snap
  <2> QED
    BY <2>1, <2>2, <2>3
<1>2. set' = [set EXCEPT !.state = "published"] /\ Commit(r) /\ UNCHANGED problem
  BY DEF PublishQuestionSet
<1>3. /\ set'.state = "published" /\ set'.items = set.items
      /\ set' \in [state : States, items : SUBSET Problem, edition : Nat]
  BY <1>2 DEF IInv, TypeOK, States
<1>4. SetStep
  <2>1. CASE SetOvertaken(r)
    BY <1>2, <2>1, Answered DEF SetStep
  <2>2. CASE ~SetOvertaken(r)
    <3>1. set.state = "draft" /\ Snap(r).state = [p \in set.items |-> problem[p].state]
      <4>1. set.state = "draft" /\ Snap(r).state = ReadsSet.state
        BY <1>1, <2>2, Zenon DEF SetOvertaken, Holds
      <4> QED
        BY <4>1 DEF ReadsSet
    <3>2. DOMAIN Snap(r).state = Snap(r).set.items
      BY <1>1
    <3>3. set.items # {} /\ \A p \in set.items : problem[p].state = "published"
      <4>1. Snap(r).set.items = set.items
        BY <3>1, <3>2
      <4>2. set.items # {} /\ \A p \in set.items : Snap(r).state[p] = "published"
        BY <1>1, <4>1
      <4>3. \A p \in set.items : Snap(r).state[p] = problem[p].state
        BY <3>1
      <4> QED
        BY <4>2, <4>3
    <3> QED
      BY <1>3, <3>1, <3>3, Ranks DEF SetKept, SetStep
  <2> QED
    BY <2>1, <2>2
<1> QED
  BY <1>2, <1>3, <1>4, ProblemStays, SlotFreed DEF BankTyped, BankKept, ProblemStep, IInv, TypeOK

LEMMA SetArchived ==
  ASSUME IInv, NEW r \in Request, ArchiveQuestionSet(r)
  PROVE  BankTyped' /\ RequestsKept' /\ BankKept
<1>1. set' = [set EXCEPT !.state = "archived"] /\ Commit(r) /\ UNCHANGED problem
  BY DEF ArchiveQuestionSet
<1>2. /\ set'.state = "archived" /\ set'.items = set.items /\ set.state \in States
      /\ set' \in [state : States, items : SUBSET Problem, edition : Nat]
  BY <1>1 DEF IInv, TypeOK, States
<1>3. SetKept
  BY <1>2, Ranks DEF SetKept
<1> QED
  BY <1>1, <1>2, <1>3, ProblemStays, SlotFreed
  DEF BankTyped, BankKept, ProblemStep, SetStep, IInv, TypeOK

LEMMA AuthoringKeeps ==
  ASSUME IInv, AuthoringNext
  PROVE  BankTyped' /\ RequestsKept' /\ BankKept
<1>1. CASE CreateProblem \/ CopyProblem
  <2>1. UNCHANGED <<req, opened>>
    BY <1>1, ProblemCreated
  <2>2. RequestsKept'
    BY <2>1 DEF RequestsKept, RequestsChecked, IInv, TypeOK
  <2> QED
    BY <1>1, <2>2, ProblemCreated
<1>2. ASSUME NEW r \in Request, AuthoringOpens(r)
      PROVE  BankTyped' /\ RequestsKept' /\ BankKept
  BY <1>2, AuthoringOpened, BankStays
<1>3. ASSUME NEW r \in Request, Refuse(r)
      PROVE  BankTyped' /\ RequestsKept' /\ BankKept
  BY <1>3, SlotFreed, BankStays DEF Refuse
<1> QED
  BY <1>1, <1>2, <1>3, ProblemUpdated, ProblemPublished, ProblemArchived, SetItemsReplaced,
    SetPublished, SetArchived DEF AuthoringNext, AuthoringOpens

-----------------------------------------------------------------------------
(* The handlers of the assignment.                                         *)

WorkRow == [state : States, selected : SUBSET Student, everybody : BOOLEAN,
            items : SUBSET Problem, edition : Nat]
AuditRow == [before : SUBSET Student, after : SUBSET Student]

WorkInv ==
  /\ work \in WorkRow
  /\ recipient \in [Student -> {"none", "active", "removed"}]
  /\ audits \in Seq(AuditRow)
  /\ assigned = [p \in Problem |-> assigned[p]]
  /\ Unpublished
  /\ LastAudit

\* The steps of the properties of the assignment.
FrozenStep ==
  /\ work.state \in {"published", "archived"} =>
       /\ Rank(work'.state) >= Rank(work.state)
       /\ [work' EXCEPT !.state = work.state] = work
  /\ work.state = "draft" /\ work'.state = "published" =>
       \A p \in work.items :
         \/ problem[p].state = "published"
         \/ \E r \in Request :
              /\ Holds(r, "publish assignment") /\ req'[r] = Idle
              /\ p \in Snap(r).items => Snap(r).state[p] # problem[p].state
ExplainedStep ==
  /\ \A s \in Student :
       recipient[s] # "active" /\ recipient'[s] = "active" => member[s] = "student"
  /\ IF audits' = <<>> THEN \A s \in Student : recipient'[s] = "none"
     ELSE /\ audits'[Len(audits')].after = {s \in Student : recipient'[s] = "active"}
          /\ audits # audits' =>
               audits'[Len(audits')].before =
                 IF audits = <<>> THEN {} ELSE audits[Len(audits)].after
SummaryStep ==
  Counted /\ ~Counted' =>
    \E r \in Request : /\ req[r].op \in {"publish assignment", "recipients"}
                       /\ req'[r] = Idle /\ Snap(r).items # work.items
WorkKept == FrozenStep /\ ExplainedStep /\ SummaryStep

LEMMA HasWorkInv == IInv => WorkInv
BY DEF IInv, TypeOK, WorkInv, WorkRow, AuditRow

\* The recipients, their audits and the summaries are left alone, and the
\* assignment is a draft or becomes one.
LEMMA DraftWritten ==
  ASSUME IInv, work' \in WorkRow, work.state \in {"none", "draft"}, work'.state = "draft",
         UNCHANGED <<recipient, audits, assigned>>
  PROVE  WorkInv' /\ WorkKept
<1>1. WorkInv'
  BY HasWorkInv DEF WorkInv, Unpublished, LastAudit, Recipients
<1>2. FrozenStep
  BY DEF FrozenStep
<1>3. ExplainedStep
  BY HasWorkInv DEF WorkInv, ExplainedStep, LastAudit, Recipients
<1>4. SummaryStep
  BY DEF SummaryStep, Counted
<1> QED
  BY <1>1, <1>2, <1>3, <1>4 DEF WorkKept

LEMMA WorkStays ==
  ASSUME IInv, UNCHANGED assignment
  PROVE  WorkInv' /\ WorkKept
<1>1. UNCHANGED <<work, recipient, audits, assigned>>
  BY DEF assignment
<1>2. WorkInv'
  BY <1>1, HasWorkInv DEF WorkInv, Unpublished, LastAudit, Recipients
<1>3. FrozenStep
  <2>1. work \in WorkRow
    BY HasWorkInv DEF WorkInv
  <2>2. [work EXCEPT !.state = work.state] = work /\ work.state \in States
    BY <2>1 DEF WorkRow
  <2> QED
    BY <1>1, <2>2, Ranks DEF FrozenStep
<1>4. ExplainedStep
  BY <1>1, HasWorkInv DEF WorkInv, ExplainedStep, LastAudit, Recipients
<1>5. SummaryStep
  BY <1>1 DEF SummaryStep, Counted, Recipients
<1> QED
  BY <1>2, <1>3, <1>4, <1>5 DEF WorkKept

LEMMA AssignmentCreated ==
  ASSUME IInv, NEW r \in Request, CreateAssignment(r)
  PROVE  WorkInv' /\ RequestsKept' /\ WorkKept
<1> DEFINE items == IF req[r].op = "create" THEN Asked(r).items ELSE Snap(r).set.items
<1>1. /\ req[r].op \in {"create", "copy set"}
      /\ work.state = "none"
      /\ work' = [state |-> "draft", items |-> items, edition |-> req[r].number,
                  everybody |-> Asked(r).selection.everybody,
                  selected |-> Asked(r).selection.selected]
      /\ Commit(r)
      /\ UNCHANGED <<bank, recipient, audits, assigned, course>>
  BY DEF CreateAssignment
<1>2. RequestOK(req[r]) /\ req[r].op # Idle.op
  BY <1>1, HeldRequestOK DEF Idle
<1>3. /\ items \subseteq Problem /\ req[r].number \in Nat
      /\ Asked(r).selection \in Selection
  <2>1. req[r].number \in Nat
    BY <1>2, Zenon DEF RequestOK
  <2>2. /\ req[r].op = "create" => Asked(r).items \subseteq Problem
        /\ req[r].op = "copy set" => Snap(r).set.items \subseteq Problem
        /\ req[r].op \in {"create", "copy set", "edit"} => Asked(r).selection \in Selection
    BY <1>2, Zenon DEF RequestOK, Asked, Snap
  <2> QED
    BY <1>1, <2>1, <2>2
<1>4. Asked(r).selection \in [everybody : BOOLEAN, selected : SUBSET Student]
  BY <1>3, AssignmentAssumption
<1> HIDE DEF items
<1>5. work' \in WorkRow /\ work'.state = "draft"
  BY <1>1, <1>3, <1>4 DEF WorkRow, States
<1> QED
  BY <1>1, <1>5, DraftWritten, SlotFreed

LEMMA AssignmentEdited ==
  ASSUME IInv, NEW r \in Request, EditAssignment(r)
  PROVE  WorkInv' /\ RequestsKept' /\ WorkKept
<1> DEFINE keeps == Asked(r).items = {}
           items == IF keeps THEN work.items ELSE Asked(r).items
           edition == IF keeps THEN work.edition ELSE req[r].number
           selection == Asked(r).selection
<1>1. /\ req[r].op = "edit" /\ work.state = "draft"
      /\ work' = [work EXCEPT !.items = items, !.edition = edition,
                              !.everybody = selection.everybody,
                              !.selected = selection.selected]
      /\ Commit(r)
      /\ UNCHANGED <<bank, recipient, audits, assigned, course>>
  BY DEF EditAssignment, Holds, IsDraft
<1>2. RequestOK(req[r]) /\ req[r].op # Idle.op
  BY <1>1, HeldRequestOK DEF Idle
<1>3. /\ Asked(r).items \subseteq Problem /\ req[r].number \in Nat
      /\ selection \in Selection
  <2>1. req[r].number \in Nat
    BY <1>2, Zenon DEF RequestOK
  <2>2. /\ req[r].op = "edit" => Asked(r).items \subseteq Problem
        /\ req[r].op \in {"create", "copy set", "edit"} => Asked(r).selection \in Selection
    BY <1>2, Zenon DEF RequestOK, Asked, Snap
  <2> QED
    BY <1>1, <2>1, <2>2
<1>4. selection \in [everybody : BOOLEAN, selected : SUBSET Student]
  BY <1>3, AssignmentAssumption
<1>5. work \in WorkRow
  BY HasWorkInv DEF WorkInv
<1>6. items \subseteq Problem /\ edition \in Nat
  BY <1>3, <1>5 DEF WorkRow
<1> HIDE DEF items, edition, selection
<1>7. work' \in WorkRow /\ work'.state = "draft"
  BY <1>1, <1>4, <1>5, <1>6 DEF WorkRow
<1> QED
  BY <1>1, <1>7, DraftWritten, SlotFreed

\* What an audit appends.
LEMMA AuditAppended ==
  ASSUME IInv, NEW before \in SUBSET Student, Audit(before)
  PROVE  /\ audits' \in Seq(AuditRow)
         /\ audits' # <<>>
         /\ audits'[Len(audits')].before = before
         /\ audits'[Len(audits')].after = Recipients'
<1> DEFINE row == [before |-> before, after |-> Recipients']
<1>1. Recipients' \subseteq Student
  BY DEF Recipients
<1>2. row \in AuditRow
  BY <1>1 DEF AuditRow
<1>3. audits' = Append(audits, row)
  BY DEF Audit, Recipients
<1>4. row.before = before /\ row.after = Recipients'
  OBVIOUS
<1> HIDE DEF row
<1>5. audits \in Seq(AuditRow)
  BY HasWorkInv DEF WorkInv
<1>6. audits' \in Seq(AuditRow) /\ Len(audits') = Len(audits) + 1 /\ audits'[Len(audits) + 1] = row
  BY <1>2, <1>3, <1>5, AppendProperties
<1>7. audits' # <<>>
  BY <1>5, <1>6, LenProperties, EmptySeq
<1> QED
  BY <1>4, <1>6, <1>7

\* Summaries refreshed for the items the assignment has.
LEMMA SummariesRefreshed ==
  ASSUME NEW r \in Request, RefreshSummaries(r), Snap(r).items = work.items,
         work'.items = work.items, \A p \in Problem \ work.items : assigned[p] = 0
  PROVE  Counted'
BY DEF RefreshSummaries, Assigned, Counted, Recipients

LEMMA AssignmentPublished ==
  ASSUME IInv, NEW r \in Request, PublishAssignment(r)
  PROVE  WorkInv' /\ RequestsKept' /\ WorkKept
<1>1. /\ req[r].op = "publish assignment" /\ work.state = "draft"
      /\ Selectable(work)
      /\ recipient' = [s \in Student |-> IF s \in Chosen(work) THEN "active" ELSE "none"]
      /\ work' = [work EXCEPT !.state = "published"]
      /\ Audit({})
      /\ RefreshSummaries(r)
      /\ Commit(r)
      /\ UNCHANGED <<bank, course>>
  BY DEF PublishAssignment, Holds, IsDraft
<1>2. WorkInv /\ audits = <<>> /\ \A p \in Problem : assigned[p] = 0
  BY <1>1, HasWorkInv DEF IInv, Unpublished
<1>3. /\ audits' \in Seq(AuditRow) /\ audits' # <<>>
      /\ audits'[Len(audits')].before = {}
      /\ audits'[Len(audits')].after = Recipients'
  BY <1>1, AuditAppended
<1>4. work' \in WorkRow /\ work'.state = "published" /\ work'.items = work.items
  BY <1>1, <1>2 DEF WorkInv, WorkRow, States
<1>5. assigned' = [p \in Problem |-> assigned'[p]]
  BY <1>1 DEF RefreshSummaries
<1>6. WorkInv'
  BY <1>1, <1>3, <1>4, <1>5 DEF WorkInv, Unpublished, LastAudit
<1>7. req'[r] = Idle
  BY <1>1, Answered
<1>8. FrozenStep
  <2> SUFFICES ASSUME NEW p \in work.items, problem[p].state # "published"
               PROVE  p \in Snap(r).items => Snap(r).state[p] # problem[p].state
    BY <1>1, <1>7 DEF FrozenStep, Holds
  <2>1. \A x \in Snap(r).items : Snap(r).state[x] = "published"
    <3>1. RequestOK(req[r])
      BY HeldRequestOK
    <3> QED
      BY <1>1, <3>1, Zenon DEF RequestOK, Snap
  <2> QED
    BY <2>1
<1>9. ExplainedStep
  <2>1. Chosen(work) \subseteq Students
    BY <1>1 DEF Selectable, Chosen
  <2>2. \A s \in Student : recipient'[s] = "active" => member[s] = "student"
    BY <1>1, <2>1 DEF Students
  <2> QED
    BY <1>2, <1>3, <2>2 DEF ExplainedStep, Recipients
<1>10. SummaryStep
  BY <1>1, <1>2, <1>4, <1>7, SummariesRefreshed DEF SummaryStep
<1> QED
  BY <1>1, <1>6, <1>8, <1>9, <1>10, SlotFreed DEF WorkKept

LEMMA RecipientsChanged ==
  ASSUME IInv, NEW r \in Request, ChangeRecipients(r)
  PROVE  WorkInv' /\ RequestsKept' /\ WorkKept
<1>1. /\ req[r].op = "recipients" /\ work.state = "published"
      /\ \A s \in Asked(r).add : CurrentStudent(s)
      /\ recipient' = [s \in Student |-> Changed(r, s)]
      /\ Audit(Recipients)
      /\ RefreshSummaries(r)
      /\ Commit(r)
      /\ UNCHANGED <<bank, work, course>>
  BY DEF ChangeRecipients, Holds
<1>2. WorkInv
  BY HasWorkInv
<1>3. /\ audits' \in Seq(AuditRow) /\ audits' # <<>>
      /\ audits'[Len(audits')].before = Recipients
      /\ audits'[Len(audits')].after = Recipients'
  <2>1. Recipients \in SUBSET Student
    BY DEF Recipients
  <2> QED
    BY <1>1, <2>1, AuditAppended
<1>4. \A s \in Student : Changed(r, s) \in {"active", "removed", recipient[s]}
  BY DEF Changed
<1>5. recipient' \in [Student -> {"none", "active", "removed"}]
  BY <1>1, <1>2, <1>4 DEF WorkInv
<1>6. assigned' = [p \in Problem |-> assigned'[p]]
  BY <1>1 DEF RefreshSummaries
<1>7. WorkInv'
  BY <1>1, <1>2, <1>3, <1>5, <1>6 DEF WorkInv, Unpublished, LastAudit
<1>8. FrozenStep
  <2>1. work \in WorkRow
    BY <1>2 DEF WorkInv
  <2>2. [work EXCEPT !.state = work.state] = work /\ work.state \in States
    BY <2>1 DEF WorkRow
  <2> QED
    BY <1>1, <2>2, Ranks DEF FrozenStep
<1>9. ExplainedStep
  <2>1. ASSUME NEW s \in Student, recipient[s] # "active", recipient'[s] = "active"
        PROVE  member[s] = "student"
    <3>1. s \in Asked(r).add
      BY <1>1, <2>1 DEF Changed
    <3> QED
      BY <1>1, <3>1 DEF CurrentStudent
  <2>2. Recipients = IF audits = <<>> THEN {} ELSE audits[Len(audits)].after
    BY <1>2 DEF WorkInv, LastAudit, Recipients
  <2> QED
    BY <1>3, <2>1, <2>2 DEF ExplainedStep, Recipients
<1>10. SummaryStep
  <2>1. req'[r] = Idle
    BY <1>1, Answered
  <2> SUFFICES ASSUME Counted, Snap(r).items = work.items PROVE Counted'
    BY <1>1, <2>1 DEF SummaryStep
  <2>3. \A p \in Problem \ work.items : assigned[p] = 0
    BY <1>1 DEF Counted
  <2> QED
    BY <1>1, <2>3, SummariesRefreshed
<1> QED
  BY <1>1, <1>7, <1>8, <1>9, <1>10, SlotFreed DEF WorkKept

LEMMA AssignmentArchived ==
  ASSUME IInv, NEW r \in Request, ArchiveAssignment(r)
  PROVE  WorkInv' /\ RequestsKept' /\ WorkKept
<1>1. /\ work.state = "published"
      /\ work' = [work EXCEPT !.state = "archived"]
      /\ Commit(r)
      /\ UNCHANGED <<bank, recipient, audits, assigned, course>>
  BY DEF ArchiveAssignment
<1>2. WorkInv
  BY HasWorkInv
<1>3. /\ work' \in WorkRow /\ work'.state = "archived" /\ work'.items = work.items
      /\ [work' EXCEPT !.state = work.state] = work
  <2>1. work \in WorkRow
    BY <1>2 DEF WorkInv
  <2> QED
    BY <1>1, <2>1 DEF WorkRow, States
<1>4. WorkInv'
  BY <1>1, <1>2, <1>3 DEF WorkInv, Unpublished, LastAudit, Recipients
<1>5. FrozenStep
  BY <1>1, <1>3, Ranks DEF FrozenStep
<1>6. ExplainedStep
  BY <1>1, <1>2 DEF WorkInv, ExplainedStep, LastAudit, Recipients
<1>7. SummaryStep
  BY <1>1, <1>3 DEF SummaryStep, Counted, Recipients
<1> QED
  BY <1>1, <1>4, <1>5, <1>6, <1>7, SlotFreed DEF WorkKept

-----------------------------------------------------------------------------
(* The theorems.                                                           *)

LEMMA InvParts ==
  /\ BankTyped /\ RequestsKept /\ WorkInv
  /\ member \in [Student -> {"student", "ta", "withdrawn"}]
  => IInv
BY DEF BankTyped, RequestsKept, WorkInv, WorkRow, AuditRow, IInv, TypeOK

LEMMA InitIInv == Init => IInv
<1> SUFFICES ASSUME Init PROVE IInv
  OBVIOUS
<1>1. BankTyped
  <2>1. Missing \in [state : States, content : Content, edition : Nat]
    BY DEF Missing, States, Content
  <2>2. /\ [state : {"draft"}, content : Content, edition : {0}]
             \subseteq [state : States, content : Content, edition : Nat]
        /\ [state : {"published"}, content : {"passing"}, edition : {0}]
             \subseteq [state : States, content : Content, edition : Nat]
    BY DEF States, Content
  <2>3. problem \in [Problem -> [state : States, content : Content, edition : Nat]]
    BY <2>1, <2>2 DEF Init, AuthoringInit
  <2>4. set \in [state : States, items : SUBSET Problem, edition : Nat]
    BY DEF Init, AuthoringInit, States
  <2> QED
    BY <2>3, <2>4 DEF BankTyped
<1>2. RequestsKept
  <2>1. RequestOK(Idle)
    BY DEF RequestOK, Idle, OnProblem
  <2>2. req = [r \in Request |-> Idle] /\ opened = 0
    BY DEF Init, AuthoringInit
  <2> QED
    BY <2>1, <2>2 DEF RequestsKept, RequestsChecked
<1>3. WorkInv
  <2>1. NoAssignment \in WorkRow /\ NoAssignment.state = "none"
    BY DEF NoAssignment, WorkRow, States
  <2>2. \A items \in SUBSET Problem :
          /\ [NoAssignment EXCEPT !.state = "draft", !.items = items] \in WorkRow
          /\ [NoAssignment EXCEPT !.state = "draft", !.items = items].state = "draft"
    BY DEF NoAssignment, WorkRow, States
  <2>3. \/ work = NoAssignment
        \/ \E items \in SUBSET Problem :
             work = [NoAssignment EXCEPT !.state = "draft", !.items = items]
    BY DEF Init
  <2>4. work \in WorkRow
    BY <2>1, <2>2, <2>3
  <2>5. audits = <<>> /\ audits \in Seq(AuditRow)
    BY EmptySeq DEF Init
  <2>6. /\ recipient = [s \in Student |-> "none"]
        /\ assigned = [p \in Problem |-> 0]
    BY DEF Init
  <2> QED
    BY <2>4, <2>5, <2>6 DEF WorkInv, Unpublished, LastAudit
<1>4. member \in [Student -> {"student", "ta", "withdrawn"}]
  BY DEF Init
<1> QED
  BY <1>1, <1>2, <1>3, <1>4, InvParts

LEMMA NextKeeps == IInv /\ [Next]_vars => IInv' /\ BankKept /\ WorkKept
<1> DEFINE Kept == /\ BankTyped' /\ RequestsKept' /\ WorkInv'
                   /\ BankKept /\ WorkKept
<1>1. ASSUME IInv PROVE member \in [Student -> {"student", "ta", "withdrawn"}]
  BY <1>1 DEF IInv, TypeOK
<1>2. ASSUME IInv, UNCHANGED <<req, opened>> PROVE RequestsKept'
  BY <1>2 DEF RequestsKept, RequestsChecked, IInv, TypeOK
<1>3. ASSUME IInv, AuthoringNext, UNCHANGED <<assignment, course>>
      PROVE  Kept /\ UNCHANGED member
  BY <1>3, AuthoringKeeps, WorkStays DEF course
<1>4. ASSUME IInv, NEW r \in Request, WorkOpens(r)
      PROVE  Kept /\ UNCHANGED member
  BY <1>4, WorkOpened, BankStays, WorkStays DEF course
<1>5. ASSUME IInv, NEW r \in Request,
             \/ CreateAssignment(r) \/ EditAssignment(r) \/ PublishAssignment(r)
             \/ ChangeRecipients(r) \/ ArchiveAssignment(r)
      PROVE  Kept /\ UNCHANGED member
  <2>1. UNCHANGED bank /\ UNCHANGED course
    BY <1>5 DEF CreateAssignment, EditAssignment, PublishAssignment, ChangeRecipients,
      ArchiveAssignment
  <2> QED
    BY <1>5, <2>1, BankStays, AssignmentCreated, AssignmentEdited, AssignmentPublished,
      RecipientsChanged, AssignmentArchived DEF course
<1>6. ASSUME IInv, MoveMember \/ ArchiveCourse \/ UNCHANGED vars
      PROVE  Kept /\ (member \in [Student -> {"student", "ta", "withdrawn"}])'
  <2>1. UNCHANGED <<authoring_vars, assignment>>
    BY <1>6 DEF MoveMember, ArchiveCourse, vars
  <2>2. UNCHANGED <<bank, req, opened>>
    BY <2>1 DEF authoring_vars
  <2>3. (member \in [Student -> {"student", "ta", "withdrawn"}])'
    BY <1>1, <1>6 DEF MoveMember, ArchiveCourse, vars, course
  <2> QED
    BY <1>2, <1>6, <2>1, <2>2, <2>3, BankStays, WorkStays
<1>7. ASSUME IInv, [Next]_vars
      PROVE  Kept /\ (member \in [Student -> {"student", "ta", "withdrawn"}])'
  <2>1. CASE AuthoringNext /\ UNCHANGED <<assignment, course>>
    BY <1>1, <1>3, <1>7, <2>1
  <2>2. ASSUME NEW r \in Request, WorkOpens(r)
        PROVE  Kept /\ (member \in [Student -> {"student", "ta", "withdrawn"}])'
    BY <1>1, <1>4, <1>7, <2>2
  <2>3. ASSUME NEW r \in Request,
               \/ CreateAssignment(r) \/ EditAssignment(r) \/ PublishAssignment(r)
               \/ ChangeRecipients(r) \/ ArchiveAssignment(r)
        PROVE  Kept /\ (member \in [Student -> {"student", "ta", "withdrawn"}])'
    BY <1>1, <1>5, <1>7, <2>3
  <2>4. CASE MoveMember \/ ArchiveCourse \/ UNCHANGED vars
    BY <1>6, <1>7, <2>4
  <2> HIDE DEF Kept
  <2> QED
    BY <1>7, <2>1, <2>2, <2>3, <2>4 DEF Next, WorkOpens
<1>8. (/\ BankTyped /\ RequestsKept /\ WorkInv
       /\ member \in [Student -> {"student", "ta", "withdrawn"}])' => IInv'
  BY InvParts, PTL
<1> QED
  BY <1>7, <1>8

\* Every request that is open was checked on its snapshot, and the last audit
\* ends with the recipients there are.
THEOREM Invariance == Spec => []IInv
<1>1. IInv /\ [Next]_vars => IInv'
  BY NextKeeps
<1> QED
  BY InitIInv, <1>1, PTL DEF Spec

\* However many requests overlap, no step takes a published problem or set back,
\* publishes one unchecked, or changes one, unless another commit has changed that
\* row since the request read it.
THEOREM PublishedContentKept == Spec => PublishedContent
<1> DEFINE Step ==
      /\ \A p \in Problem :
           \/ \E r \in Request : ProblemOvertaken(r, p) /\ req'[r] = Idle
           \/ /\ Rank(problem'[p].state) >= Rank(problem[p].state)
              /\ problem'[p].state = "published" =>
                   \/ problem[p].state = "draft" /\ problem'[p].content = "passing"
                   \/ problem[p] = problem'[p]
      /\ \/ \E r \in Request : SetOvertaken(r) /\ req'[r] = Idle
         \/ /\ Rank(set'.state) >= Rank(set.state)
            /\ set'.state = "published" =>
                 \/ set'.items # {} /\ \A p \in set.items : problem[p].state = "published"
                 \/ set.state = "published"
            /\ set.state # "draft" => set'.items = set.items
<1>1. IInv /\ [Next]_vars => [Step]_vars
  BY NextKeeps DEF BankKept, ProblemStep, SetStep, ProblemKept, SetKept
<1> QED
  BY Invariance, <1>1, PTL DEF Spec, PublishedContent

\* A published assignment is frozen, and its items were published problems but for
\* those added or archived after the publication had read them.
THEOREM PublicationFreezes == Spec => FrozenAtPublication
<1>1. IInv /\ [Next]_vars => [FrozenStep]_vars
  BY NextKeeps DEF WorkKept
<1> QED
  BY Invariance, <1>1, PTL DEF Spec, FrozenAtPublication, FrozenStep

\* Only students become recipients, and the audits explain the recipients.
THEOREM AuditsExplain == Spec => RecipientsExplained
<1>1. IInv /\ [Next]_vars => [ExplainedStep]_vars
  BY NextKeeps DEF WorkKept
<1> QED
  BY Invariance, <1>1, PTL DEF Spec, RecipientsExplained, ExplainedStep

\* Only a request that refreshes the summaries of items edited meanwhile makes
\* the counts of recipients wrong.
THEOREM SummariesCount == Spec => SummaryCountsRecipients
<1>1. IInv /\ [Next]_vars => [SummaryStep]_vars
  BY NextKeeps DEF WorkKept
<1> QED
  BY Invariance, <1>1, PTL DEF Spec, SummaryCountsRecipients, SummaryStep
=============================================================================
