---------------------------- MODULE CourseRoster ----------------------------
(***************************************************************************)
(* The members of one course, its pending invitations, and the accounts    *)
(* and verification tokens through which students come in.                 *)
(*                                                                         *)
(* Every request that writes here reads something first (the instructor's  *)
(* membership, the course of a link, the token) and locks the course row   *)
(* afterwards.  Under REPEATABLE READ the first read fixes the snapshot of *)
(* every later plain SELECT; only the course, the user, the token and the  *)
(* invitation are read again under a lock.  The lock is held until the     *)
(* commit, so a request is two actions: Open, which takes the snapshot,    *)
(* and its handler, which holds the lock and commits or is refused.        *)
(***************************************************************************)
EXTENDS Integers, FiniteSets

CONSTANTS
  User,         \* e-mail addresses, with the accounts they may have
  Professor,    \* those with a professor account
  Creator,      \* the professor who created the course
  Request,      \* request slots: how many transactions overlap
  MaxRequests,  \* bound: requests opened in all
  MaxTokens     \* bound: verification tokens of a user

Token == User \X (1..MaxTokens)
Role == {"instructor", "ta", "student"}

ASSUME RosterAssumption ==
  /\ Professor \subseteq User /\ Creator \in Professor
  /\ MaxRequests \in Nat /\ MaxTokens \in Nat \ {0}

VARIABLES
  roster,    \* course_memberships of the course
  archived,  \* archived_at is set
  link,      \* join_code_hash: how often the link was replaced
  invites,   \* course_enrollments: the invitation of an address, 0 if none
  mail,      \* email_jobs of the invitation that are queued, leased or retried
  account,   \* users: "none", "unverified" or "verified"
  tokens,    \* account_tokens to verify and join: "unissued", "live", "used"
  req,       \* the open request of a slot with its snapshot, or Idle
  opened,    \* requests opened so far, which also numbers the invitations
  joins,     \* history: how often a token was accepted
  cancelled  \* history: the tokens that were live when an invitation was cancelled

database == <<roster, archived, link, invites, mail, account, tokens>>
vars == <<database, req, opened, joins, cancelled>>

Absent == [role |-> "none", withdrawn |-> FALSE]
Idle == [op |-> "idle"]

Enrolled(members, u) == members[u] # Absent /\ ~members[u].withdrawn
Instructors(members) ==
  {u \in User : Enrolled(members, u) /\ members[u].role = "instructor"}

\* create_course: its creator is the only member.
Init ==
  /\ roster = [u \in User |-> IF u = Creator
                              THEN [role |-> "instructor", withdrawn |-> FALSE]
                              ELSE Absent]
  /\ archived = FALSE
  /\ link = 0
  /\ invites = [u \in User |-> 0]
  /\ mail = [u \in User |-> 0]
  /\ account \in [User -> {"none", "unverified", "verified"}]
  /\ \A u \in Professor : account[u] = "verified"
  /\ tokens = [t \in Token |-> "unissued"]
  /\ req = [r \in Request |-> Idle]
  /\ opened = 0
  /\ joins = [t \in Token |-> 0]
  /\ cancelled = {}

-----------------------------------------------------------------------------
(* The first plain reads of a request, which authorize it or answer 404.   *)

Snapshot == [roster |-> roster, invites |-> invites, mail |-> mail, account |-> account]

Open(r, request) ==
  /\ req[r] = Idle
  /\ opened < MaxRequests
  /\ opened' = opened + 1
  /\ req' = [req EXCEPT ![r] = [request |-> request, number |-> opened + 1,
                                snap |-> Snapshot]]
  /\ UNCHANGED <<database, joins, cancelled>>

\* require_instructor, then the operation the instructor asked for.
OpenByInstructor(r) ==
  /\ Instructors(roster) # {}
  /\ \/ \E u \in User, role \in Role :
          Open(r, [op |-> "role", user |-> u, role |-> role])
     \/ \E u \in User, op \in {"remove", "cancel"} : Open(r, [op |-> op, user |-> u])
     \/ \E rows \in SUBSET User \ {{}} : Open(r, [op |-> "import", rows |-> rows])
     \/ \E op \in {"archive", "relink"} : Open(r, [op |-> op])

\* _course_by_token: the link of the course is always known to somebody.
OpenByLink(r) ==
  \E u \in User, op \in {"signup", "login"} : Open(r, [op |-> op, user |-> u])

\* The first read of _usable_token.
OpenByToken(r) ==
  \E t \in Token : /\ tokens[t] # "unissued"
                   /\ Open(r, [op |-> "verify", user |-> t[1], token |-> t])

-----------------------------------------------------------------------------
(* The handlers, from the course lock to the commit.                       *)

\* Mutant: archived_at is not looked at.
AnyCourse == TRUE

\* require_active_course reads the course row under its lock.
ActiveCourse == ~archived

Holds(r, op) == req[r] # Idle /\ req[r].request.op = op
Asked(r) == req[r].request
Snap(r) == req[r].snap

Commit(r) ==
  /\ req' = [req EXCEPT ![r] = Idle]
  /\ UNCHANGED opened

\* Mutant: nobody is counted.
GuardNothing(members, u) == TRUE

\* _guard_last_instructor over the memberships the request sees.
GuardLastInstructor(members, u) ==
  members[u].role = "instructor" => Instructors(members) \ {u} # {}

\* update_member_role.  A role that equals the one read is not written.
ChangesRole(r, u, role) ==
  /\ Enrolled(Snap(r).roster, u)
  /\ role # "instructor" => GuardLastInstructor(Snap(r).roster, u)

UpdateMemberRole(r) ==
  /\ Holds(r, "role") /\ ActiveCourse
  /\ ChangesRole(r, Asked(r).user, Asked(r).role)
  /\ roster' = [roster EXCEPT ![Asked(r).user].role =
                  IF Snap(r).roster[Asked(r).user].role = Asked(r).role
                  THEN @ ELSE Asked(r).role]
  /\ Commit(r)
  /\ UNCHANGED <<archived, link, invites, mail, account, tokens, joins, cancelled>>

\* remove_member.  A member read as withdrawn is left alone.
Removes(r, u) ==
  /\ Snap(r).roster[u] # Absent
  /\ ~Snap(r).roster[u].withdrawn => GuardLastInstructor(Snap(r).roster, u)

RemoveMember(r) ==
  /\ Holds(r, "remove") /\ ActiveCourse
  /\ Removes(r, Asked(r).user)
  /\ roster' = [roster EXCEPT ![Asked(r).user].withdrawn =
                  @ \/ Enrolled(Snap(r).roster, Asked(r).user)]
  /\ Commit(r)
  /\ UNCHANGED <<archived, link, invites, mail, account, tokens, joins, cancelled>>

\* archive_course: an archived course is archived again without effect.
ArchiveCourse(r) ==
  /\ Holds(r, "archive")
  /\ archived' = TRUE
  /\ Commit(r)
  /\ UNCHANGED <<roster, link, invites, mail, account, tokens, joins, cancelled>>

RotateJoinLink(r) ==
  /\ Holds(r, "relink") /\ ActiveCourse
  /\ link' = link + 1
  /\ Commit(r)
  /\ UNCHANGED <<roster, archived, invites, mail, account, tokens, joins, cancelled>>

(* enroll_student: the membership and the invitation come from the snapshot. *)

\* The insertion of a member somebody else has inserted since is an error that
\* rolls the transaction back.
Conflict(r, u) == Snap(r).roster[u] = Absent /\ roster[u] # Absent

\* Mutant: whoever joins is made a student.
Demoted(r, u) == [role |-> "student", withdrawn |-> FALSE]

\* The membership after joining: a new one, or the old one reactivated when it
\* was read as withdrawn.
Joined(r, u) ==
  IF Snap(r).roster[u] = Absent THEN [role |-> "student", withdrawn |-> FALSE]
  ELSE [roster[u] EXCEPT !.withdrawn = @ /\ ~Snap(r).roster[u].withdrawn]

\* Mutant: the invitation is kept.
StillInvited(r, u) == invites[u]

\* The invitation after it was deleted by its id.
Uninvited(r, u) ==
  IF invites[u] = Snap(r).invites[u] THEN 0 ELSE invites[u]

\* The jobs of a deleted invitation have nothing left to say.
DropInvitations(next) ==
  /\ invites' = next
  /\ mail' = [u \in User |-> IF next[u] = 0 THEN 0 ELSE mail[u]]

Enroll(r, users) ==
  /\ \A u \in users : ~Conflict(r, u)
  /\ roster' = [u \in User |-> IF u \in users THEN Joined(r, u) ELSE roster[u]]

\* issue_account_token, which does nothing within the cooldown of another token.
Issued(u) ==
  {[tokens EXCEPT ![<<u, i>>] = "live"] : i \in
     {j \in 1..MaxTokens : /\ tokens[<<u, j>>] = "unissued"
                           /\ \A k \in 1..(j - 1) : tokens[<<u, k>>] # "unissued"}}
Cooldown(u) == \E i \in 1..MaxTokens : tokens[<<u, i>>] # "unissued"

\* join_signup: the account is created with its first token.
JoinSignup(r) ==
  /\ Holds(r, "signup") /\ ActiveCourse
  /\ Snap(r).account[Asked(r).user] = "none" /\ account[Asked(r).user] = "none"
  /\ account' = [account EXCEPT ![Asked(r).user] = "unverified"]
  /\ tokens' \in Issued(Asked(r).user)
  /\ Commit(r)
  /\ UNCHANGED <<roster, archived, link, invites, mail, joins, cancelled>>

\* join_login of an account that is not verified: the user row is locked.
JoinLoginUnverified(r) ==
  /\ Holds(r, "login") /\ ActiveCourse
  /\ account[Asked(r).user] = "unverified"
  /\ \/ tokens' \in Issued(Asked(r).user)
     \/ Cooldown(Asked(r).user) /\ UNCHANGED tokens
  /\ Commit(r)
  /\ UNCHANGED <<roster, archived, link, invites, mail, account, joins, cancelled>>

JoinLogin(r) ==
  /\ Holds(r, "login") /\ ActiveCourse
  /\ account[Asked(r).user] = "verified"
  /\ Enroll(r, {Asked(r).user})
  /\ DropInvitations([invites EXCEPT ![Asked(r).user] = Uninvited(r, Asked(r).user)])
  /\ Commit(r)
  /\ UNCHANGED <<archived, link, account, tokens, joins, cancelled>>

\* Mutant: the token is not read again under its lock.
ReadBefore(t) == tokens[t] # "unissued"

\* _usable_token locks the token after the course and the user.
Usable(t) == tokens[t] = "live"

VerifyEmail(r) ==
  /\ Holds(r, "verify") /\ ActiveCourse
  /\ Usable(Asked(r).token)
  /\ Enroll(r, {Asked(r).user})
  /\ account' = [account EXCEPT ![Asked(r).user] = "verified"]
  /\ tokens' = [tokens EXCEPT ![Asked(r).token] = "used"]
  /\ joins' = [joins EXCEPT ![Asked(r).token] = @ + 1]
  /\ DropInvitations([invites EXCEPT ![Asked(r).user] = Uninvited(r, Asked(r).user)])
  /\ Commit(r)
  /\ UNCHANGED <<archived, link, cancelled>>

-----------------------------------------------------------------------------
(* import_enrollments: the rows of a CSV in one transaction.               *)

Verified(r) == {u \in Asked(r).rows : Snap(r).account[u] = "verified"}

\* Accounts and memberships, as read, that make the whole import fail.
RowsValid(r) ==
  \A u \in Asked(r).rows :
    Snap(r).account[u] # "none" =>
      u \notin Professor /\ Snap(r).roster[u].role \in {"none", "student"}

\* Mutant: every import sends another e-mail.
AlwaysQueue(r, u) == TRUE

\* _queue_pending reads the invitation under a lock, and the jobs of the one it
\* finds from the snapshot.
NothingQueued(r, u) ==
  \/ invites[u] = 0
  \/ Snap(r).invites[u] # invites[u]
  \/ Snap(r).mail[u] = 0

\* Verified students are enrolled, the others are invited unless they are.
ImportEnrollments(r) ==
  /\ Holds(r, "import") /\ ActiveCourse
  /\ RowsValid(r)
  /\ Enroll(r, Verified(r))
  /\ invites' = [u \in User |->
       IF u \in Verified(r) THEN Uninvited(r, u)
       ELSE IF u \in Asked(r).rows /\ invites[u] = 0 THEN req[r].number
       ELSE invites[u]]
  /\ mail' = [u \in User |->
       IF invites'[u] = 0 THEN 0
       ELSE IF u \in Asked(r).rows \ Verified(r) /\ NothingQueued(r, u) THEN mail[u] + 1
       ELSE mail[u]]
  /\ Commit(r)
  /\ UNCHANGED <<archived, link, account, tokens, joins, cancelled>>

\* Mutant: the tokens of the address stay usable.
TokensKept(u) == {}

\* The tokens cancelling an invitation marks as used.
LiveTokens(u) == {t \in Token : t[1] = u /\ tokens[t] = "live"}

CancelPendingEnrollment(r) ==
  /\ Holds(r, "cancel") /\ ActiveCourse
  /\ Snap(r).invites[Asked(r).user] # 0
  /\ tokens' = [t \in Token |->
       IF t \in LiveTokens(Asked(r).user) THEN "used" ELSE tokens[t]]
  /\ cancelled' = cancelled \cup
       {t \in Token : t[1] = Asked(r).user /\ tokens[t] = "live"}
  /\ DropInvitations([invites EXCEPT ![Asked(r).user] = Uninvited(r, Asked(r).user)])
  /\ Commit(r)
  /\ UNCHANGED <<roster, archived, link, account, joins>>

-----------------------------------------------------------------------------
(* 4xx answers, and errors of the database that roll back.                 *)

Accepts(r) ==
  LET op == Asked(r).op
  IN  \/ op = "archive"
      \/ /\ ActiveCourse
         /\ \/ op = "relink"
            \/ op = "role" /\ ChangesRole(r, Asked(r).user, Asked(r).role)
            \/ op = "remove" /\ Removes(r, Asked(r).user)
            \/ op = "cancel" /\ Snap(r).invites[Asked(r).user] # 0
            \/ /\ op = "import" /\ RowsValid(r)
               /\ \A u \in Verified(r) : ~Conflict(r, u)
            \/ /\ op = "signup"
               /\ Snap(r).account[Asked(r).user] = "none"
               /\ account[Asked(r).user] = "none"
            \/ op = "login" /\ account[Asked(r).user] = "unverified"
            \/ /\ op = "login" /\ account[Asked(r).user] = "verified"
               /\ ~Conflict(r, Asked(r).user)

\* A verification may always fail: its token expires.
Refuse(r) ==
  /\ req[r] # Idle
  /\ ~Accepts(r)
  /\ Commit(r)
  /\ UNCHANGED <<database, joins, cancelled>>

Handle(r) ==
  \/ UpdateMemberRole(r) \/ RemoveMember(r) \/ ArchiveCourse(r)
  \/ RotateJoinLink(r) \/ ImportEnrollments(r) \/ CancelPendingEnrollment(r)
  \/ JoinSignup(r) \/ JoinLoginUnverified(r) \/ JoinLogin(r) \/ VerifyEmail(r)
  \/ Refuse(r)

\* A worker has sent an invitation, or given up (EmailJobs).
MailSettles(u) ==
  /\ mail[u] > 0
  /\ mail' = [mail EXCEPT ![u] = @ - 1]
  /\ UNCHANGED <<roster, archived, link, invites, account, tokens, req, opened, joins, cancelled>>

Next ==
  \/ \E r \in Request :
       OpenByInstructor(r) \/ OpenByLink(r) \/ OpenByToken(r) \/ Handle(r)
  \/ \E u \in User : MailSettles(u)

Spec == Init /\ [][Next]_vars

-----------------------------------------------------------------------------
(* Properties.                                                             *)

Member == [role : Role, withdrawn : BOOLEAN]

TypeOK ==
  /\ roster \in [User -> Member \cup {Absent}]
  /\ archived \in BOOLEAN
  /\ invites \in [User -> Nat] /\ mail \in [User -> Nat]
  /\ account \in [User -> {"none", "unverified", "verified"}]
  /\ tokens \in [Token -> {"unissued", "live", "used"}]
  /\ DOMAIN req = Request /\ opened \in Nat
  /\ joins \in [Token -> Nat] /\ cancelled \subseteq Token

\* An archived course is read-only for good: a request that found it active
\* before it took the course lock changes no member, link or invitation.
ArchivedFrozen == [][archived => UNCHANGED <<roster, archived, link, invites>>]_vars

\* An operation on u counted an instructor who is none any more, or did not see
\* that u had become one.
Miscounted(r, u) ==
  \/ \E v \in User \ {u} : v \in Instructors(Snap(r).roster) /\ v \notin Instructors(roster)
  \/ roster[u].role = "instructor" /\ Snap(r).roster[u].role # "instructor"

\* A course loses its last instructor only in a removal or demotion whose count
\* of the instructors was overtaken by another commit: requests that do not
\* overlap leave one.
OrphanedByOverlap ==
  [][Instructors(roster) # {} /\ Instructors(roster') = {} =>
       \E r \in Request : /\ Holds(r, "role") \/ Holds(r, "remove")
                          /\ req'[r] = Idle
                          /\ Miscounted(r, Asked(r).user)]_vars

\* Nobody on the roster has an open invitation: whoever joins, by link, token or
\* import, uses it up.  The only exceptions are a student who joined on a read
\* that showed another invitation or none, and one the import read as unverified
\* who has been verified, and enrolled, since.
Imports(r, u) == Holds(r, "import") /\ u \in Asked(r).rows
Joins(r, u) == (Holds(r, "login") \/ Holds(r, "verify")) /\ u = Asked(r).user
InvitedTwice(u) == Enrolled(roster, u) /\ invites[u] # 0
InvitationUsedUp ==
  [][\A u \in User : ~InvitedTwice(u) /\ InvitedTwice(u)' =>
       \E r \in Request :
         /\ req'[r] = Idle
         /\ \/ (Joins(r, u) \/ Imports(r, u)) /\ Snap(r).invites[u] # invites[u]
            \/ Imports(r, u) /\ Snap(r).account[u] # account[u]]_vars

\* An address whose invitation is still queued or retried gets a second e-mail
\* only from an import that had read another invitation, or the open one before
\* its e-mail was queued.
OneInvitationMail ==
  [][\A u \in User : mail[u] > 0 /\ mail'[u] > mail[u] =>
       \E r \in Request :
         /\ Imports(r, u) /\ req'[r] = Idle
         /\ Snap(r).invites[u] # invites[u] \/ Snap(r).mail[u] = 0]_vars

\* Joining brings a member back without changing the role: only the operation
\* on roles changes that of a member, removed or not.
JoinKeepsRole ==
  [][\A u \in User : roster[u] # Absent /\ roster'[u].role # roster[u].role =>
       \E r \in Request : Holds(r, "role") /\ req'[r] = Idle]_vars

\* A verification token is accepted once, and not after the invitation was
\* cancelled, whoever else had read it before.
TokenJoinsOnce ==
  \A t \in Token : joins[t] <= 1 /\ (t \in cancelled => joins[t] = 0)
=============================================================================
