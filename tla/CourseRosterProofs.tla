------------------------- MODULE CourseRosterProofs -------------------------
(***************************************************************************)
(* Proofs about CourseRoster for any set of people, professors, requests   *)
(* and tokens, and any number of requests that overlap.                    *)
(*                                                                         *)
(* A token that was not used up has let nobody in.  What a request does on *)
(* an up-to-date snapshot is what it would do if it ran alone; for that    *)
(* case the invariant says that members have verified accounts, and that   *)
(* e-mails are only queued for invitations that are open.                  *)
(***************************************************************************)
EXTENDS CourseRoster, TLAPS

USE RosterAssumption

\* A token is accepted or cancelled when it is used up.
TokenHistory ==
  \A t \in Token :
    /\ joins[t] <= 1 /\ (t \in cancelled => joins[t] = 0)
    /\ tokens[t] # "used" => joins[t] = 0 /\ t \notin cancelled

\* Members have verified accounts.
MembersVerified == \A u \in User : roster[u] # Absent => account[u] = "verified"

MailIsInvited == \A u \in User : mail[u] > 0 => invites[u] # 0

\* What a request has read stays true: accounts are verified, and memberships
\* there, for good.
RequestInv(r) ==
  req[r] # Idle =>
    /\ req[r].number \in Nat \ {0}
    /\ req[r].request.op = "role" => req[r].request.role \in Role
    /\ \A u \in User : req[r].snap.account[u] = "verified" => account[u] = "verified"
    /\ \A u \in User : req[r].snap.roster[u] # Absent => roster[u] # Absent

RosterInv ==
  /\ TypeOK
  /\ TokenHistory
  /\ MembersVerified
  /\ MailIsInvited
  /\ \A r \in Request : RequestInv(r)

-----------------------------------------------------------------------------
LEMMA InitRosterInv == Init => RosterInv
<1> SUFFICES ASSUME Init PROVE RosterInv
  OBVIOUS
<1>1. roster \in [User -> Member \cup {Absent}]
  BY DEF Init, Member, Role
<1>2. TypeOK
  BY <1>1 DEF Init, TypeOK
<1> QED
  BY <1>2 DEF Init, RosterInv, TokenHistory, MembersVerified, MailIsInvited, RequestInv, Absent,
    RosterAssumption

\* The slots of the other requests are left alone.
LEMMA CommitKeeps ==
  ASSUME RosterInv, NEW r \in Request, Commit(r),
         \A u \in User : account[u] = "verified" => account'[u] = "verified",
         \A u \in User : roster[u] # Absent => roster'[u] # Absent
  PROVE  DOMAIN req' = Request /\ opened' \in Nat /\ req'[r] = Idle
         /\ \A q \in Request : RequestInv(q)'
<1>1. req' = [req EXCEPT ![r] = Idle] /\ opened' = opened
  BY DEF Commit
<1>2. DOMAIN req' = Request /\ req'[r] = Idle /\ \A q \in Request \ {r} : req'[q] = req[q]
  BY <1>1 DEF RosterInv, TypeOK
<1>3. ASSUME NEW q \in Request PROVE RequestInv(q)'
  BY <1>2 DEF RosterInv, RequestInv
<1> QED
  BY <1>1, <1>2, <1>3 DEF RosterInv, TypeOK

LEMMA OpenInv ==
  ASSUME RosterInv, NEW r \in Request, NEW request, Open(r, request),
         request.op = "role" => request.role \in Role
  PROVE  RosterInv'
<1>1. UNCHANGED <<roster, archived, invites, mail, account, tokens, joins, cancelled>>
  BY DEF Open, database
<1>2. DOMAIN req' = Request /\ opened' \in Nat
  BY DEF Open, RosterInv, TypeOK
<1>3. ASSUME NEW q \in Request PROVE RequestInv(q)'
  <2>1. CASE q = r
    <3> DEFINE entry == [request |-> request, number |-> opened + 1, snap |-> Snapshot]
    <3>1. req'[q] = entry
      BY <2>1 DEF Open, RosterInv, TypeOK
    <3>2. entry.number \in Nat \ {0} /\ entry.request = request /\ entry.snap = Snapshot
      BY DEF RosterInv, TypeOK
    <3>3. entry.snap.roster = roster /\ entry.snap.account = account
      BY <3>2 DEF Snapshot
    <3> QED
      BY <1>1, <3>1, <3>2, <3>3 DEF RequestInv, RosterInv, MembersVerified
  <2>2. CASE q # r
    BY <1>1, <2>2 DEF Open, RosterInv, TypeOK, RequestInv
  <2> QED
    BY <2>1, <2>2
<1> QED
  BY <1>1, <1>2, <1>3 DEF RosterInv, TypeOK, TokenHistory, MembersVerified, MailIsInvited

\* Who opens a request.
LEMMA OpensInv ==
  ASSUME RosterInv, NEW r \in Request,
         OpenByInstructor(r) \/ OpenByLink(r) \/ OpenByToken(r)
  PROVE  RosterInv'
BY OpenInv DEF OpenByInstructor, OpenByLink, OpenByToken

-----------------------------------------------------------------------------
(* What the handlers write.                                                *)

\* The invitations a handler leaves have their e-mails, the others none.
LEMMA DropKeeps ==
  ASSUME RosterInv, NEW next \in [User -> Nat], DropInvitations(next)
  PROVE  invites' \in [User -> Nat] /\ mail' \in [User -> Nat] /\ MailIsInvited'
BY DEF DropInvitations, RosterInv, TypeOK, MailIsInvited

LEMMA UninvitedType ==
  ASSUME RosterInv, NEW r, NEW u \in User
  PROVE  [invites EXCEPT ![u] = Uninvited(r, u)] \in [User -> Nat]
         /\ Uninvited(r, u) \in Nat
BY DEF RosterInv, TypeOK, Uninvited

LEMMA MemberRows ==
  ASSUME NEW row \in Member
  PROVE  /\ row # Absent
         /\ \A role \in Role : /\ [row EXCEPT !.role = role] \in Member
                              /\ [row EXCEPT !.role = role].role = role
                              /\ [row EXCEPT !.role = role].withdrawn = row.withdrawn
         /\ \A b \in BOOLEAN : /\ [row EXCEPT !.withdrawn = b] \in Member
                               /\ [row EXCEPT !.withdrawn = b].role = row.role
                               /\ [row EXCEPT !.withdrawn = b].withdrawn = b
BY DEF Member, Role, Absent

LEMMA RosterRow ==
  ASSUME RosterInv, NEW u \in User
  PROVE  roster[u] = Absent \/ roster[u] \in Member
BY DEF RosterInv, TypeOK

\* What the snapshot shows of the member an instructor names is there.
LEMMA NamedMember ==
  ASSUME RosterInv, NEW r \in Request, NEW u \in User, req[r] # Idle, Snap(r).roster[u] # Absent
  PROVE  roster[u] \in Member
BY RosterRow DEF RosterInv, RequestInv, Snap

\* Joining keeps the role of a member and makes nobody a member whose account is
\* not verified.
LEMMA JoinedRow ==
  ASSUME RosterInv, NEW r \in Request, NEW u \in User, req[r] # Idle, ~Conflict(r, u)
  PROVE  /\ Joined(r, u) \in Member \cup {Absent}
         /\ roster[u] # Absent => /\ Joined(r, u) # Absent
                                  /\ Joined(r, u).role = roster[u].role
                                  /\ ~roster[u].withdrawn => ~Joined(r, u).withdrawn
<1>1. CASE Snap(r).roster[u] = Absent
  BY <1>1 DEF Conflict, Joined, Member, Role
<1>2. CASE Snap(r).roster[u] # Absent
  <2> DEFINE gone == roster[u].withdrawn /\ ~Snap(r).roster[u].withdrawn
  <2>1. gone \in BOOLEAN
    BY Zenon
  <2>2. Joined(r, u) = [roster[u] EXCEPT !.withdrawn = gone]
    BY <1>2 DEF Joined
  <2>3. gone => roster[u].withdrawn
    OBVIOUS
  <2>4. roster[u] \in Member
    BY <1>2, NamedMember
  <2> HIDE DEF gone
  <2> QED
    BY <2>1, <2>2, <2>3, <2>4, MemberRows
<1> QED
  BY <1>1, <1>2

\* Enroll writes the roster of members with verified accounts.
LEMMA EnrollKeeps ==
  ASSUME RosterInv, NEW r \in Request, NEW users, req[r] # Idle, Enroll(r, users),
         account' \in [User -> {"none", "unverified", "verified"}],
         \A u \in User : account[u] = "verified" => account'[u] = "verified",
         \A u \in User \cap users : account'[u] = "verified"
  PROVE  /\ roster' \in [User -> Member \cup {Absent}]
         /\ MembersVerified'
         /\ \A u \in User : roster[u] # Absent =>
              /\ roster'[u] # Absent
              /\ roster'[u].role = roster[u].role
              /\ Enrolled(roster, u) => Enrolled(roster', u)
<1>1. roster' = [u \in User |-> IF u \in users THEN Joined(r, u) ELSE roster[u]]
      /\ \A u \in User \cap users : ~Conflict(r, u)
  BY DEF Enroll
<1>2. ASSUME NEW u \in User
      PROVE  /\ roster'[u] \in Member \cup {Absent}
             /\ roster'[u] # Absent => account'[u] = "verified"
             /\ roster[u] # Absent =>
                  /\ roster'[u] # Absent
                  /\ roster'[u].role = roster[u].role
                  /\ Enrolled(roster, u) => Enrolled(roster', u)
  BY <1>1, JoinedRow DEF RosterInv, TypeOK, MembersVerified, Enrolled
<1> QED
  BY <1>1, <1>2 DEF MembersVerified

-----------------------------------------------------------------------------
LEMMA UpdateMemberRoleInv ==
  ASSUME RosterInv, NEW r \in Request, UpdateMemberRole(r)
  PROVE  RosterInv'
<1> DEFINE u == Asked(r).user
<1>1. UNCHANGED <<archived, invites, mail, account, tokens, joins, cancelled>> /\ Commit(r)
  BY DEF UpdateMemberRole
<1>2. Asked(r).role \in Role /\ (u \in User => roster[u] \in Member)
  BY NamedMember
     DEF UpdateMemberRole, Holds, Asked, RosterInv, RequestInv, ChangesRole, Enrolled
<1>3. ASSUME u \in User
      PROVE  \E role \in Role : roster' = [roster EXCEPT ![u] = [roster[u] EXCEPT !.role = role]]
  <2>1. roster[u].role \in Role
    BY <1>2, <1>3 DEF Member
  <2> QED
    BY <1>2, <1>3, <2>1 DEF UpdateMemberRole
<1>4. u \notin User => roster' = roster
  BY DEF UpdateMemberRole, RosterInv, TypeOK
<1>5. /\ roster' \in [User -> Member \cup {Absent}]
      /\ \A v \in User : (roster'[v] # Absent) = (roster[v] # Absent)
  <2>1. roster \in [User -> Member \cup {Absent}] /\ DOMAIN roster' = User
    BY <1>3, <1>4 DEF RosterInv, TypeOK
  <2>2. ASSUME NEW v \in User
        PROVE  roster'[v] = roster[v] \/ (v = u /\ roster'[v] \in Member)
    <3>1. CASE u \in User
      <4>1. PICK role \in Role : roster' = [roster EXCEPT ![u] = [roster[u] EXCEPT !.role = role]]
        BY <1>3, <3>1
      <4>2. [roster[u] EXCEPT !.role = role] \in Member
        BY <1>2, <3>1, MemberRows
      <4> QED
        BY <2>1, <4>1, <4>2
    <3> QED
      BY <1>4, <3>1
  <2>3. \A row \in Member : row # Absent
    BY MemberRows
  <2>4. \A v \in User : roster'[v] \in Member \cup {Absent}
    BY <2>1, <2>2
  <2>5. roster' \in [User -> Member \cup {Absent}]
    BY <1>3, <1>4, <2>1, <2>4 DEF RosterInv, TypeOK
  <2> QED
    BY <1>2, <2>2, <2>3, <2>5
<1> QED
  BY <1>1, <1>5, CommitKeeps DEF RosterInv, TypeOK, TokenHistory, MailIsInvited, MembersVerified

LEMMA RemoveMemberInv ==
  ASSUME RosterInv, NEW r \in Request, RemoveMember(r)
  PROVE  RosterInv'
<1> DEFINE u == Asked(r).user
           gone == roster[u].withdrawn \/ Enrolled(Snap(r).roster, u)
<1>1. UNCHANGED <<archived, invites, mail, account, tokens, joins, cancelled>> /\ Commit(r)
  BY DEF RemoveMember
<1>2. u \in User => roster[u] \in Member
  BY NamedMember DEF RemoveMember, Holds, Removes
<1>3. roster' = [roster EXCEPT ![u] = [roster[u] EXCEPT !.withdrawn = gone]]
  BY DEF RemoveMember
<1>4. gone \in BOOLEAN
  BY Zenon
<1> HIDE DEF gone
<1>5. /\ roster' \in [User -> Member \cup {Absent}]
      /\ \A v \in User : (roster'[v] # Absent) = (roster[v] # Absent)
  <2>1. roster \in [User -> Member \cup {Absent}] /\ DOMAIN roster' = User
    BY <1>3 DEF RosterInv, TypeOK
  <2>2. ASSUME NEW v \in User
        PROVE  roster'[v] = roster[v] \/ (v = u /\ roster'[v] \in Member)
    BY <1>2, <1>3, <1>4, <2>1, MemberRows
  <2>3. \A row \in Member : row # Absent
    BY MemberRows
  <2>4. \A v \in User : roster'[v] \in Member \cup {Absent}
    BY <2>1, <2>2
  <2>5. roster' \in [User -> Member \cup {Absent}]
    BY <1>3, <2>1, <2>4 DEF RosterInv, TypeOK
  <2> QED
    BY <1>2, <2>2, <2>3, <2>5
<1> QED
  BY <1>1, <1>5, CommitKeeps DEF RosterInv, TypeOK, TokenHistory, MailIsInvited, MembersVerified

LEMMA CourseInv ==
  ASSUME RosterInv, NEW r \in Request, ArchiveCourse(r) \/ RotateJoinLink(r) \/ Refuse(r)
  PROVE  RosterInv'
<1>1. UNCHANGED <<roster, invites, mail, account, tokens, joins, cancelled>> /\ Commit(r)
      /\ archived' \in BOOLEAN
  BY DEF ArchiveCourse, RotateJoinLink, Refuse, database, RosterInv, TypeOK
<1> QED
  BY <1>1, CommitKeeps DEF RosterInv, TypeOK, TokenHistory, MailIsInvited, MembersVerified

-----------------------------------------------------------------------------
(* Requests of students, and the import.                                   *)

LEMMA IssuedTokens ==
  ASSUME RosterInv, NEW u, tokens' \in Issued(u), UNCHANGED <<joins, cancelled>>
  PROVE  tokens' \in [Token -> {"unissued", "live", "used"}] /\ TokenHistory'
<1>1. PICK i \in 1..MaxTokens : /\ tokens[<<u, i>>] = "unissued"
                               /\ tokens' = [tokens EXCEPT ![<<u, i>>] = "live"]
  BY DEF Issued
<1>2. ASSUME NEW t \in Token
      PROVE  tokens'[t] = tokens[t] \/ (tokens[t] = "unissued" /\ tokens'[t] = "live")
  BY <1>1 DEF RosterInv, TypeOK
<1> QED
  BY <1>1, <1>2 DEF RosterInv, TypeOK, TokenHistory

LEMMA JoinUnverifiedInv ==
  ASSUME RosterInv, NEW r \in Request, JoinSignup(r) \/ JoinLoginUnverified(r)
  PROVE  RosterInv'
<1>1. UNCHANGED <<roster, archived, invites, mail, joins, cancelled>> /\ Commit(r)
  BY DEF JoinSignup, JoinLoginUnverified
<1>2. tokens' \in [Token -> {"unissued", "live", "used"}] /\ TokenHistory'
  BY <1>1, IssuedTokens DEF JoinSignup, JoinLoginUnverified, RosterInv, TypeOK, TokenHistory
<1>3. /\ account' \in [User -> {"none", "unverified", "verified"}]
      /\ \A u \in User : account[u] = "verified" => account'[u] = "verified"
  BY DEF JoinSignup, JoinLoginUnverified, RosterInv, TypeOK
<1> QED
  BY <1>1, <1>2, <1>3, CommitKeeps DEF RosterInv, TypeOK, MailIsInvited, MembersVerified

LEMMA JoinLoginInv ==
  ASSUME RosterInv, NEW r \in Request, JoinLogin(r)
  PROVE  RosterInv'
<1> DEFINE u == Asked(r).user
           next == [invites EXCEPT ![u] = Uninvited(r, u)]
<1>1. /\ UNCHANGED <<archived, account, tokens, joins, cancelled>> /\ Commit(r)
      /\ req[r] # Idle /\ Enroll(r, {u}) /\ DropInvitations(next) /\ account[u] = "verified"
  BY DEF JoinLogin, Holds
<1>2. next \in [User -> Nat]
  BY UninvitedType DEF RosterInv, TypeOK
<1>3. invites' \in [User -> Nat] /\ mail' \in [User -> Nat] /\ MailIsInvited'
  BY <1>1, <1>2, DropKeeps
<1>4. /\ roster' \in [User -> Member \cup {Absent}] /\ MembersVerified'
      /\ \A v \in User : roster[v] # Absent => roster'[v] # Absent
  BY <1>1, EnrollKeeps DEF RosterInv, TypeOK
<1> QED
  BY <1>1, <1>3, <1>4, CommitKeeps DEF RosterInv, TypeOK, TokenHistory

\* The token was live, so it has let nobody in and was not cancelled.
LEMMA VerifyEmailInv ==
  ASSUME RosterInv, NEW r \in Request, VerifyEmail(r)
  PROVE  RosterInv'
<1> DEFINE u == Asked(r).user
           token == Asked(r).token
           next == [invites EXCEPT ![u] = Uninvited(r, u)]
<1>1. /\ UNCHANGED <<archived, cancelled>> /\ Commit(r)
      /\ req[r] # Idle /\ Enroll(r, {u}) /\ DropInvitations(next)
      /\ account' = [account EXCEPT ![u] = "verified"]
      /\ tokens[token] = "live"
      /\ tokens' = [tokens EXCEPT ![token] = "used"]
      /\ joins' = [joins EXCEPT ![token] = @ + 1]
  BY DEF VerifyEmail, Holds, Usable
<1>2. next \in [User -> Nat]
  BY UninvitedType DEF RosterInv, TypeOK
<1>3. invites' \in [User -> Nat] /\ mail' \in [User -> Nat] /\ MailIsInvited'
  BY <1>1, <1>2, DropKeeps
<1>4. /\ account' \in [User -> {"none", "unverified", "verified"}]
      /\ \A v \in User : account[v] = "verified" => account'[v] = "verified"
      /\ \A v \in User \cap {u} : account'[v] = "verified"
  BY <1>1 DEF RosterInv, TypeOK
<1>5. /\ roster' \in [User -> Member \cup {Absent}] /\ MembersVerified'
      /\ \A v \in User : roster[v] # Absent => roster'[v] # Absent
  BY <1>1, <1>4, EnrollKeeps
<1>6. /\ tokens' \in [Token -> {"unissued", "live", "used"}] /\ joins' \in [Token -> Nat]
      /\ TokenHistory'
  <2> HIDE DEF token
  <2>1. tokens' \in [Token -> {"unissued", "live", "used"}] /\ joins' \in [Token -> Nat]
    <3>1. tokens \in [Token -> {"unissued", "live", "used"}] /\ joins \in [Token -> Nat]
      BY DEF RosterInv, TypeOK
    <3>2. token \in Token => joins[token] + 1 \in Nat
      BY <3>1
    <3>3. joins' \in [Token -> Nat]
      BY <1>1, <3>1, <3>2
    <3> QED
      BY <1>1, <3>1, <3>3
  <2>2. ASSUME NEW t \in Token
        PROVE  /\ joins'[t] <= 1 /\ (t \in cancelled => joins'[t] = 0)
               /\ tokens'[t] # "used" => joins'[t] = 0 /\ t \notin cancelled
    <3>1. CASE t = token
      <4>1. joins[t] = 0 /\ t \notin cancelled
        BY <1>1, <3>1 DEF RosterInv, TokenHistory
      <4> QED
        BY <1>1, <3>1, <4>1 DEF RosterInv, TypeOK
    <3>2. CASE t # token
      BY <1>1, <3>2 DEF RosterInv, TypeOK, TokenHistory
    <3> QED
      BY <3>1, <3>2
  <2> QED
    BY <1>1, <2>1, <2>2 DEF TokenHistory
<1> QED
  BY <1>1, <1>3, <1>4, <1>5, <1>6, CommitKeeps DEF RosterInv, TypeOK

LEMMA ImportInv ==
  ASSUME RosterInv, NEW r \in Request, ImportEnrollments(r)
  PROVE  RosterInv'
<1>1. /\ UNCHANGED <<archived, account, tokens, joins, cancelled>> /\ Commit(r)
      /\ req[r] # Idle /\ Enroll(r, Verified(r))
  BY DEF ImportEnrollments, Holds
<1>2. \A u \in User \cap Verified(r) : account[u] = "verified"
  BY <1>1 DEF Verified, Snap, RosterInv, RequestInv
<1>3. /\ roster' \in [User -> Member \cup {Absent}] /\ MembersVerified'
      /\ \A v \in User : roster[v] # Absent => roster'[v] # Absent
  BY <1>1, <1>2, EnrollKeeps DEF RosterInv, TypeOK
<1>4. req[r].number \in Nat
  BY <1>1 DEF RosterInv, RequestInv
<1>5. invites' \in [User -> Nat]
  BY <1>4, UninvitedType DEF ImportEnrollments, RosterInv, TypeOK
<1>6. mail' \in [User -> Nat] /\ MailIsInvited'
  BY <1>5 DEF ImportEnrollments, RosterInv, TypeOK, MailIsInvited
<1> QED
  BY <1>1, <1>3, <1>5, <1>6, CommitKeeps DEF RosterInv, TypeOK, TokenHistory

\* The tokens that are cancelled were live, so they have let nobody in.
LEMMA CancelInv ==
  ASSUME RosterInv, NEW r \in Request, CancelPendingEnrollment(r)
  PROVE  RosterInv'
<1> DEFINE u == Asked(r).user
           next == [invites EXCEPT ![u] = Uninvited(r, u)]
<1>1. /\ UNCHANGED <<roster, archived, account, joins>> /\ Commit(r) /\ DropInvitations(next)
      /\ tokens' = [t \in Token |-> IF t \in LiveTokens(u) THEN "used" ELSE tokens[t]]
      /\ cancelled' = cancelled \cup {t \in Token : t[1] = u /\ tokens[t] = "live"}
  BY DEF CancelPendingEnrollment
<1>2. next \in [User -> Nat]
  BY UninvitedType DEF RosterInv, TypeOK
<1>3. invites' \in [User -> Nat] /\ mail' \in [User -> Nat] /\ MailIsInvited'
  BY <1>1, <1>2, DropKeeps
<1>4. /\ tokens' \in [Token -> {"unissued", "live", "used"}] /\ cancelled' \subseteq Token
      /\ TokenHistory'
  BY <1>1 DEF LiveTokens, RosterInv, TypeOK, TokenHistory
<1> QED
  BY <1>1, <1>3, <1>4, CommitKeeps DEF RosterInv, TypeOK, MembersVerified

LEMMA MailSettlesInv ==
  ASSUME RosterInv, NEW u \in User, MailSettles(u)
  PROVE  RosterInv'
BY DEF MailSettles, RosterInv, TypeOK, TokenHistory, MembersVerified, MailIsInvited, RequestInv

-----------------------------------------------------------------------------
\* The invariant holds of every reachable state.
THEOREM Invariance == Spec => []RosterInv
<1>1. RosterInv /\ [Next]_vars => RosterInv'
  <2> SUFFICES ASSUME RosterInv, [Next]_vars PROVE RosterInv'
    OBVIOUS
  <2>1. ASSUME NEW r \in Request, Handle(r) PROVE RosterInv'
    BY <2>1, UpdateMemberRoleInv, RemoveMemberInv, CourseInv, ImportInv, CancelInv,
       JoinUnverifiedInv, JoinLoginInv, VerifyEmailInv DEF Handle
  <2>2. CASE UNCHANGED vars
    BY <2>2 DEF vars, database, RosterInv, TypeOK, TokenHistory, MembersVerified, MailIsInvited,
       RequestInv
  <2> QED
    BY <2>1, <2>2, OpensInv, MailSettlesInv DEF Next
<1> QED
  BY <1>1, InitRosterInv, PTL DEF Spec

\* TokenJoinsOnce: _usable_token locks the token, so that a link in an e-mail is
\* accepted once, and never after its invitation was cancelled.
THEOREM TokensJoinOnce == Spec => []TokenJoinsOnce
<1>1. RosterInv => TokenJoinsOnce
  BY DEF RosterInv, TokenHistory, TokenJoinsOnce
<1> QED
  BY <1>1, Invariance, PTL

\* ArchivedFrozen: require_active_course reads archived_at under the course lock,
\* so no request that was authorized before writes to an archived course.
THEOREM StaysArchived == Spec => ArchivedFrozen
<1> DEFINE Frozen == archived => UNCHANGED <<roster, archived, link, invites>>
<1>1. ASSUME RosterInv, archived, NEW r \in Request,
             OpenByInstructor(r) \/ OpenByLink(r) \/ OpenByToken(r) \/ Handle(r)
      PROVE  UNCHANGED <<roster, archived, link, invites>>
  <2>1. ASSUME NEW request, Open(r, request) PROVE UNCHANGED <<roster, archived, link, invites>>
    BY <2>1 DEF Open, database
  <2>2. CASE OpenByInstructor(r) \/ OpenByLink(r) \/ OpenByToken(r)
    BY <2>1, <2>2 DEF OpenByInstructor, OpenByLink, OpenByToken
  <2>3. CASE ArchiveCourse(r) \/ Refuse(r)
    BY <1>1, <2>3 DEF ArchiveCourse, Refuse, database, RosterInv, TypeOK
  <2>4. CASE Handle(r) /\ ~ArchiveCourse(r) /\ ~Refuse(r)
    BY <1>1, <2>4 DEF Handle, UpdateMemberRole, RemoveMember, RotateJoinLink, ImportEnrollments,
       CancelPendingEnrollment, JoinSignup, JoinLoginUnverified, JoinLogin, VerifyEmail,
       ActiveCourse
  <2> QED
    BY <1>1, <2>2, <2>3, <2>4
<1>2. RosterInv /\ [Next]_vars => [Frozen]_vars
  BY <1>1 DEF Next, MailSettles, vars
<1> QED
  BY <1>2, Invariance, PTL DEF Spec, ArchivedFrozen

-----------------------------------------------------------------------------
(* What a request that had read the present could not have done.           *)

\* A request that is answered leaves its slot.
LEMMA Answered ==
  ASSUME RosterInv, NEW r \in Request, Commit(r)
  PROVE  req'[r] = Idle
BY DEF Commit, RosterInv, TypeOK

\* Only handlers and the mail change anything but the slots.
LEMMA HandlersOnly ==
  ASSUME [Next]_vars, ~ \E r \in Request : Handle(r)
  PROVE  UNCHANGED <<roster, invites>> /\ (UNCHANGED mail \/ \E u \in User : MailSettles(u))
<1>1. ASSUME NEW r \in Request, OpenByInstructor(r) \/ OpenByLink(r) \/ OpenByToken(r)
      PROVE  UNCHANGED database
  <2>1. ASSUME NEW request, Open(r, request) PROVE UNCHANGED database
    BY <2>1 DEF Open
  <2> QED
    BY <1>1, <2>1 DEF OpenByInstructor, OpenByLink, OpenByToken
<1> QED
  BY <1>1 DEF Next, MailSettles, vars, database

\* OneInvitationMail: _queue_pending queues another e-mail while one is open only
\* in an import that read the invitation or its jobs before they were written.
THEOREM OneMail == Spec => OneInvitationMail
<1> DEFINE Overtaken(r, u) == /\ Imports(r, u) /\ req'[r] = Idle
                              /\ Snap(r).invites[u] # invites[u] \/ Snap(r).mail[u] = 0
           Again == \A u \in User : mail[u] > 0 /\ mail'[u] > mail[u] =>
                      \E r \in Request : Overtaken(r, u)
<1>1. ASSUME RosterInv, [Next]_vars, NEW u \in User, mail[u] > 0,
             \A r \in Request : ~Overtaken(r, u)
      PROVE  ~(mail'[u] > mail[u])
  <2>0. mail \in [User -> Nat] /\ invites[u] # 0
    BY <1>1 DEF RosterInv, TypeOK, MailIsInvited
  <2>1. CASE \E r \in Request : ImportEnrollments(r)
    <3>1. PICK r \in Request : ImportEnrollments(r)
      BY <2>1
    <3>2. req'[r] = Idle /\ Holds(r, "import")
      BY <1>1, <3>1, Answered DEF ImportEnrollments
    <3>3. u \in Asked(r).rows => ~NothingQueued(r, u)
      BY <1>1, <2>0, <3>2 DEF NothingQueued, Imports
    <3> QED
      BY <1>1, <2>0, <3>1, <3>3 DEF ImportEnrollments
  <2>2. ASSUME NEW next, DropInvitations(next) PROVE ~(mail'[u] > mail[u])
    BY <1>1, <2>0, <2>2 DEF DropInvitations
  <2>3. CASE \E v \in User : MailSettles(v)
    BY <1>1, <2>0, <2>3 DEF MailSettles
  <2>4. CASE \E r \in Request : Handle(r) /\ ~ImportEnrollments(r)
    BY <1>1, <2>0, <2>2, <2>4 DEF Handle, UpdateMemberRole, RemoveMember, RotateJoinLink,
       ArchiveCourse, Refuse, database, CancelPendingEnrollment, JoinSignup, JoinLoginUnverified,
       JoinLogin, VerifyEmail
  <2>5. CASE ~(\E r \in Request : Handle(r)) /\ ~(\E v \in User : MailSettles(v))
    <3>1. mail'[u] = mail[u]
      BY <1>1, <2>5, HandlersOnly
    <3> QED
      BY <2>0, <3>1
  <2> QED
    BY <2>1, <2>3, <2>4, <2>5
<1>2. RosterInv /\ [Next]_vars => [Again]_vars
  BY <1>1
<1> QED
  BY <1>2, Invariance, PTL DEF Spec, OneInvitationMail

\* JoinKeepsRole: enroll_student and a removal leave the role of a member alone.
THEOREM RoleIsKept == Spec => JoinKeepsRole
<1> DEFINE Kept == \A u \in User : roster[u] # Absent /\ roster'[u].role # roster[u].role =>
                     \E r \in Request : Holds(r, "role") /\ req'[r] = Idle
<1>1. ASSUME RosterInv, [Next]_vars, NEW u \in User, roster[u] # Absent,
             ~ \E r \in Request : Holds(r, "role") /\ req'[r] = Idle
      PROVE  roster'[u].role = roster[u].role
  <2>1. ASSUME NEW r \in Request PROVE ~UpdateMemberRole(r)
    BY <1>1 DEF UpdateMemberRole, Commit, RosterInv, TypeOK
  <2>2. ASSUME NEW r \in Request, RemoveMember(r) PROVE roster'[u].role = roster[u].role
    <3>1. PICK gone : roster' = [roster EXCEPT ![Asked(r).user].withdrawn = gone]
      BY <2>2 DEF RemoveMember
    <3>2. roster[u] \in Member
      BY <1>1, RosterRow
    <3> QED
      BY <1>1, <3>1, <3>2 DEF RosterInv, TypeOK, Member
  <2>3. ASSUME NEW r \in Request, NEW users, req[r] # Idle, Enroll(r, users)
        PROVE  roster'[u].role = roster[u].role
    <3>1. \A v \in User \cap users : ~Conflict(r, v)
      BY <2>3 DEF Enroll
    <3> QED
      BY <1>1, <2>3, <3>1, JoinedRow DEF Enroll
  <2>4. CASE \E r \in Request : Handle(r)
    BY <1>1, <2>1, <2>2, <2>3, <2>4 DEF Handle, RotateJoinLink, ArchiveCourse, Refuse, database,
       CancelPendingEnrollment, JoinSignup, JoinLoginUnverified, JoinLogin, VerifyEmail,
       ImportEnrollments, Holds
  <2> QED
    BY <1>1, <2>4, HandlersOnly
<1>2. RosterInv /\ [Next]_vars => [Kept]_vars
  BY <1>1
<1> QED
  BY <1>2, Invariance, PTL DEF Spec, JoinKeepsRole

\* OrphanedByOverlap: _guard_last_instructor keeps an instructor in the course
\* unless one it counted has left, or the target has become one, since it read.
THEOREM KeepsAnInstructor == Spec => OrphanedByOverlap
<1> DEFINE Overtaken(r) == /\ Holds(r, "role") \/ Holds(r, "remove")
                           /\ req'[r] = Idle
                           /\ Miscounted(r, Asked(r).user)
           Orphaned == Instructors(roster) # {} /\ Instructors(roster') = {} =>
                         \E r \in Request : Overtaken(r)
<1>1. ASSUME RosterInv, [Next]_vars, NEW i \in Instructors(roster),
             \A r \in Request : ~Overtaken(r)
      PROVE  Instructors(roster') # {}
  <2>1. i \in User /\ Enrolled(roster, i) /\ roster[i].role = "instructor" /\ roster[i] # Absent
    BY DEF Instructors, Enrolled
  <2> DEFINE Counted(r, u) == /\ roster[u].role = "instructor" => Snap(r).roster[u].role = "instructor"
                              /\ \A j \in Instructors(Snap(r).roster) \ {u} : j \in Instructors(roster)
  <2>2. ASSUME NEW r \in Request, UpdateMemberRole(r) PROVE Instructors(roster') # {}
    <3> DEFINE u == Asked(r).user
    <3>1. Counted(r, u)
      BY <1>1, <2>2, Answered DEF UpdateMemberRole, Miscounted, Instructors
    <3>2. CASE Asked(r).role = "instructor"
      <4>1. roster'[i] # Absent /\ roster'[i].role = "instructor" /\ ~roster'[i].withdrawn
        <5>1. roster[i] \in Member
          BY <1>1, <2>1, RosterRow
        <5>2. i # u => roster'[i] = roster[i]
          BY <1>1, <2>1, <2>2 DEF UpdateMemberRole, RosterInv, TypeOK
        <5>3. i = u => roster'[i] = [roster[i] EXCEPT !.role = "instructor"]
          BY <1>1, <2>1, <2>2, <3>2 DEF UpdateMemberRole, RosterInv, TypeOK
        <5>4. CASE i = u
          <6>1. /\ roster'[i] \in Member /\ roster'[i].role = "instructor"
                /\ roster'[i].withdrawn = roster[i].withdrawn
            <7>1. "instructor" \in Role
              BY DEF Role
            <7>2. roster'[i] = [roster[i] EXCEPT !.role = "instructor"]
              BY <5>3, <5>4
            <7> QED
              BY <5>1, <7>1, <7>2, MemberRows
          <6> QED
            BY <2>1, <6>1, MemberRows DEF Enrolled
        <5>5. CASE i # u
          BY <2>1, <5>2, <5>5 DEF Enrolled
        <5> QED
          BY <5>4, <5>5
      <4> QED
        BY <2>1, <4>1 DEF Instructors, Enrolled
    <3>3. CASE Asked(r).role # "instructor"
      <4>1. PICK j \in Instructors(roster) : j # u
        <5>1. CASE i = u
          BY <2>1, <2>2, <3>1, <3>3, <5>1 DEF UpdateMemberRole, ChangesRole, GuardLastInstructor
        <5> QED
          BY <5>1
      <4>2. roster'[j] = roster[j] /\ j \in User
        BY <1>1, <2>2, <4>1 DEF UpdateMemberRole, RosterInv, TypeOK, Instructors
      <4> QED
        BY <4>1, <4>2 DEF Instructors, Enrolled
    <3> QED
      BY <3>2, <3>3
  <2>3. ASSUME NEW r \in Request, RemoveMember(r) PROVE Instructors(roster') # {}
    <3> DEFINE u == Asked(r).user
    <3>1. Counted(r, u)
      BY <1>1, <2>3, Answered DEF RemoveMember, Miscounted, Instructors
    <3>2. CASE \E j \in Instructors(roster) : j # u
      <4>1. PICK j \in Instructors(roster) : j # u
        BY <3>2
      <4>2. roster'[j] = roster[j] /\ j \in User
        BY <1>1, <2>3, <4>1 DEF RemoveMember, RosterInv, TypeOK, Instructors
      <4> QED
        BY <4>1, <4>2 DEF Instructors, Enrolled
    <3>3. CASE i = u /\ Instructors(Snap(r).roster) \ {u} = {}
      <4>1. Snap(r).roster[u].withdrawn
        BY <2>1, <2>3, <3>1, <3>3 DEF RemoveMember, Removes, GuardLastInstructor
      <4>2. ~Enrolled(Snap(r).roster, u) /\ ~roster[u].withdrawn
        BY <2>1, <3>3, <4>1 DEF Enrolled
      <4>3. roster' = [roster EXCEPT ![u] = [roster[u] EXCEPT !.withdrawn = FALSE]]
        BY <2>3, <4>2 DEF RemoveMember
      <4>4. roster[u] \in Member
        BY <1>1, <2>1, <3>3, RosterRow
      <4>5. roster'[u] # Absent /\ roster'[u].role = "instructor" /\ ~roster'[u].withdrawn
        <5> DEFINE row == [roster[u] EXCEPT !.withdrawn = FALSE]
        <5>1. row \in Member /\ row.role = roster[u].role /\ row.withdrawn = FALSE
          BY <4>4, MemberRows
        <5> HIDE DEF row
        <5>2. roster'[u] = row
          BY <1>1, <2>1, <3>3, <4>3 DEF row, RosterInv, TypeOK
        <5> QED
          BY <2>1, <3>3, <5>1, <5>2, MemberRows
      <4> QED
        BY <2>1, <3>3, <4>5 DEF Instructors, Enrolled
    <3> QED
      BY <3>1, <3>2, <3>3
  <2>4. ASSUME NEW r \in Request, NEW users, req[r] # Idle, Enroll(r, users)
        PROVE  Instructors(roster') # {}
    <3>1. \A v \in User \cap users : ~Conflict(r, v)
      BY <2>4 DEF Enroll
    <3>2. roster'[i] # Absent /\ roster'[i].role = "instructor" /\ ~roster'[i].withdrawn
      BY <1>1, <2>1, <2>4, <3>1, JoinedRow DEF Enroll, Enrolled
    <3> QED
      BY <2>1, <3>2 DEF Instructors, Enrolled
  <2>5. CASE UNCHANGED roster
    BY <2>5
  <2>6. CASE \E r \in Request : Handle(r)
    BY <1>1, <2>2, <2>3, <2>4, <2>5, <2>6 DEF Handle, RotateJoinLink, ArchiveCourse, Refuse,
       database, CancelPendingEnrollment, JoinSignup, JoinLoginUnverified, JoinLogin, VerifyEmail,
       ImportEnrollments, Holds
  <2> QED
    BY <1>1, <2>5, <2>6, HandlersOnly
<1>2. RosterInv /\ [Next]_vars => [Orphaned]_vars
  BY <1>1
<1> QED
  BY <1>2, Invariance, PTL DEF Spec, OrphanedByOverlap

\* InvitationUsedUp: enroll_student deletes the invitation it read, and the import
\* invites nobody it read as verified.
THEOREM InvitationIsUsedUp == Spec => InvitationUsedUp
<1> DEFINE Overtaken(r, u) ==
             /\ req'[r] = Idle
             /\ \/ (Joins(r, u) \/ Imports(r, u)) /\ Snap(r).invites[u] # invites[u]
                \/ Imports(r, u) /\ Snap(r).account[u] # account[u]
           Left == \A u \in User : ~InvitedTwice(u) /\ InvitedTwice(u)' =>
                     \E r \in Request : Overtaken(r, u)
<1>1. ASSUME RosterInv, [Next]_vars, NEW u \in User,
             Enrolled(roster, u) => invites[u] = 0,
             \A r \in Request : ~Overtaken(r, u)
      PROVE  Enrolled(roster', u) => invites'[u] = 0
  <2>1. ASSUME NEW r \in Request, UpdateMemberRole(r) \/ RemoveMember(r)
        PROVE  Enrolled(roster', u) => invites'[u] = 0
    <3>1. req[r] # Idle /\ UNCHANGED invites
      BY <2>1 DEF UpdateMemberRole, RemoveMember, Holds
    <3>2. Asked(r).user = u => roster[u] \in Member
      BY <1>1, <2>1, <3>1, NamedMember
         DEF UpdateMemberRole, RemoveMember, ChangesRole, Removes, Enrolled
    <3>3. CASE UpdateMemberRole(r)
      <4>1. PICK role : roster' = [roster EXCEPT ![Asked(r).user] = [@ EXCEPT !.role = role]]
        BY <3>3 DEF UpdateMemberRole
      <4>2. CASE Asked(r).user = u
        <5>1. roster'[u] = [roster[u] EXCEPT !.role = role]
          BY <1>1, <4>1, <4>2 DEF RosterInv, TypeOK
        <5>2. roster'[u].withdrawn = roster[u].withdrawn
          BY <3>2, <4>2, <5>1 DEF Member
        <5> QED
          BY <1>1, <3>1, <3>2, <4>2, <5>2, MemberRows DEF Enrolled
      <4>3. CASE Asked(r).user # u
        BY <1>1, <3>1, <4>1, <4>3 DEF Enrolled, RosterInv, TypeOK
      <4> QED
        BY <4>2, <4>3
    <3>4. CASE RemoveMember(r)
      <4> DEFINE gone == roster[u].withdrawn \/ Enrolled(Snap(r).roster, u)
      <4>1. CASE Asked(r).user = u
        <5>1. roster'[u] = [roster[u] EXCEPT !.withdrawn = gone]
          BY <1>1, <3>1, <3>4, <4>1 DEF RemoveMember, RosterInv, TypeOK
        <5>2. gone \in BOOLEAN
          BY Zenon
        <5>3. roster[u].withdrawn => gone
          OBVIOUS
        <5> HIDE DEF gone
        <5>4. roster'[u].withdrawn = gone
          BY <3>2, <4>1, <5>1, <5>2, MemberRows
        <5> QED
          BY <1>1, <3>1, <3>2, <4>1, <5>3, <5>4, MemberRows DEF Enrolled
      <4>2. CASE Asked(r).user # u
        BY <1>1, <3>1, <3>4, <4>2 DEF RemoveMember, Enrolled, RosterInv, TypeOK
      <4> QED
        BY <4>1, <4>2
    <3> QED
      BY <2>1, <3>3, <3>4
  <2>2. ASSUME NEW r \in Request, JoinLogin(r) \/ VerifyEmail(r)
        PROVE  Enrolled(roster', u) => invites'[u] = 0
    <3> DEFINE x == Asked(r).user
    <3>1. Enroll(r, {x}) /\ invites' = [invites EXCEPT ![x] = Uninvited(r, x)]
      BY <2>2 DEF JoinLogin, VerifyEmail, DropInvitations
    <3>2. CASE u = x
      <4>1. Joins(r, u) /\ req'[r] = Idle
        BY <1>1, <2>2, <3>2, Answered DEF JoinLogin, VerifyEmail, Joins
      <4>2. Snap(r).invites[u] = invites[u]
        BY <1>1, <4>1
      <4> QED
        BY <1>1, <3>1, <3>2, <4>2 DEF Uninvited, RosterInv, TypeOK
    <3>3. CASE u # x
      BY <1>1, <3>1, <3>3 DEF Enroll, RosterInv, TypeOK, Enrolled
    <3> QED
      BY <3>2, <3>3
  <2>3. ASSUME NEW r \in Request, ImportEnrollments(r)
        PROVE  Enrolled(roster', u) => invites'[u] = 0
    <3>1. /\ Enroll(r, Verified(r))
          /\ u \in Asked(r).rows => /\ Snap(r).invites[u] = invites[u]
                                   /\ Snap(r).account[u] = account[u]
      <4>1. Holds(r, "import") /\ req'[r] = Idle /\ Enroll(r, Verified(r))
        BY <1>1, <2>3, Answered DEF ImportEnrollments
      <4> QED
        BY <1>1, <4>1 DEF Imports
    <3>2. CASE u \in Verified(r)
      BY <1>1, <2>3, <3>1, <3>2 DEF ImportEnrollments, Uninvited, Verified
    <3>3. CASE u \notin Verified(r)
      <4>1. roster'[u] = roster[u]
        BY <1>1, <3>1, <3>3 DEF Enroll
      <4>2. u \in Asked(r).rows => roster[u] = Absent
        BY <1>1, <3>1, <3>3 DEF Verified, RosterInv, MembersVerified
      <4> QED
        BY <1>1, <2>3, <3>3, <4>1, <4>2 DEF ImportEnrollments, Enrolled
    <3> QED
      BY <3>2, <3>3
  <2>4. ASSUME NEW r \in Request, CancelPendingEnrollment(r)
        PROVE  Enrolled(roster', u) => invites'[u] = 0
    BY <1>1, <2>4
       DEF CancelPendingEnrollment, DropInvitations, Uninvited, Enrolled, RosterInv, TypeOK
  <2>5. CASE UNCHANGED <<roster, invites>>
    BY <1>1, <2>5 DEF Enrolled
  <2>6. CASE \E r \in Request : Handle(r)
    BY <1>1, <2>1, <2>2, <2>3, <2>4, <2>5, <2>6 DEF Handle, RotateJoinLink, ArchiveCourse,
       Refuse, database, JoinSignup, JoinLoginUnverified
  <2> QED
    BY <1>1, <2>5, <2>6, HandlersOnly
<1>2. RosterInv /\ [Next]_vars => [Left]_vars
  BY <1>1 DEF InvitedTwice
<1> QED
  BY <1>2, Invariance, PTL DEF Spec, InvitationUsedUp
=============================================================================
