--------------------------- MODULE AccountsProofs ---------------------------
(***************************************************************************)
(* Proofs about Accounts for any number of overlapping requests, any       *)
(* cooldown, lifetimes, window and limit.                                  *)
(*                                                                         *)
(* Reset tokens that are not used, and sessions of a login, belong to the  *)
(* current password, because a reset uses up the former and revokes the    *)
(* latter together with the change.  The row of the throttle counts what   *)
(* was admitted since its window began.  Tokens are only ever added and    *)
(* used up: what a join login read of them differs from what is there in   *)
(* the tokens issued since, and in what was used.                          *)
(***************************************************************************)
EXTENDS Accounts, SequenceTheorems, TLAPS

USE AccountAssumption

\* What the current password does not stand behind was used up or revoked.
CurrentAccess ==
  /\ \A i \in DOMAIN tokens :
       tokens[i].purpose = "reset" /\ ~tokens[i].used => tokens[i].password = password
  /\ \A s \in sessions : s.under = password /\ (s.by = "join" \/ s.password = password)

\* The throttle of an action counts what was admitted in its window.
ThrottleCounts ==
  \A a \in Action : /\ admitted[a] = throttle[a].count
                    /\ ~throttle[a].exists => throttle[a].count = 0

\* The tokens a join login has read, as far as the cooldown looks at them, are
\* the oldest tokens there are.
Older(seen, rows) ==
  \A i \in DOMAIN seen :
    /\ i \in DOMAIN rows
    /\ seen[i].purpose = rows[i].purpose
    /\ seen[i].course = rows[i].course
    /\ seen[i].at = rows[i].at
SeenKept == \A r \in Request : req[r].step = "join" => Older(req[r].seen, tokens)

AccountInv == TypeOK /\ CurrentAccess /\ ThrottleCounts /\ SeenKept

-----------------------------------------------------------------------------
LEMMA Steps ==
  \A slot \in Slot :
    /\ slot.step \in {"idle", "arrived", "session"} \cup Action
    /\ slot.step = "arrived" => slot.action \in Action /\ slot.at \in Time
    /\ slot.step = "join" => slot.course \in Course /\ slot.seen \in Seq(TokenRow)
    /\ slot.step = "session" => slot.checked \in 1..MaxPassword
BY DEF Slot, Idle, Action

LEMMA NewToken ==
  ASSUME TypeOK, NEW purpose \in Purpose, NEW course \in Course \cup {NoCourse}
  PROVE  LET token == Token(purpose, course)
         IN  /\ token \in TokenRow /\ ~token.used
             /\ token.at = now /\ token.password = password
             /\ token.purpose = purpose /\ token.course = course
BY DEF Token, TokenRow, TypeOK

LEMMA InitAccountInv == Init => AccountInv
<1> SUFFICES ASSUME Init PROVE AccountInv
  OBVIOUS
<1>1. /\ now \in Time /\ password \in 1..MaxPassword
      /\ throttle \in [Action -> [start : Time, count : 0..Limit, exists : BOOLEAN]]
      /\ req \in [Request -> Slot]
  BY DEF Init, Time, NoRow, Slot, Idle
<1>2. ASSUME NEW c \in Course
      PROVE  Token("verify", c) \in TokenRow /\ Token("verify", c).purpose = "verify"
  BY <1>1 DEF Token, TokenRow, Purpose, Init
<1>3. /\ tokens \in Seq(TokenRow)
      /\ \A i \in DOMAIN tokens : tokens[i].purpose # "reset"
  <2>1. CASE verified
    BY <2>1 DEF Init
  <2>2. CASE ~verified
    <3>1. PICK c \in Course : tokens = <<Token("verify", c)>>
      BY <2>2 DEF Init
    <3> QED
      BY <1>2, <3>1
  <2> QED
    BY <2>1, <2>2
<1>4. SeenKept
  BY DEF Init, SeenKept, Idle
<1> QED
  BY <1>1, <1>3, <1>4 DEF Init, AccountInv, TypeOK, CurrentAccess, ThrottleCounts, NoRow

\* What a join login has read stays the oldest part of the tokens when tokens are
\* added or used up.
LEMMA SeenStays ==
  ASSUME AccountInv, Older(tokens, tokens'), NEW r \in Request, NEW slot,
         req' = req \/ req' = [req EXCEPT ![r] = slot],
         slot.step = "join" => Older(slot.seen, tokens')
  PROVE  SeenKept'
<1> SUFFICES ASSUME NEW q \in Request, req'[q].step = "join"
             PROVE  Older(req'[q].seen, tokens')
  BY DEF SeenKept, Older
<1>1. CASE req'[q] = req[q]
  <2>1. Older(req[q].seen, tokens)
    BY <1>1 DEF AccountInv, SeenKept
  <2> QED
    BY <1>1, <2>1 DEF Older
<1>2. CASE req'[q] # req[q]
  BY <1>2 DEF AccountInv, TypeOK
<1> QED
  BY <1>1, <1>2

LEMMA SeenUnmoved ==
  ASSUME AccountInv, Older(tokens, tokens'), UNCHANGED req
  PROVE  SeenKept'
BY DEF AccountInv, SeenKept, Older

LEMMA TokensKept == Older(tokens, tokens)
BY DEF Older

\* A step of one request that writes neither account nor throttle.
LEMMA SlotInv ==
  ASSUME AccountInv, NEW r \in Request, NEW slot \in Slot, slot.step # "join",
         req' = [req EXCEPT ![r] = slot],
         UNCHANGED <<now, password, verified, tokens, throttle, admitted>>,
         sessions' = sessions, arrivals' \in 0..MaxArrivals
  PROVE  AccountInv'
<1>1. SeenKept'
  BY SeenStays, TokensKept
<1> QED
  BY <1>1 DEF AccountInv, TypeOK, CurrentAccess, ThrottleCounts

-----------------------------------------------------------------------------
(* The throttle.                                                           *)

LEMMA RestartedRow ==
  ASSUME AccountInv, NEW a \in Action, NEW at \in Time
  PROVE  LET row == Restarted(throttle[a], at)
         IN  /\ row \in [start : Time, count : 0..Limit, exists : BOOLEAN] /\ row.exists
             /\ row # throttle[a] =>
                  row.count = 0 /\ (throttle[a].exists => row.start >= throttle[a].start + Window)
<1>1. throttle[a] \in [start : Time, count : 0..Limit, exists : BOOLEAN]
  BY DEF AccountInv, TypeOK
<1> QED
  BY <1>1 DEF Restarted, Time

\* What Admit does to the row of its action, and to the count of its window.
LEMMA AdmitCounts ==
  ASSUME AccountInv, NEW r \in Request, Admit(r)
  PROVE  LET a == req[r].action
         IN  /\ a \in Action
             /\ throttle' \in [Action -> [start : Time, count : 0..Limit, exists : BOOLEAN]]
             /\ throttle'[a].exists /\ admitted'[a] = throttle'[a].count
             /\ throttle[a].exists /\ throttle'[a].start # throttle[a].start =>
                  throttle'[a].start >= throttle[a].start + Window
             /\ \A b \in Action \ {a} : throttle'[b] = throttle[b] /\ admitted'[b] = admitted[b]
             /\ admitted' \in [Action -> Nat]
<1> DEFINE a == req[r].action
           row == Restarted(throttle[a], req[r].at)
           before == IF row = throttle[a] THEN admitted[a] ELSE 0
           next == IF Admits(row) THEN [row EXCEPT !.count = @ + 1] ELSE row
           total == IF Admits(row) THEN before + 1 ELSE before
           Row == [start : Time, count : 0..Limit, exists : BOOLEAN]
<1>1. a \in Action /\ req[r].at \in Time
  BY Steps DEF Admit, AccountInv, TypeOK
<1>2. throttle' = [throttle EXCEPT ![a] = next] /\ admitted' = [admitted EXCEPT ![a] = total]
  BY DEF Admit
<1>3. /\ row \in Row /\ row.exists
      /\ row # throttle[a] =>
           row.count = 0 /\ (throttle[a].exists => row.start >= throttle[a].start + Window)
  BY <1>1, RestartedRow
<1>4. /\ throttle \in [Action -> Row] /\ admitted \in [Action -> Nat]
      /\ admitted[a] = throttle[a].count
  BY <1>1 DEF AccountInv, TypeOK, ThrottleCounts
<1> HIDE DEF a, row
<1>5. before = row.count
  BY <1>3, <1>4
<1>6. /\ next \in Row /\ next.exists /\ next.start = row.start /\ next.count = total
      /\ total \in Nat
  <2>1. CASE Admits(row)
    <3>1. row.count + 1 \in 0..Limit
      BY <1>3, <2>1 DEF Admits, AccountAssumption
    <3> QED
      BY <1>3, <1>5, <2>1, <3>1
  <2>2. CASE ~Admits(row)
    BY <1>3, <1>5, <2>2
  <2> QED
    BY <2>1, <2>2
<1> HIDE DEF next, total
<1>7. /\ throttle'[a] = next /\ admitted'[a] = total
      /\ throttle' \in [Action -> Row] /\ admitted' \in [Action -> Nat]
      /\ \A b \in Action \ {a} : throttle'[b] = throttle[b] /\ admitted'[b] = admitted[b]
  BY <1>1, <1>2, <1>4, <1>6
<1> QED
  BY <1>1, <1>3, <1>6, <1>7 DEF a

LEMMA AdmitInv ==
  ASSUME AccountInv, NEW r \in Request, Admit(r)
  PROVE  AccountInv'
<1> DEFINE a == req[r].action
<1>1. /\ UNCHANGED <<now, password, verified, tokens, sessions, arrivals>>
  BY DEF Admit, account
<1>2. PICK slot \in Slot : /\ req' = [req EXCEPT ![r] = slot]
                           /\ slot.step = "join" => slot.seen = tokens
  <2>1. a \in Action /\ tokens \in Seq(TokenRow)
    BY Steps DEF Admit, AccountInv, TypeOK
  <2>2. ASSUME NEW c \in Course
        PROVE  /\ Continue(a, c) \in Slot
               /\ Continue(a, c).step = "join" => Continue(a, c).seen = tokens
    BY <2>1 DEF Slot, Continue
  <2>3. Idle \in Slot /\ Idle.step # "join"
    BY DEF Slot, Idle
  <2> QED
    BY <2>2, <2>3 DEF Admit
<1>3. /\ a \in Action
      /\ throttle' \in [Action -> [start : Time, count : 0..Limit, exists : BOOLEAN]]
      /\ throttle'[a].exists /\ admitted'[a] = throttle'[a].count
      /\ \A b \in Action \ {a} : throttle'[b] = throttle[b] /\ admitted'[b] = admitted[b]
      /\ admitted' \in [Action -> Nat]
  BY AdmitCounts
<1>4. ThrottleCounts'
  BY <1>3 DEF AccountInv, ThrottleCounts
<1>5. TypeOK'
  BY <1>1, <1>2, <1>3 DEF AccountInv, TypeOK
<1>6. SeenKept'
  BY <1>1, <1>2, SeenStays, TokensKept
<1> QED
  BY <1>1, <1>4, <1>5, <1>6 DEF AccountInv, CurrentAccess

-----------------------------------------------------------------------------
(* Tokens and sessions.                                                    *)

\* A new token belongs to the current password and comes after the others.
LEMMA IssueInv ==
  ASSUME AccountInv, NEW seen, NEW purpose \in Purpose, NEW course \in Course \cup {NoCourse},
         Issue(seen, purpose, course), UNCHANGED <<now, password>>
  PROVE  /\ tokens' \in Seq(TokenRow)
         /\ Older(tokens, tokens')
         /\ \A i \in DOMAIN tokens' :
              tokens'[i].purpose = "reset" /\ ~tokens'[i].used => tokens'[i].password = password
<1>1. CASE UNCHANGED tokens
  BY <1>1, TokensKept DEF AccountInv, TypeOK, CurrentAccess
<1>2. CASE tokens' = Append(tokens, Token(purpose, course))
  <2>1. /\ tokens \in Seq(TokenRow)
        /\ Token(purpose, course) \in TokenRow /\ Token(purpose, course).password = password
    BY NewToken DEF AccountInv, TypeOK
  <2>2. /\ tokens' \in Seq(TokenRow) /\ DOMAIN tokens' = 1..(Len(tokens) + 1)
        /\ tokens'[Len(tokens) + 1] = Token(purpose, course)
        /\ \A i \in 1..Len(tokens) : tokens'[i] = tokens[i]
    BY <1>2, <2>1
  <2>3. \A i \in DOMAIN tokens' : i \in DOMAIN tokens \/ i = Len(tokens) + 1
    BY <2>1, <2>2
  <2>4. Older(tokens, tokens')
    BY <2>1, <2>2 DEF Older
  <2> QED
    BY <2>1, <2>2, <2>3, <2>4 DEF AccountInv, CurrentAccess
<1> QED
  BY <1>1, <1>2 DEF Issue

LEMMA RequestInv ==
  ASSUME AccountInv, NEW r \in Request, RequestPasswordReset(r) \/ JoinUnverified(r)
  PROVE  AccountInv'
<1>1. UNCHANGED <<now, password, verified, sessions, throttle, arrivals, admitted>>
      /\ req' = [req EXCEPT ![r] = Idle]
  BY DEF RequestPasswordReset, JoinUnverified, Finish
<1>2. /\ tokens' \in Seq(TokenRow)
      /\ \A i \in DOMAIN tokens' :
           tokens'[i].purpose = "reset" /\ ~tokens'[i].used => tokens'[i].password = password
      /\ Older(tokens, tokens')
  <2>1. CASE RequestPasswordReset(r)
    BY <1>1, <2>1, IssueInv DEF RequestPasswordReset, Purpose
  <2>2. CASE JoinUnverified(r)
    <3>1. req[r].course \in Course
      BY <2>2, Steps DEF JoinUnverified, AccountInv, TypeOK
    <3> QED
      BY <1>1, <2>2, <3>1, IssueInv DEF JoinUnverified, Purpose
  <2> QED
    BY <2>1, <2>2
<1>3. req' \in [Request -> Slot]
  BY <1>1 DEF AccountInv, TypeOK, Slot
<1>4. SeenKept'
  BY <1>1, <1>2, SeenStays DEF Idle
<1> QED
  BY <1>1, <1>2, <1>3, <1>4 DEF AccountInv, TypeOK, CurrentAccess, ThrottleCounts

\* No reset token is left unused and no session open.
LEMMA ResetPasswordInv ==
  ASSUME AccountInv, ResetPassword
  PROVE  AccountInv'
<1>1. PICK i \in DOMAIN tokens :
        /\ tokens' = [j \in DOMAIN tokens |-> [tokens[j] EXCEPT !.used = @ \/ j \in UsedUp(i)]]
        /\ password < MaxPassword /\ password' = password + 1 /\ sessions' = {}
        /\ UNCHANGED <<now, verified, throttle, req, arrivals, admitted>>
  BY DEF ResetPassword
<1>2. tokens \in Seq(TokenRow) /\ DOMAIN tokens = 1..Len(tokens)
  BY DEF AccountInv, TypeOK
<1>3. ASSUME NEW j \in DOMAIN tokens
      PROVE  /\ tokens'[j] \in TokenRow
             /\ tokens'[j].purpose = "reset" => tokens'[j].used
             /\ tokens'[j].purpose = tokens[j].purpose /\ tokens'[j].course = tokens[j].course
             /\ tokens'[j].at = tokens[j].at
  <2> DEFINE used == tokens[j].used \/ j \in UsedUp(i)
  <2>1. used \in BOOLEAN
    BY Zenon
  <2>2. tokens[j].purpose = "reset" => used
    BY DEF UsedUp
  <2>3. tokens'[j] = [tokens[j] EXCEPT !.used = used]
    BY <1>1
  <2> HIDE DEF used
  <2>4. tokens[j] \in TokenRow
    BY <1>2
  <2> QED
    BY <2>1, <2>2, <2>3, <2>4 DEF TokenRow
<1>4. DOMAIN tokens' = DOMAIN tokens /\ tokens' \in Seq(TokenRow)
  <2>1. Len(tokens) \in Nat /\ DOMAIN tokens' = 1..Len(tokens)
    BY <1>1, <1>2
  <2>2. tokens' \in [1..Len(tokens) -> TokenRow]
    BY <1>1, <1>2, <1>3, <2>1
  <2> QED
    BY <1>2, <2>1, <2>2, SeqDef
<1>5. TypeOK'
  <2>1. password \in 1..MaxPassword /\ MaxPassword \in Nat
    BY AccountAssumption DEF AccountInv, TypeOK
  <2>2. password' \in 1..MaxPassword
    BY <1>1, <2>1
  <2>3. sessions' \subseteq SessionRow
    BY <1>1
  <2> QED
    BY <1>1, <1>4, <2>2, <2>3 DEF AccountInv, TypeOK
<1>6. CurrentAccess' /\ ThrottleCounts'
  BY <1>1, <1>3, <1>4 DEF AccountInv, CurrentAccess, ThrottleCounts
<1>7. SeenKept'
  <2>1. Older(tokens, tokens')
    BY <1>3, <1>4 DEF Older
  <2> QED
    BY <1>1, <2>1, SeenUnmoved
<1> QED
  BY <1>5, <1>6, <1>7 DEF AccountInv

LEMMA VerifyEmailInv ==
  ASSUME AccountInv, VerifyEmail
  PROVE  AccountInv'
<1>1. PICK i \in DOMAIN tokens :
        /\ tokens' = [tokens EXCEPT ![i].used = TRUE] /\ verified' = TRUE
        /\ UNCHANGED <<now, password, sessions, throttle, req, arrivals, admitted>>
  BY DEF VerifyEmail
<1>2. tokens \in Seq(TokenRow) /\ tokens[i] \in TokenRow
  BY DEF AccountInv, TypeOK
<1>3. /\ [tokens[i] EXCEPT !.used = TRUE] \in TokenRow
      /\ [tokens[i] EXCEPT !.used = TRUE].used
  BY <1>2 DEF TokenRow
<1>4. /\ tokens' \in Seq(TokenRow) /\ DOMAIN tokens' = DOMAIN tokens
      /\ \A j \in DOMAIN tokens : tokens'[j] = tokens[j] \/ tokens'[j].used
  BY <1>1, <1>2, <1>3
<1>5. SeenKept'
  <2>1. Older(tokens, tokens')
    BY <1>1, <1>2, <1>4 DEF Older, TokenRow
  <2> QED
    BY <1>1, <2>1, SeenUnmoved
<1>6. TypeOK'
  BY <1>1, <1>4 DEF AccountInv, TypeOK
<1>7. CurrentAccess'
  BY <1>1, <1>4 DEF AccountInv, CurrentAccess
<1> QED
  BY <1>1, <1>5, <1>6, <1>7 DEF AccountInv, ThrottleCounts

LEMMA SessionInv ==
  ASSUME AccountInv, NEW checked \in 1..MaxPassword, NEW by \in {"login", "join"},
         CreateSession(checked, by), by = "join" \/ checked = password,
         UNCHANGED <<now, password, verified, tokens, throttle, arrivals, admitted>>,
         req' \in [Request -> Slot], SeenKept'
  PROVE  AccountInv'
<1> DEFINE session == [at |-> now, password |-> checked, under |-> password, by |-> by]
<1>1. sessions' = sessions \cup {session}
  BY DEF CreateSession
<1>2. /\ session \in SessionRow /\ session.by = by
      /\ session.password = checked /\ session.under = password
  BY DEF SessionRow, AccountInv, TypeOK
<1> QED
  BY <1>1, <1>2 DEF AccountInv, TypeOK, CurrentAccess, ThrottleCounts

LEMMA SessionsInv ==
  ASSUME AccountInv, Login \/ Logout \/ \E r \in Request : JoinSession(r)
  PROVE  AccountInv'
<1>1. CASE Login
  <2>1. SeenKept'
    BY <1>1, SeenUnmoved, TokensKept DEF Login
  <2> QED
    BY <1>1, <2>1, SessionInv DEF Login, AccountInv, TypeOK
<1>2. ASSUME NEW r \in Request, JoinSession(r) PROVE AccountInv'
  <2>1. req[r].checked \in 1..MaxPassword
    BY <1>2, Steps DEF JoinSession, AccountInv, TypeOK
  <2>2. req' \in [Request -> Slot]
    BY <1>2 DEF JoinSession, Finish, AccountInv, TypeOK, Slot
  <2>3. SeenKept'
    BY <1>2, SeenStays, TokensKept DEF JoinSession, Finish, Idle
  <2> QED
    BY <1>2, <2>1, <2>2, <2>3, SessionInv DEF JoinSession
<1>3. CASE Logout
  <2>1. SeenKept'
    BY <1>3, SeenUnmoved, TokensKept DEF Logout
  <2> QED
    BY <1>3, <2>1 DEF Logout, AccountInv, TypeOK, CurrentAccess, ThrottleCounts
<1> QED
  BY <1>1, <1>2, <1>3

LEMMA OtherInv ==
  ASSUME AccountInv, NEW r \in Request, Arrive(r) \/ JoinCheck(r) \/ Refuse(r)
  PROVE  AccountInv'
<1>1. PICK slot \in Slot : slot.step # "join" /\ req' = [req EXCEPT ![r] = slot]
  <2>1. CASE Arrive(r)
    BY <2>1 DEF Arrive, Slot, AccountInv, TypeOK
  <2>2. CASE JoinCheck(r)
    BY <2>2 DEF JoinCheck, Slot, AccountInv, TypeOK
  <2>3. CASE Refuse(r)
    BY <2>3 DEF Refuse, Finish, Slot, Idle
  <2> QED
    BY <2>1, <2>2, <2>3
<1>2. /\ UNCHANGED <<now, password, verified, tokens, sessions, throttle, admitted>>
      /\ arrivals' \in 0..MaxArrivals
  BY DEF Arrive, JoinCheck, Refuse, account, AccountInv, TypeOK, AccountAssumption
<1> QED
  BY <1>1, <1>2, SlotInv

-----------------------------------------------------------------------------
\* The invariant holds of every reachable state.
THEOREM Invariance == Spec => []AccountInv
<1>1. AccountInv /\ [Next]_vars => AccountInv'
  <2> SUFFICES ASSUME AccountInv, [Next]_vars PROVE AccountInv'
    OBVIOUS
  <2>1. CASE ResetPassword
    BY <2>1, ResetPasswordInv
  <2>2. CASE Tick
    <3>1. SeenKept'
      BY <2>2, SeenUnmoved, TokensKept DEF Tick, account
    <3> QED
      BY <2>2, <3>1 DEF Tick, account, Time, AccountInv, TypeOK, CurrentAccess, ThrottleCounts,
         AccountAssumption
  <2>3. CASE UNCHANGED vars
    <3>1. SeenKept'
      BY <2>3, SeenUnmoved, TokensKept DEF vars, account
    <3> QED
      BY <2>3, <3>1 DEF vars, account, AccountInv, TypeOK, CurrentAccess, ThrottleCounts
  <2> QED
    BY <2>1, <2>2, <2>3, AdmitInv, RequestInv, VerifyEmailInv, SessionsInv, OtherInv DEF Next
<1> QED
  BY <1>1, InitAccountInv, PTL DEF Spec

\* ResetEndsAccess: reset_password uses up every reset token and revokes every
\* session there is; only a join login in progress opens one for the old password
\* later.
THEOREM ResetEnds == Spec => []ResetEndsAccess
<1>1. AccountInv => ResetEndsAccess
  BY DEF AccountInv, CurrentAccess, ResetEndsAccess, Usable
<1> QED
  BY <1>1, Invariance, PTL

\* WindowHolds: throttle_account_request admits at most ACCOUNT_REQUESTS_PER_HOUR
\* requests in a window, and windows do not overlap.
THEOREM ThrottleHolds == Spec => WindowHolds
<1> DEFINE Holds == \A a \in Action :
              /\ admitted'[a] <= Limit
              /\ throttle[a].exists /\ throttle'[a].start # throttle[a].start =>
                   throttle'[a].start >= throttle[a].start + Window
<1>1. ASSUME AccountInv, AccountInv', [Next]_vars, NEW a \in Action
      PROVE  /\ admitted'[a] <= Limit
             /\ throttle[a].exists /\ throttle'[a].start # throttle[a].start =>
                  throttle'[a].start >= throttle[a].start + Window
  <2>1. admitted'[a] <= Limit
    BY <1>1 DEF AccountInv, TypeOK, ThrottleCounts
  <2>2. ASSUME NEW r \in Request, Admit(r)
        PROVE  throttle[a].exists /\ throttle'[a].start # throttle[a].start =>
                 throttle'[a].start >= throttle[a].start + Window
    <3>1. CASE a = req[r].action
      BY <1>1, <2>2, <3>1, AdmitCounts
    <3>2. CASE a # req[r].action
      BY <1>1, <2>2, <3>2, AdmitCounts
    <3> QED
      BY <3>1, <3>2
  <2>3. CASE ~ \E r \in Request : Admit(r)
    <3>1. throttle' = throttle
      BY <1>1, <2>3 DEF Next, Arrive, RequestPasswordReset, JoinUnverified, JoinCheck, JoinSession,
         Refuse, ResetPassword, VerifyEmail, Login, Logout, Tick, vars
    <3> QED
      BY <2>1, <3>1
  <2> QED
    BY <2>1, <2>2, <2>3
<1>2. AccountInv /\ AccountInv' /\ [Next]_vars => [Holds]_vars
  BY <1>1
<1> QED
  BY <1>2, Invariance, PTL DEF Spec, WindowHolds

\* A request that does not see a token of its purpose and course within the
\* cooldown issues one a cooldown after every token it had seen.
LEMMA NewTokenApart ==
  ASSUME AccountInv, NEW seen \in Seq(TokenRow), Older(seen, tokens),
         NEW purpose \in Purpose, NEW course \in Course \cup {NoCourse},
         Issue(seen, purpose, course), UNCHANGED now,
         NEW i \in DOMAIN tokens', NEW j \in DOMAIN tokens', j \notin DOMAIN tokens,
         Close(i, j)'
  PROVE  i \notin DOMAIN seen
<1> DEFINE token == Token(purpose, course)
<1>1. /\ ~Recent(seen, purpose, course) /\ tokens' = Append(tokens, token)
  BY DEF Issue
<1>2. /\ tokens \in Seq(TokenRow) /\ token \in TokenRow /\ token.at = now
      /\ token.purpose = purpose /\ token.course = course /\ now \in Nat
  BY NewToken DEF AccountInv, TypeOK, Time
<1> HIDE DEF token
<1>3. /\ DOMAIN tokens' = 1..(Len(tokens) + 1) /\ DOMAIN tokens = 1..Len(tokens)
      /\ tokens'[Len(tokens) + 1] = token
      /\ \A k \in 1..Len(tokens) : tokens'[k] = tokens[k]
  BY <1>1, <1>2
<1>4. /\ j = Len(tokens) + 1 /\ i \in DOMAIN tokens /\ tokens'[i] = tokens[i]
      /\ tokens[i].purpose = purpose /\ tokens[i].course = course
      /\ now < tokens[i].at + Cooldown
  BY <1>2, <1>3 DEF Close
<1> SUFFICES ASSUME i \in DOMAIN seen PROVE FALSE
  OBVIOUS
<1>5. /\ seen[i].purpose = purpose /\ seen[i].course = course
      /\ seen[i].at = tokens[i].at
  BY <1>4 DEF Older
<1>6. tokens[i].at \in Nat
  <2>1. tokens[i] \in TokenRow
    BY <1>2, <1>4
  <2> QED
    BY <2>1 DEF TokenRow, Time
<1>7. seen[i].at > now - Cooldown
  BY <1>2, <1>4, <1>5, <1>6 DEF AccountAssumption
<1> QED
  BY <1>1, <1>5, <1>7 DEF Recent

\* TokensApart: issue_account_token keeps the cooldown between two tokens of one
\* purpose and course, except for a join login that read the tokens before the
\* first of them was issued.
THEOREM CooldownHolds == Spec => TokensApart
<1> DEFINE Apart == \A i, j \in DOMAIN tokens' :
       j \notin DOMAIN tokens /\ Close(i, j)' =>
         \E r \in Request :
           req[r].step = "join" /\ req'[r] = Idle /\ i \notin DOMAIN req[r].seen
<1>1. ASSUME AccountInv, [Next]_vars, NEW i \in DOMAIN tokens', NEW j \in DOMAIN tokens',
             j \notin DOMAIN tokens, Close(i, j)'
      PROVE  \E r \in Request :
               req[r].step = "join" /\ req'[r] = Idle /\ i \notin DOMAIN req[r].seen
  <2>1. ASSUME NEW r \in Request PROVE ~RequestPasswordReset(r)
    <3> SUFFICES ASSUME RequestPasswordReset(r) PROVE FALSE
      OBVIOUS
    <3>1. tokens \in Seq(TokenRow)
      BY <1>1 DEF AccountInv, TypeOK
    <3>2. Issue(tokens, "reset", NoCourse) /\ UNCHANGED now /\ "reset" \in Purpose
      BY DEF RequestPasswordReset, Purpose
    <3>3. i \notin DOMAIN tokens
      BY <1>1, <3>1, <3>2, TokensKept, NewTokenApart
    <3>4. tokens' = tokens \/ tokens' = Append(tokens, Token("reset", NoCourse))
      BY <3>2 DEF Issue
    <3> QED
      BY <1>1, <3>1, <3>3, <3>4 DEF Close
  <2>2. ASSUME NEW r \in Request, JoinUnverified(r)
        PROVE  req[r].step = "join" /\ req'[r] = Idle /\ i \notin DOMAIN req[r].seen
    <3>1. /\ req[r].step = "join" /\ req[r] \in Slot /\ req'[r] = Idle
          /\ Issue(req[r].seen, "verify", req[r].course) /\ UNCHANGED now
          /\ "verify" \in Purpose
      BY <1>1, <2>2 DEF JoinUnverified, Finish, Purpose, AccountInv, TypeOK
    <3>2. /\ req[r].course \in Course /\ req[r].seen \in Seq(TokenRow)
          /\ Older(req[r].seen, tokens)
      BY <1>1, <3>1, Steps DEF AccountInv, SeenKept
    <3> QED
      BY <1>1, <3>1, <3>2, NewTokenApart
  <2>3. DOMAIN tokens' # DOMAIN tokens
    BY <1>1
  <2> QED
    BY <1>1, <2>1, <2>2, <2>3 DEF Next, Arrive, Admit, JoinCheck, JoinSession, Refuse,
       ResetPassword, VerifyEmail, Login, Logout, Tick, vars, account
<1>2. AccountInv /\ [Next]_vars => [Apart]_vars
  BY <1>1
<1> QED
  BY <1>2, Invariance, PTL DEF Spec, TokensApart
=============================================================================
