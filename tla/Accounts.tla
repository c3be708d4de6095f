------------------------------ MODULE Accounts ------------------------------
(***************************************************************************)
(* One account: its password, the tokens mailed to it for resets and for   *)
(* the courses it joins, its sessions, and the hourly limits on the        *)
(* requests of one address.                                                *)
(*                                                                         *)
(* Logins, resets and verifications lock the user row first, or read the   *)
(* token again behind that lock, and are one action.  A request for a      *)
(* recovery or a join is a sequence of transactions: the throttle, whose   *)
(* clock is read before its row is locked, and then the request itself;    *)
(* a join login reads the course, which fixes its snapshot, before it      *)
(* waits for the locks, and opens its session in a transaction of its own. *)
(***************************************************************************)
EXTENDS Integers, Sequences, FiniteSets

CONSTANTS
  Course,       \* courses whose links are used to sign up, join or log in
  NoCourse,     \* the course_id of a reset token: NULL
  Request,      \* request slots: how many recoveries and joins overlap
  Cooldown,     \* EMAIL_TOKEN_COOLDOWN_SECONDS, in ticks
  Lifetime,     \* of a token: PASSWORD_RESET_MINUTES, EMAIL_VERIFICATION_MINUTES
  SessionDays,  \* SESSION_DAYS, in ticks
  Window,       \* the hour of the throttle, in ticks
  Limit,        \* ACCOUNT_REQUESTS_PER_HOUR
  MaxTime, MaxTokens, MaxSessions, MaxPassword, \* bounds of clock and rows
  MaxArrivals   \* bound: recoveries and joins in all

Purpose == {"reset", "verify"}
Action == {"recovery", "join"}
Time == 0..MaxTime

ASSUME AccountAssumption ==
  /\ NoCourse \notin Course
  /\ Cooldown \in Nat /\ Lifetime \in [Purpose -> Nat] /\ SessionDays \in Nat
  /\ Window \in Nat \ {0} /\ Limit \in Nat \ {0}
  /\ MaxTime \in Nat /\ MaxTokens \in Nat /\ MaxSessions \in Nat
  /\ MaxPassword \in Nat \ {0} /\ MaxArrivals \in Nat

VARIABLES
  now,
  password,   \* password_hash: how often it was set
  verified,   \* email_verified_at is set
  tokens,     \* account_tokens, with the password they were issued under
  sessions,   \* user_sessions not revoked, with the password that was checked and
              \* the one they were opened under
  throttle,   \* account_request_throttles, per action
  req,        \* what a slot is doing, or Idle
  arrivals,
  admitted    \* history: requests admitted since the window of an action began

account == <<password, verified, tokens, sessions>>
vars == <<now, account, throttle, req, arrivals, admitted>>

Idle == [step |-> "idle"]
NoRow == [start |-> 0, count |-> 0, exists |-> FALSE]
Token(purpose, course) ==
  [purpose |-> purpose, course |-> course, at |-> now, used |-> FALSE, password |-> password]

\* The account has just signed up at a course, or was verified long ago.
Init ==
  /\ now = 0 /\ password = 1
  /\ verified \in BOOLEAN
  /\ IF verified THEN tokens = <<>>
     ELSE \E c \in Course : tokens = <<Token("verify", c)>>
  /\ sessions = {}
  /\ arrivals = 0
  /\ throttle = [a \in Action |-> NoRow]
  /\ req = [r \in Request |-> Idle]
  /\ admitted = [a \in Action |-> 0]

-----------------------------------------------------------------------------
(* throttle_account_request, a transaction of its own.                     *)

Arrive(r) ==
  /\ req[r] = Idle
  /\ arrivals < MaxArrivals /\ arrivals' = arrivals + 1
  /\ \E a \in Action : req' = [req EXCEPT ![r] = [step |-> "arrived", action |-> a, at |-> now]]
  /\ UNCHANGED <<now, account, throttle, admitted>>

\* A row that two requests miss is inserted by one; the other waits and reads it.
Restarted(row, at) ==
  IF ~row.exists \/ row.start <= at - Window
  THEN [start |-> at, count |-> 0, exists |-> TRUE] ELSE row

\* Mutant: one request too many.
AdmitsOneMore(row) == row.count <= Limit

Admits(row) == row.count < Limit

\* What follows: a join login reads the tokens before it waits for the locks.
Continue(a, course) ==
  IF a = "join" THEN [step |-> "join", course |-> course, seen |-> tokens]
  ELSE [step |-> "recovery"]

Admit(r) ==
  LET a == req[r].action
      row == Restarted(throttle[a], req[r].at)
      before == IF row = throttle[a] THEN admitted[a] ELSE 0
  IN  /\ req[r].step = "arrived"
      /\ throttle' = [throttle EXCEPT ![a] =
           IF Admits(row) THEN [row EXCEPT !.count = @ + 1] ELSE row]
      /\ admitted' = [admitted EXCEPT ![a] = IF Admits(row) THEN before + 1 ELSE before]
      /\ \E c \in Course : req' = [req EXCEPT ![r] = IF Admits(row) THEN Continue(a, c) ELSE Idle]
      /\ UNCHANGED <<now, account, arrivals>>

-----------------------------------------------------------------------------
(* Tokens.                                                                 *)

\* Mutant: only tokens that were not used count.
RecentUnused(rows, purpose, course) ==
  \E i \in DOMAIN rows :
    /\ rows[i].purpose = purpose /\ rows[i].course = course
    /\ ~rows[i].used /\ rows[i].at > now - Cooldown

\* The plain read of issue_account_token: tokens of one course do not hold back
\* those of another.
Recent(rows, purpose, course) ==
  \E i \in DOMAIN rows :
    /\ rows[i].purpose = purpose /\ rows[i].course = course
    /\ rows[i].at > now - Cooldown

\* issue_account_token, with the tokens the transaction sees.
Issue(seen, purpose, course) ==
  IF Recent(seen, purpose, course) THEN UNCHANGED tokens
  ELSE Len(tokens) < MaxTokens /\ tokens' = Append(tokens, Token(purpose, course))

Finish(r) == req' = [req EXCEPT ![r] = Idle]

\* request_password_reset locks the user before its first plain read.
RequestPasswordReset(r) ==
  /\ req[r].step = "recovery"
  /\ Issue(tokens, "reset", NoCourse)
  /\ Finish(r)
  /\ UNCHANGED <<now, password, verified, sessions, throttle, arrivals, admitted>>

\* _usable_token reads the token again behind the lock of the user.
Usable(i, purpose) ==
  /\ tokens[i].purpose = purpose
  /\ ~tokens[i].used
  /\ tokens[i].at + Lifetime[purpose] > now

\* Mutant: only the token that was presented is used up.
UsedUpOne(i) == {i}

\* The reset tokens of the user, by an UPDATE.
UsedUp(i) == {j \in DOMAIN tokens : tokens[j].purpose = "reset"}

\* reset_password.
ResetPassword ==
  \E i \in DOMAIN tokens :
    /\ Usable(i, "reset")
    /\ password < MaxPassword /\ password' = password + 1
    /\ tokens' = [j \in DOMAIN tokens |->
         [tokens[j] EXCEPT !.used = @ \/ j \in UsedUp(i)]]
    /\ sessions' = {}
    /\ UNCHANGED <<now, verified, throttle, req, arrivals, admitted>>

\* verify_email, without the membership (CourseRoster).
VerifyEmail ==
  \E i \in DOMAIN tokens :
    /\ Usable(i, "verify")
    /\ verified' = TRUE
    /\ tokens' = [tokens EXCEPT ![i].used = TRUE]
    /\ UNCHANGED <<now, password, sessions, throttle, req, arrivals, admitted>>

-----------------------------------------------------------------------------
(* Sessions.                                                               *)

\* create_session, for a password that was checked.
CreateSession(checked, by) ==
  /\ Cardinality(sessions) < MaxSessions
  /\ sessions' = sessions \cup
       {[at |-> now, password |-> checked, under |-> password, by |-> by]}

\* login holds the lock of the user from the check to the commit.
Login ==
  /\ CreateSession(password, "login")
  /\ UNCHANGED <<now, password, verified, tokens, throttle, req, arrivals, admitted>>

\* join_login of an account that is not verified.
JoinUnverified(r) ==
  /\ req[r].step = "join" /\ ~verified
  /\ Issue(req[r].seen, "verify", req[r].course)
  /\ Finish(r)
  /\ UNCHANGED <<now, password, verified, sessions, throttle, arrivals, admitted>>

\* join_login checks the password and commits the membership.
JoinCheck(r) ==
  /\ req[r].step = "join" /\ verified
  /\ req' = [req EXCEPT ![r] = [step |-> "session", checked |-> password]]
  /\ UNCHANGED <<now, account, throttle, arrivals, admitted>>

JoinSession(r) ==
  /\ req[r].step = "session"
  /\ CreateSession(req[r].checked, "join")
  /\ Finish(r)
  /\ UNCHANGED <<now, password, verified, tokens, throttle, arrivals, admitted>>

Logout ==
  \E s \in sessions :
    /\ sessions' = sessions \ {s}
    /\ UNCHANGED <<now, password, verified, tokens, throttle, req, arrivals, admitted>>

\* An error answer, for a wrong password, an archived course or a failed
\* transaction: the session is closed and rolls back what it has not committed.
Refuse(r) ==
  /\ req[r] # Idle
  /\ Finish(r)
  /\ UNCHANGED <<now, account, throttle, arrivals, admitted>>

Tick ==
  /\ now < MaxTime /\ now' = now + 1
  /\ UNCHANGED <<account, throttle, req, arrivals, admitted>>

Next ==
  \/ \E r \in Request :
       \/ Arrive(r) \/ Admit(r) \/ RequestPasswordReset(r)
       \/ JoinUnverified(r) \/ JoinCheck(r) \/ JoinSession(r) \/ Refuse(r)
  \/ ResetPassword \/ VerifyEmail \/ Login \/ Logout \/ Tick

Spec == Init /\ [][Next]_vars

-----------------------------------------------------------------------------
(* Properties.                                                             *)

TokenRow == [purpose : Purpose, course : Course \cup {NoCourse}, at : Time, used : BOOLEAN,
             password : 1..MaxPassword]
SessionRow == [at : Time, password : 1..MaxPassword, under : 1..MaxPassword,
               by : {"login", "join"}]
Slot == {Idle}
  \cup [step : {"arrived"}, action : Action, at : Time]
  \cup [step : {"recovery"}]
  \cup [step : {"join"}, course : Course, seen : Seq(TokenRow)]
  \cup [step : {"session"}, checked : 1..MaxPassword]

TypeOK ==
  /\ now \in Time /\ password \in 1..MaxPassword /\ verified \in BOOLEAN
  /\ tokens \in Seq(TokenRow) /\ sessions \subseteq SessionRow
  /\ throttle \in [Action -> [start : Time, count : 0..Limit, exists : BOOLEAN]]
  /\ req \in [Request -> Slot]
  /\ arrivals \in 0..MaxArrivals /\ admitted \in [Action -> Nat]

\* get_current_user accepts the session.
Accepted(s) == s.at + SessionDays > now

\* A reset of the password ends what was given before: no reset token issued
\* under the old one can be used, and no session opened before the reset is
\* accepted.  A session opened after it has checked the new password, except that
\* of a join login which had checked the old one and opens its session late.
ResetEndsAccess ==
  /\ \A i \in DOMAIN tokens : Usable(i, "reset") => tokens[i].password = password
  /\ \A s \in sessions : Accepted(s) =>
       s.under = password /\ (s.password = password \/ s.by = "join")

\* docs/course-accounts.md:61: two tokens of one purpose and course are a cooldown
\* apart, although the cooldown is checked by a plain read; only a join login that
\* had read the tokens before one was issued may issue another close to it.
Close(i, j) ==
  /\ i < j
  /\ tokens[i].purpose = tokens[j].purpose /\ tokens[i].course = tokens[j].course
  /\ tokens[j].at < tokens[i].at + Cooldown
TokensApart ==
  [][\A i, j \in DOMAIN tokens' :
       j \notin DOMAIN tokens /\ Close(i, j)' =>
         \E r \in Request :
           req[r].step = "join" /\ req'[r] = Idle /\ i \notin DOMAIN req[r].seen]_vars

\* docs/course-accounts.md:59: at most Limit requests are admitted in a window,
\* and two windows begin at least an hour apart, whatever the order in which
\* requests that read the clock earlier get the row.
WindowHolds ==
  [][\A a \in Action :
       /\ admitted'[a] <= Limit
       /\ throttle[a].exists /\ throttle'[a].start # throttle[a].start =>
            throttle'[a].start >= throttle[a].start + Window]_vars
=============================================================================
