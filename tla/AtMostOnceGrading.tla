------------------------ MODULE AtMostOnceGrading ------------------------
(***************************************************************************)
(* What the submission queue promises, without workers, claims or time: a  *)
(* case is begun once, run by the sandbox at most once, and settled once,  *)
(* either with the code of its run or as a failure; the step that settles  *)
(* the last case decides the verdict, for good, from the settled results;  *)
(* and every submission handed in is decided eventually.                   *)
(***************************************************************************)
EXTENDS Naturals, FiniteSets

CONSTANTS
  Submission, Case,
  Codes,      \* what a run can report
  Accepted,   \* the code of a passed case
  Failure,    \* the result of a case that is not graded
  Unset,      \* no result, no code yet
  Open,       \* no verdict yet
  Void        \* the verdict of a submission with a failed case

VARIABLES
  handed_in,  \* the submissions the system has accepted
  phase,      \* of a case: "waiting", "begun" or "settled"
  result,     \* of a case: Unset, Failure or a code
  ran,        \* how often the sandbox ran the case
  code,       \* what the run reported
  verdict     \* of a submission: Open, Void or its number of accepted cases

gvars == <<handed_in, phase, result, ran, code, verdict>>

GInit ==
  /\ handed_in = {}
  /\ phase = [s \in Submission |-> [c \in Case |-> "waiting"]]
  /\ result = [s \in Submission |-> [c \in Case |-> Unset]]
  /\ ran = [s \in Submission |-> [c \in Case |-> 0]]
  /\ code = [s \in Submission |-> [c \in Case |-> Unset]]
  /\ verdict = [s \in Submission |-> Open]

HandIn(s) ==
  /\ s \notin handed_in
  /\ handed_in' = handed_in \cup {s}
  /\ UNCHANGED <<phase, result, ran, code, verdict>>

Begin(s, c) ==
  /\ s \in handed_in
  /\ phase[s][c] = "waiting"
  /\ phase' = [phase EXCEPT ![s][c] = "begun"]
  /\ UNCHANGED <<handed_in, result, ran, code, verdict>>

\* The sandbox may run a case after the queue gave its result up.
Run(s, c, k) ==
  /\ phase[s][c] # "waiting"
  /\ ran[s][c] = 0
  /\ ran' = [ran EXCEPT ![s][c] = 1]
  /\ code' = [code EXCEPT ![s][c] = k]
  /\ UNCHANGED <<handed_in, phase, result, verdict>>

\* The verdict of a submission whose cases have the results f.
Judge(f) ==
  IF \E c \in Case : f[c] = Failure THEN Void
  ELSE Cardinality({c \in Case : f[c] = Accepted})

Settle(s, c, r) ==
  /\ phase[s][c] = "begun"
  /\ r # Failure => ran[s][c] = 1 /\ r = code[s][c]
  /\ phase' = [phase EXCEPT ![s][c] = "settled"]
  /\ result' = [result EXCEPT ![s][c] = r]
  /\ verdict' = [verdict EXCEPT ![s] =
       IF \A d \in Case \ {c} : phase[s][d] = "settled"
       THEN Judge([result[s] EXCEPT ![c] = r]) ELSE Open]
  /\ UNCHANGED <<handed_in, ran, code>>

Advance(s) ==
  \E c \in Case : Begin(s, c) \/ \E r \in Codes \cup {Failure} : Settle(s, c, r)

GNext ==
  \E s \in Submission :
    \/ HandIn(s)
    \/ Advance(s)
    \/ \E c \in Case, k \in Codes : Run(s, c, k)

GSafety == GInit /\ [][GNext]_gvars

GSpec == GSafety /\ \A s \in Submission : WF_gvars(Advance(s))
=============================================================================
