--------------------------- MODULE FeedbackProofs ---------------------------
(***************************************************************************)
(* Proofs about the two components that tell a student something about a   *)
(* graded attempt.                                                         *)
(*                                                                         *)
(* ComplexityQueue, for any set of workers, submissions and labels and any *)
(* number of attempts, crashes and outlasted leases: as long as no claim   *)
(* of a row was taken over, one worker at most works on it, and the        *)
(* instance its session has loaded is the row as it is.                    *)
(*                                                                         *)
(* Advisor, for any catalogs that satisfy its assumption and any history   *)
(* of attempts: the Trail and the recommendations agree.                   *)
(***************************************************************************)
EXTENDS ComplexityQueue, Advisor, WellFoundedInduction, TLAPS

USE ComplexityAssumption

WorksOn(w, s) == task[w] # Idle /\ task[w].sub = s

OneWorker(s) ==
  \A v, w \in Worker : WorksOn(v, s) /\ WorksOn(w, s) => v = w

\* What Store compares with is what the row holds.
LoadedIsCurrent(s) ==
  \A w \in Worker : WorksOn(w, s) =>
    /\ rows[s].status = "processing"
    /\ task[w].loaded.error = rows[s].error
    /\ task[w].loaded.estimate = rows[s].estimate

HoldsTheAnswer(s) ==
  \A w \in Worker :
    WorksOn(w, s) /\ task[w].step = "store" /\ task[w].error = "none"
      => task[w].estimate = answer[s]

WaitsInQueue(s) == ~rows[s].due => rows[s].status = "queued"

CompleteIsAnswered(s) ==
  rows[s].status = "complete" => rows[s].estimate = answer[s] /\ rows[s].error = "none"

Undisturbed(s) ==
  /\ OneWorker(s) /\ LoadedIsCurrent(s) /\ HoldsTheAnswer(s)
  /\ WaitsInQueue(s) /\ CompleteIsAnswered(s)

QueueInv ==
  /\ TypeOK
  /\ \A s \in Submission : takeovers[s] = 0 => Undisturbed(s)

-----------------------------------------------------------------------------
LEMMA RecordTypes ==
  /\ Unasked \in Estimate
  /\ Absent \in Analysis
  /\ Idle.step = "idle"
  /\ \A t \in Task : t.step \in {"idle", "ask", "store"} /\ (t = Idle <=> t.step = "idle")
BY DEF Unasked, Estimate, Absent, Analysis, Idle, Task, Status, ErrorCode

LEMMA InitQueueInv == Init => QueueInv
<1> SUFFICES ASSUME Init PROVE QueueInv
  OBVIOUS
<1>1. TypeOK
  BY RecordTypes DEF Init, TypeOK, Task
<1>2. ASSUME NEW s \in Submission PROVE Undisturbed(s)
  BY DEF Init, Undisturbed, OneWorker, LoadedIsCurrent, HoldsTheAnswer, WaitsInQueue,
    CompleteIsAnswered, WorksOn, Absent
<1> QED
  BY <1>1, <1>2 DEF QueueInv

\* A step that leaves the workers, the answers and what a row says alone.
LEMMA UndisturbedKept ==
  ASSUME NEW s \in Submission, Undisturbed(s), UNCHANGED <<task, answer>>,
         rows'[s].status = rows[s].status, rows'[s].error = rows[s].error,
         rows'[s].estimate = rows[s].estimate, rows[s].due => rows'[s].due
  PROVE  Undisturbed(s)'
BY DEF Undisturbed, OneWorker, LoadedIsCurrent, HoldsTheAnswer, WaitsInQueue,
  CompleteIsAnswered, WorksOn

LEMMA QueueAnalysisInv ==
  ASSUME QueueInv, NEW s \in Submission, QueueAnalysis(s)
  PROVE  QueueInv'
<1>1. TypeOK'
  BY DEF QueueInv, TypeOK, QueueAnalysis, Analysis, Status
<1>2. ASSUME NEW u \in Submission, takeovers'[u] = 0 PROVE Undisturbed(u)'
  <2>1. Undisturbed(u)
    BY <1>2 DEF QueueInv, QueueAnalysis
  <2>2. CASE u = s
    BY <2>1, <2>2 DEF QueueInv, TypeOK, QueueAnalysis, Undisturbed, OneWorker,
      LoadedIsCurrent, HoldsTheAnswer, WaitsInQueue, CompleteIsAnswered, WorksOn, Analysis
  <2>3. CASE u # s
    <3>1. rows'[u] = rows[u]
      BY <2>3 DEF QueueInv, TypeOK, QueueAnalysis
    <3> QED
      BY <2>1, <3>1, UndisturbedKept DEF QueueAnalysis
  <2> QED
    BY <2>2, <2>3
<1> QED
  BY <1>1, <1>2 DEF QueueInv

LEMMA CompleteSubmissionInv ==
  ASSUME QueueInv, NEW s \in Submission, CompleteSubmission(s)
  PROVE  QueueInv'
<1>1. TypeOK'
  BY DEF QueueInv, TypeOK, CompleteSubmission, Task
<1>2. ASSUME NEW u \in Submission, takeovers'[u] = 0 PROVE Undisturbed(u)'
  BY <1>2, UndisturbedKept DEF QueueInv, CompleteSubmission
<1> QED
  BY <1>1, <1>2 DEF QueueInv

LEMMA BackoffEndsInv ==
  ASSUME QueueInv, NEW s \in Submission, BackoffEnds(s)
  PROVE  QueueInv'
<1>1. TypeOK'
  BY DEF QueueInv, TypeOK, BackoffEnds, Analysis
<1>2. ASSUME NEW u \in Submission, takeovers'[u] = 0 PROVE Undisturbed(u)'
  <2>1. /\ rows'[u].status = rows[u].status /\ rows'[u].error = rows[u].error
        /\ rows'[u].estimate = rows[u].estimate /\ (rows[u].due => rows'[u].due)
    BY DEF QueueInv, TypeOK, BackoffEnds, Analysis
  <2> QED
    BY <1>2, <2>1, UndisturbedKept DEF QueueInv, BackoffEnds
<1> QED
  BY <1>1, <1>2 DEF QueueInv

LEMMA LeaseExpiresInv ==
  ASSUME QueueInv, NEW s \in Submission, LeaseExpires(s)
  PROVE  QueueInv'
<1>1. TypeOK'
  BY DEF QueueInv, TypeOK, LeaseExpires, Analysis
<1>2. ASSUME NEW u \in Submission, takeovers'[u] = 0 PROVE Undisturbed(u)'
  <2>1. /\ rows'[u].status = rows[u].status /\ rows'[u].error = rows[u].error
        /\ rows'[u].estimate = rows[u].estimate /\ (rows[u].due => rows'[u].due)
    BY DEF QueueInv, TypeOK, LeaseExpires, Analysis
  <2> QED
    BY <1>2, <2>1, UndisturbedKept DEF QueueInv, LeaseExpires
<1> QED
  BY <1>1, <1>2 DEF QueueInv

LEMMA ClaimInv ==
  ASSUME QueueInv, NEW w \in Worker, ClaimAnalysis(w)
  PROVE  QueueInv'
<1>1. PICK s \in Submission :
        /\ task[w] = Idle /\ Claimable(s)
        /\ rows' = [rows EXCEPT ![s].status = "processing", ![s].lease = "held",
                                ![s].attempts = @ + 1]
        /\ task' = [task EXCEPT ![w] = [step |-> "ask", sub |-> s, loaded |-> rows'[s]]]
        /\ takeovers' = [takeovers EXCEPT ![s] =
             IF rows[s].status = "processing" THEN @ + 1 ELSE @]
        /\ UNCHANGED <<graded, oversized, crashes, stalls, answer>>
  BY DEF ClaimAnalysis
<1>2. /\ rows' \in [Submission -> Analysis]
      /\ rows'[s] = [rows[s] EXCEPT !.status = "processing", !.lease = "held",
                                    !.attempts = @ + 1]
      /\ \A u \in Submission \ {s} : rows'[u] = rows[u]
  BY <1>1 DEF QueueInv, TypeOK, Analysis, Status
<1>3. /\ task' \in [Worker -> Task]
      /\ task'[w] = [step |-> "ask", sub |-> s, loaded |-> rows'[s]]
      /\ \A v \in Worker \ {w} : task'[v] = task[v]
  <2>1. [step |-> "ask", sub |-> s, loaded |-> rows'[s]] \in Task
    BY <1>2 DEF Task
  <2> QED
    BY <1>1, <2>1 DEF QueueInv, TypeOK
<1>4. TypeOK'
  BY <1>1, <1>2, <1>3 DEF QueueInv, TypeOK
<1>5. ASSUME NEW u \in Submission, takeovers'[u] = 0 PROVE Undisturbed(u)'
  <2>1. takeovers[u] = 0 /\ (u = s => rows[s].status = "queued")
    BY <1>1, <1>5 DEF QueueInv, TypeOK, Claimable
  <2>2. Undisturbed(u)
    BY <2>1 DEF QueueInv
  <2>3. CASE u = s
    <3>1. \A v \in Worker : ~WorksOn(v, s)
      BY <2>1, <2>2, <2>3 DEF Undisturbed, LoadedIsCurrent
    <3>2. \A v \in Worker : WorksOn(v, s)' => v = w
      BY <1>3, <3>1 DEF WorksOn
    <3>3. OneWorker(s)' /\ LoadedIsCurrent(s)' /\ HoldsTheAnswer(s)'
      <4>1. rows'[s].status = "processing"
        BY <1>2 DEF QueueInv, TypeOK, Analysis
      <4>2. task'[w].loaded = rows'[s] /\ task'[w].step = "ask"
        BY <1>3
      <4> QED
        BY <3>2, <4>1, <4>2 DEF OneWorker, LoadedIsCurrent, HoldsTheAnswer
    <3>4. WaitsInQueue(s)' /\ CompleteIsAnswered(s)'
      BY <1>1, <1>2 DEF WaitsInQueue, CompleteIsAnswered, Claimable, QueueInv, TypeOK, Analysis
    <3> QED
      BY <2>3, <3>3, <3>4 DEF Undisturbed
  <2>4. CASE u # s
    <3>1. \A v \in Worker : WorksOn(v, u)' <=> WorksOn(v, u) /\ v # w
      BY <1>1, <1>3, <2>4, RecordTypes DEF WorksOn, Idle
    <3>2. OneWorker(u)' /\ LoadedIsCurrent(u)' /\ HoldsTheAnswer(u)'
      BY <1>1, <1>2, <1>3, <2>2, <2>4, <3>1 DEF Undisturbed, OneWorker, LoadedIsCurrent,
        HoldsTheAnswer
    <3>3. WaitsInQueue(u)' /\ CompleteIsAnswered(u)'
      BY <1>1, <1>2, <2>2, <2>4 DEF Undisturbed, WaitsInQueue, CompleteIsAnswered
    <3> QED
      BY <3>2, <3>3 DEF Undisturbed
  <2> QED
    BY <2>3, <2>4
<1> QED
  BY <1>4, <1>5 DEF QueueInv

LEMMA AskInv ==
  ASSUME QueueInv, NEW w \in Worker, Ask(w)
  PROVE  QueueInv'
<1> DEFINE s == task[w].sub
<1>1. s \in Submission /\ WorksOn(w, s) /\ task[w].loaded \in Analysis
  BY RecordTypes DEF QueueInv, TypeOK, Ask, Task, WorksOn, Idle
<1>2. PICK error \in ErrorCode, time \in Label, space \in Label :
        /\ task' = [task EXCEPT ![w] =
             [step |-> "store", sub |-> s, loaded |-> task[w].loaded, error |-> error,
              estimate |-> IF error = "none" THEN [time |-> time, space |-> space]
                           ELSE Unasked]]
        /\ answer' = IF error = "none"
                     THEN [answer EXCEPT ![s] = [time |-> time, space |-> space]] ELSE answer
  BY DEF Ask, ErrorCode
<1>3. [time |-> time, space |-> space] \in Estimate
  BY DEF Estimate
<1>4. /\ task' \in [Worker -> Task] /\ \A v \in Worker \ {w} : task'[v] = task[v]
      /\ task'[w].step = "store" /\ task'[w] # Idle
      /\ task'[w].sub = s /\ task'[w].loaded = task[w].loaded
      /\ task'[w].error = error
      /\ error = "none" => task'[w].estimate = [time |-> time, space |-> space]
  <2> DEFINE t == [step |-> "store", sub |-> s, loaded |-> task[w].loaded, error |-> error,
                   estimate |-> IF error = "none" THEN [time |-> time, space |-> space]
                                ELSE Unasked]
  <2>1. t \in Task
    BY <1>1, <1>3, RecordTypes DEF Task
  <2> HIDE DEF s
  <2> QED
    BY <1>2, <2>1, RecordTypes DEF QueueInv, TypeOK, Idle
<1>5. /\ answer' \in [Submission -> Estimate]
      /\ \A u \in Submission \ {s} : answer'[u] = answer[u]
      /\ error = "none" => answer'[s] = [time |-> time, space |-> space]
  BY <1>1, <1>2, <1>3 DEF QueueInv, TypeOK
<1> HIDE DEF s
<1>6. TypeOK'
  BY <1>4, <1>5 DEF QueueInv, TypeOK, Ask
<1>7. ASSUME NEW u \in Submission, takeovers'[u] = 0 PROVE Undisturbed(u)'
  <2>1. Undisturbed(u) /\ rows' = rows
    BY <1>7 DEF QueueInv, Ask
  <2>2. \A v \in Worker : WorksOn(v, u)' <=> WorksOn(v, u)
    BY <1>1, <1>4 DEF WorksOn, s
  <2>3. OneWorker(u)' /\ LoadedIsCurrent(u)' /\ WaitsInQueue(u)'
    BY <1>4, <2>1, <2>2 DEF Undisturbed, OneWorker, LoadedIsCurrent, WaitsInQueue
  <2>4. HoldsTheAnswer(u)'
    <3>1. CASE u = s
      <4>1. \A v \in Worker : WorksOn(v, s) => v = w
        BY <1>1, <2>1, <3>1 DEF Undisturbed, OneWorker
      <4> QED
        BY <1>4, <1>5, <2>2, <3>1, <4>1 DEF HoldsTheAnswer
    <3>2. CASE u # s
      BY <1>4, <1>5, <2>1, <2>2, <3>2 DEF Undisturbed, HoldsTheAnswer, WorksOn
    <3> QED
      BY <3>1, <3>2
  <2>5. CompleteIsAnswered(u)'
    <3>1. u = s => rows[u].status # "complete"
      BY <1>1, <2>1 DEF Undisturbed, LoadedIsCurrent
    <3> QED
      BY <1>5, <2>1, <3>1 DEF Undisturbed, CompleteIsAnswered
  <2> QED
    BY <2>3, <2>4, <2>5 DEF Undisturbed
<1> QED
  BY <1>6, <1>7 DEF QueueInv

\* A worker that goes idle leaves the others as they were.
LEMMA GoesIdleKept ==
  ASSUME QueueInv, NEW w \in Worker, task' = [task EXCEPT ![w] = Idle],
         NEW s \in Submission, OneWorker(s)
  PROVE  /\ task' \in [Worker -> Task]
         /\ \A v \in Worker : WorksOn(v, s)' <=> WorksOn(v, s) /\ v # w
         /\ \A v \in Worker \ {w} : task'[v] = task[v]
         /\ OneWorker(s)'
BY DEF QueueInv, TypeOK, Task, WorksOn, OneWorker

LEMMA CrashInv ==
  ASSUME QueueInv, NEW w \in Worker, Crash(w)
  PROVE  QueueInv'
<1>1. TypeOK'
  BY DEF QueueInv, TypeOK, Crash, Task
<1>2. ASSUME NEW u \in Submission, takeovers'[u] = 0 PROVE Undisturbed(u)'
  <2>1. Undisturbed(u) /\ UNCHANGED <<rows, answer>>
    BY <1>2 DEF QueueInv, Crash
  <2>2. /\ \A v \in Worker : WorksOn(v, u)' <=> WorksOn(v, u) /\ v # w
        /\ \A v \in Worker \ {w} : task'[v] = task[v]
        /\ OneWorker(u)'
    BY <2>1, GoesIdleKept DEF Crash, Undisturbed
  <2> QED
    BY <2>1, <2>2 DEF Undisturbed, LoadedIsCurrent, HoldsTheAnswer, WaitsInQueue,
      CompleteIsAnswered
<1> QED
  BY <1>1, <1>2 DEF QueueInv

LEMMA StoreTypes ==
  ASSUME NEW row \in Analysis, NEW mine \in Task, mine.step = "store"
  PROVE  /\ mine.sub \in Submission
         /\ Succeeded(row, mine) \in Analysis
         /\ Failed(row, mine) \in Analysis
<1>1. /\ mine.sub \in Submission /\ mine.loaded \in Analysis /\ mine.error \in ErrorCode
      /\ mine.estimate \in Estimate
  BY DEF Task, Idle
<1>3. Succeeded(row, mine) \in Analysis
  <2>1. Flushed(mine.loaded.error, "none", row.error) \in ErrorCode
    BY DEF Flushed, Analysis, ErrorCode
  <2>2. [time |-> Flushed(mine.loaded.estimate.time, mine.estimate.time, row.estimate.time),
         space |-> Flushed(mine.loaded.estimate.space, mine.estimate.space,
                           row.estimate.space)] \in Estimate
    BY <1>1 DEF Flushed, Analysis, Estimate
  <2> QED
    BY <2>1, <2>2 DEF Succeeded, Analysis, Status
<1>4. Failed(row, mine) \in Analysis
  <2>1. Flushed(mine.loaded.error, mine.error, row.error) \in ErrorCode
    BY <1>1 DEF Flushed, Analysis
  <2> QED
    BY <2>1 DEF Failed, Analysis, Status
<1> QED
  BY <1>1, <1>3, <1>4

\* A worker that has loaded the row as it is replaces both labels and the error.
LEMMA SucceededFields ==
  ASSUME NEW row \in Analysis, NEW mine, mine.loaded.error = row.error,
         mine.loaded.estimate = row.estimate
  PROVE  /\ Succeeded(row, mine).error = "none"
         /\ Succeeded(row, mine).due = row.due
         /\ Succeeded(row, mine).estimate =
              [time |-> mine.estimate.time, space |-> mine.estimate.space]
<1>1. /\ Flushed(mine.loaded.error, "none", row.error) = "none"
      /\ \A new : Flushed(mine.loaded.estimate.time, new, row.estimate.time) = new
      /\ \A new : Flushed(mine.loaded.estimate.space, new, row.estimate.space) = new
  BY DEF Flushed
<1> QED
  BY <1>1 DEF Succeeded, Analysis

LEMMA StoreInv ==
  ASSUME QueueInv, NEW w \in Worker, Store(w)
  PROVE  QueueInv'
<1> DEFINE s == task[w].sub
           mine == task[w]
<1>1. /\ s \in Submission /\ WorksOn(w, s) /\ mine \in Task /\ mine.step = "store"
      /\ rows[s] \in Analysis /\ mine.estimate \in Estimate
      /\ mine.error \in ErrorCode
  BY RecordTypes DEF QueueInv, TypeOK, Store, Task, WorksOn, Idle
<1>2. /\ rows'[s] = IF mine.error = "none" THEN Succeeded(rows[s], mine)
                    ELSE Failed(rows[s], mine)
      /\ \A u \in Submission \ {s} : rows'[u] = rows[u]
      /\ rows' \in [Submission -> Analysis]
  BY <1>1, StoreTypes DEF QueueInv, TypeOK, Store
<1>3. TypeOK'
  BY <1>2 DEF QueueInv, TypeOK, Store, Task
<1>4. ASSUME NEW u \in Submission, takeovers'[u] = 0 PROVE Undisturbed(u)'
  <2>1. Undisturbed(u) /\ answer' = answer
    BY <1>4 DEF QueueInv, Store
  <2>2. /\ \A v \in Worker : WorksOn(v, u)' <=> WorksOn(v, u) /\ v # w
        /\ \A v \in Worker \ {w} : task'[v] = task[v]
        /\ OneWorker(u)'
    BY <2>1, GoesIdleKept DEF Store, Undisturbed
  <2>3. HoldsTheAnswer(u)'
    BY <2>1, <2>2 DEF Undisturbed, HoldsTheAnswer
  <2>4. CASE u # s
    <3>1. rows'[u] = rows[u]
      BY <1>2, <2>4
    <3> QED
      BY <2>1, <2>2, <2>3, <3>1 DEF Undisturbed, LoadedIsCurrent, WaitsInQueue,
        CompleteIsAnswered
  <2>5. CASE u = s
    <3>1. \A v \in Worker : ~WorksOn(v, u)'
      BY <1>1, <2>1, <2>2, <2>5 DEF Undisturbed, OneWorker
    <3>2. LoadedIsCurrent(u)'
      BY <3>1 DEF LoadedIsCurrent
    <3>3. /\ rows[s].due /\ mine.loaded.error = rows[s].error
          /\ mine.loaded.estimate = rows[s].estimate
      BY <1>1, <2>1, <2>5 DEF Undisturbed, LoadedIsCurrent, WaitsInQueue
    <3>4. CASE mine.error = "none"
      <4>1. mine.estimate = answer[u]
        BY <1>1, <2>1, <2>5, <3>4 DEF Undisturbed, HoldsTheAnswer
      <4>2. /\ rows'[u].error = "none" /\ rows'[u].due
            /\ rows'[u].estimate = [time |-> mine.estimate.time, space |-> mine.estimate.space]
        <5>1. rows'[u] = Succeeded(rows[s], mine)
          BY <1>2, <2>5, <3>4
        <5> HIDE DEF s, mine
        <5> QED
          BY <1>1, <3>3, <5>1, SucceededFields
      <4>3. rows'[u].estimate = answer[u]
        <5>1. \A e \in Estimate : e = [time |-> e.time, space |-> e.space]
          BY DEF Estimate
        <5> QED
          BY <1>1, <4>1, <4>2, <5>1
      <4> QED
        BY <2>1, <2>2, <2>3, <3>2, <4>2, <4>3 DEF Undisturbed, WaitsInQueue,
          CompleteIsAnswered
    <3>5. CASE mine.error # "none"
      <4>1. /\ rows'[u].status \in {"queued", "failed"}
            /\ ~rows'[u].due => rows'[u].status = "queued"
        BY <1>1, <1>2, <2>5, <3>3, <3>5 DEF Failed, Analysis
      <4> QED
        BY <2>2, <2>3, <3>2, <4>1 DEF Undisturbed, WaitsInQueue, CompleteIsAnswered
    <3> QED
      BY <3>4, <3>5
  <2> QED
    BY <2>4, <2>5
<1> QED
  BY <1>3, <1>4 DEF QueueInv

-----------------------------------------------------------------------------
\* The invariant holds of every reachable state.
THEOREM Invariance == Spec => []QueueInv
<1>1. QueueInv /\ [Next]_vars => QueueInv'
  <2> SUFFICES ASSUME QueueInv, [Next]_vars PROVE QueueInv'
    OBVIOUS
  <2>1. ASSUME NEW s \in Submission,
               QueueAnalysis(s) \/ CompleteSubmission(s) \/ BackoffEnds(s) \/ LeaseExpires(s)
        PROVE  QueueInv'
    BY <2>1, QueueAnalysisInv, CompleteSubmissionInv, BackoffEndsInv, LeaseExpiresInv
  <2>2. ASSUME NEW w \in Worker, ClaimAnalysis(w) \/ Ask(w) \/ Store(w) \/ Crash(w)
        PROVE  QueueInv'
    BY <2>2, ClaimInv, AskInv, StoreInv, CrashInv
  <2>3. CASE UNCHANGED vars
    <3>1. TypeOK'
      BY <2>3 DEF vars, QueueInv, TypeOK, Task
    <3>2. ASSUME NEW u \in Submission, takeovers'[u] = 0 PROVE Undisturbed(u)'
      BY <2>3, <3>2, UndisturbedKept DEF vars, QueueInv
    <3> QED
      BY <3>1, <3>2 DEF QueueInv
  <2> QED
    BY <2>1, <2>2, <2>3 DEF Next
<1> QED
  BY <1>1, InitQueueInv, PTL DEF Spec

\* CompleteIsTheAnswer: unless a claim was taken over, what process_analysis has
\* stored is one answer of the model, without an error of an earlier attempt.
THEOREM ShowsOneAnswer == Spec => []CompleteIsTheAnswer
<1>1. QueueInv => CompleteIsTheAnswer
  BY DEF QueueInv, Undisturbed, CompleteIsAnswered, CompleteIsTheAnswer
<1> QED
  BY <1>1, Invariance, PTL

\* FinishedStays: only a claim that was taken over lets process_analysis write to
\* an analysis that is complete or has failed.
THEOREM StaysFinished == Spec => FinishedStays
<1> DEFINE Stays == \A s \in Submission :
                      /\ rows[s].status \in {"complete", "failed"}
                      /\ rows'[s] # rows[s]
                      => takeovers[s] > 0
<1>1. ASSUME QueueInv, [Next]_vars, NEW s \in Submission,
             rows[s].status \in {"complete", "failed"}, takeovers[s] = 0
      PROVE  rows'[s] = rows[s]
  <2>1. /\ \A w \in Worker : ~WorksOn(w, s)
        /\ rows[s].due
    BY <1>1 DEF QueueInv, Undisturbed, LoadedIsCurrent, WaitsInQueue
  <2>2. ASSUME NEW u \in Submission,
               QueueAnalysis(u) \/ CompleteSubmission(u) \/ BackoffEnds(u) \/ LeaseExpires(u)
        PROVE  rows'[s] = rows[s]
    BY <1>1, <2>1, <2>2 DEF QueueInv, TypeOK, QueueAnalysis, CompleteSubmission, BackoffEnds,
      LeaseExpires
  <2>3. ASSUME NEW w \in Worker, ClaimAnalysis(w) PROVE rows'[s] = rows[s]
    BY <1>1, <2>3 DEF QueueInv, TypeOK, ClaimAnalysis, Claimable
  <2>4. ASSUME NEW w \in Worker, Ask(w) \/ Crash(w) PROVE rows'[s] = rows[s]
    BY <2>4 DEF Ask, Crash
  <2>5. ASSUME NEW w \in Worker, Store(w) PROVE rows'[s] = rows[s]
    <3>1. task[w].sub # s
      BY <2>1, <2>5, RecordTypes DEF WorksOn, Store, QueueInv, TypeOK, Idle
    <3> QED
      BY <1>1, <2>5, <3>1 DEF Store, QueueInv, TypeOK
  <2>6. CASE UNCHANGED vars
    BY <2>6 DEF vars
  <2> QED
    BY <1>1, <2>2, <2>3, <2>4, <2>5, <2>6 DEF Next
<1>2. QueueInv /\ [Next]_vars => [Stays]_vars
  BY <1>1 DEF QueueInv, TypeOK
<1> QED
  BY <1>2, Invariance, PTL DEF Spec, FinishedStays
-----------------------------------------------------------------------------
(* The Trail and the recommendations.                                      *)

\* The table lists a pool after those it builds on.
LEMMA TableOrdered ==
  ASSUME NEW k \in Pool, NEW j \in Prerequisites[k]
  PROVE  j \in Pool /\ j < k
<1>1. Pool = 1..18
  BY DEF Pool, TECHNIQUE_POOLS
<1>2. j \in Pool /\ TECHNIQUE_POOLS[j].slug \in TECHNIQUE_POOLS[k].after
  BY DEF Prerequisites
<1>3. CASE k \in 1..4
  BY <1>1, <1>2, <1>3 DEF TECHNIQUE_POOLS, Step, Foundation
<1>4. CASE k \in 5..8
  BY <1>1, <1>2, <1>4 DEF TECHNIQUE_POOLS, Step, Foundation
<1>5. CASE k \in 9..12
  BY <1>1, <1>2, <1>5 DEF TECHNIQUE_POOLS, Step, Foundation
<1>6. CASE k \in 13..18
  BY <1>1, <1>2, <1>6 DEF TECHNIQUE_POOLS, Step, Foundation
<1> QED
  BY <1>1, <1>3, <1>4, <1>5, <1>6

\* Of the pools with something to solve the first in the table is ready.
LEMMA SomePoolReady ==
  ASSUME nodes \in Curricula, NEW k0 \in Pool, Candidates(k0) # {}
  PROVE  Ready # {}
<1> DEFINE Left == {k \in Pool : Candidates(k) # {}}
<1>1. Pool \subseteq Nat
  BY DEF Pool, TECHNIQUE_POOLS
<1>2. PICK k \in Left : \A j \in Left : ~(j < k)
  <2>1. Left \subseteq Nat /\ Left # {}
    BY <1>1
  <2>2. PICK k \in Left : \A j \in Left : <<j, k>> \notin OpToRel(<, Nat)
    BY <2>1, NatLessThanWellFounded, WFMin
  <2> QED
    BY <2>1, <2>2 DEF OpToRel
<1>3. k \in Pool /\ Candidates(k) # {}
  OBVIOUS
<1>4. ASSUME NEW j \in Prerequisites[k]
      PROVE  Completed(j) # {}
  <2>1. j \in Pool /\ j < k
    BY <1>3, <1>4, TableOrdered
  <2>2. Candidates(j) = {}
    BY <1>2, <2>1
  <2>3. InPool(j) # {}
    BY <1>3, <1>4, <2>1, AdvisorAssumption DEF Candidates, InPool, Listed
  <2> QED
    BY <2>2, <2>3 DEF Candidates
<1> QED
  BY <1>3, <1>4 DEF Ready

\* An open pool recommends a problem as long as it has one to attempt.
LEMMA RecommendedMeaning ==
  ASSUME NEW k \in Pool
  PROVE  Recommended(k) # {} <=>
           /\ Opened(k)
           /\ WithStatus(k, "attempted") # {} \/ WithStatus(k, "not_started") # {}
BY DEF Recommended, Least

\* A problem completed in practice is passed; what is not is still a candidate,
\* unless an assignment passed it.
LEMMA StatusMeaning ==
  ASSUME NEW k
  PROVE  /\ WithStatus(k, "completed") \subseteq Completed(k)
         /\ (\A i \in DOMAIN log : log[i].practice) =>
              /\ WithStatus(k, "completed") = Completed(k)
              /\ WithStatus(k, "attempted") \cup WithStatus(k, "not_started") = Candidates(k)
<1>1. \A p : ProblemStatus(p) \in {"completed", "attempted", "not_started"}
  BY DEF ProblemStatus
<1>2. \A p : ProblemStatus(p) = "completed" => Passed(p)
  BY DEF ProblemStatus, Passed, PracticeOn
<1>3. (\A i \in DOMAIN log : log[i].practice) =>
        \A p : ProblemStatus(p) = "completed" <=> Passed(p)
  BY DEF ProblemStatus, Passed, PracticeOn, AttemptsOn
<1> QED
  BY <1>1, <1>2, <1>3 DEF WithStatus, Completed, Candidates

\* Where the Trail recommends, the prerequisites are solved for both services.
LEMMA MarkedIsReady ==
  ASSUME NEW k \in Pool, Recommended(k) # {}
  PROVE  k \in Ready \/ Candidates(k) = {}
<1>1. \A j \in Prerequisites[k] : Completed(j) # {}
  BY RecommendedMeaning, StatusMeaning DEF Opened
<1> QED
  BY <1>1 DEF Ready

\* Without assignments the Trail recommends in the pools that are ready.
LEMMA ReadyIsMarked ==
  ASSUME NEW k \in Pool, \A i \in DOMAIN log : log[i].practice
  PROVE  Recommended(k) # {} <=> k \in Ready
<1>1. Opened(k) <=> \A j \in Prerequisites[k] : Completed(j) # {}
  BY StatusMeaning DEF Opened
<1>2. Candidates(k) # {} <=>
        WithStatus(k, "attempted") # {} \/ WithStatus(k, "not_started") # {}
  BY StatusMeaning
<1> QED
  BY <1>1, <1>2, RecommendedMeaning DEF Ready

\* Nothing is advised outside the pools that are ready.
LEMMA NoAdvice == Ready = {} => Advice = <<>>
<1> SUFFICES ASSUME Ready = {} PROVE Advice = <<>>
  OBVIOUS
<1>1. RecoveryPools({}) = {}
  BY DEF RecoveryPools
<1>2. /\ StrugglingArea({}) = <<>>
      /\ NextTrailStep({}) = <<>>
      /\ LowCoverage({}) = <<>>
  BY <1>1 DEF StrugglingArea, NextTrailStep, LowCoverage
<1>3. \A f : {} \ {f[i].pool : i \in DOMAIN f} = {}
  OBVIOUS
<1>4. <<>> \o <<>> = <<>>
  OBVIOUS
<1> QED
  BY <1>2, <1>3, <1>4 DEF Advice

\* A concatenation is empty only if both parts are.
LEMMA ConcatEmpty ==
  ASSUME NEW S, NEW s \in Seq(S), NEW t \in Seq(S), s \o t = <<>>
  PROVE  s = <<>> /\ t = <<>>
<1>1. Len(s \o t) = Len(s) + Len(t)
  OBVIOUS
<1> QED
  BY <1>1

\* What is ready is advised: the next step of the Trail, if nothing else.
LEMMA SomeAdvice == Ready # {} => Advice # <<>>
<1> SUFFICES ASSUME Ready # {}, Advice = <<>>
             PROVE  FALSE
  OBVIOUS
<1> DEFINE recovery == StrugglingArea(Ready)
           Left(chosen) == Ready \ {chosen[i].pool : i \in DOMAIN chosen}
           step == NextTrailStep(Left(recovery))
           trail == recovery \o step
           last == LowCoverage(Left(trail))
<1>1. Advice = trail \o last
  BY DEF Advice
<1>2. \A x : <<x>> # <<>>
  OBVIOUS
<1>3. \A S : /\ StrugglingArea(S) = <<>> \/ \E x : StrugglingArea(S) = <<x>>
             /\ S # {} => \E x : NextTrailStep(S) = <<x>>
             /\ NextTrailStep(S) = <<>> \/ \E x : NextTrailStep(S) = <<x>>
             /\ LowCoverage(S) = <<>> \/ \E x : LowCoverage(S) = <<x>>
  BY DEF StrugglingArea, NextTrailStep, LowCoverage, Advise, Least
<1> HIDE DEF Left
<1>4. PICK a : recovery = <<>> \/ recovery = <<a>>
  BY <1>3
<1>5. PICK b : step = <<>> \/ step = <<b>>
  BY <1>3
<1>6. PICK c : last = <<>> \/ last = <<c>>
  BY <1>3
<1> DEFINE X == {a, b, c}
<1>7. recovery \in Seq(X) /\ step \in Seq(X) /\ last \in Seq(X)
  <2>1. <<>> \in Seq(X) /\ <<a>> \in Seq(X) /\ <<b>> \in Seq(X) /\ <<c>> \in Seq(X)
    OBVIOUS
  <2> HIDE DEF recovery, step, last, X
  <2> QED
    BY <1>4, <1>5, <1>6, <2>1
<1>8. recovery = <<>> /\ step = <<>>
  <2> HIDE DEF recovery, step, last, X
  <2>1. trail \in Seq(X)
    BY <1>7
  <2>2. trail \o last = <<>>
    BY <1>1
  <2>3. trail = <<>>
    <3> HIDE DEF trail
    <3> QED
      BY <1>7, <2>1, <2>2, ConcatEmpty
  <2> QED
    BY <1>7, <2>3, ConcatEmpty
<1>9. Left(recovery) = Ready
  BY <1>8 DEF Left
<1>10. \E x : step = <<x>>
  <2>1. step = NextTrailStep(Ready)
    BY <1>9
  <2> QED
    BY <1>3, <2>1
<1> QED
  BY <1>2, <1>8, <1>10

\* An unsolved problem leaves some pool open, so both services have an answer.
LEMMA Agrees == nodes \in Curricula => AgreesWithCurriculum
<1> SUFFICES ASSUME nodes \in Curricula PROVE AgreesWithCurriculum
  OBVIOUS
<1> DEFINE marked == {k \in Pool : Recommended(k) # {}}
<1>1. marked \subseteq Ready \union {k \in Pool : Candidates(k) = {}}
  BY MarkedIsReady
<1>2. ASSUME \A i \in DOMAIN log : log[i].practice
      PROVE  marked = Ready /\ (Advice = <<>> <=> Available = {})
  <2>1. marked = Ready
    BY <1>2, ReadyIsMarked DEF Ready
  <2>2. ASSUME Ready = {} PROVE Available = {}
    <3>1. \A k \in Pool : Candidates(k) = {}
      BY <2>2, SomePoolReady
    <3>2. \A k \in Pool : WithStatus(k, "attempted") = {}
      BY <1>2, <3>1, StatusMeaning
    <3>3. \A k \in Pool : Recommended(k) = {}
      BY <2>1, <2>2
    <3> QED
      BY <3>2, <3>3 DEF Available
  <2>3. ASSUME Ready # {} PROVE Available # {}
    <3>1. PICK k \in Pool : Recommended(k) # {}
      BY <2>1, <2>3
    <3> QED
      BY <3>1 DEF Available
  <2> QED
    BY <2>1, <2>2, <2>3, NoAdvice, SomeAdvice
<1> QED
  BY <1>1, <1>2 DEF AgreesWithCurriculum

\* The two services agree (README.md:209-211), for any catalogs in which a pool with
\* problems has problems in the pools it builds on.
THEOREM TrailAndAdviceAgree == TrailSpec => []AgreesWithCurriculum
<1>1. TrailInit => nodes \in Curricula
  BY DEF TrailInit
<1>2. nodes \in Curricula /\ [TrailNext]_trail_vars => (nodes \in Curricula)'
  BY DEF TrailNext, Tick, ImportCatalog, FollowAdvice, Try, trail_vars
<1>3. nodes \in Curricula => AgreesWithCurriculum
  BY Agrees
<1> QED
  BY <1>1, <1>2, <1>3, PTL DEF TrailSpec
=============================================================================
