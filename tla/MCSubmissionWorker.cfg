SPECIFICATION Spec
CONSTANTS
  w1 = w1
  w2 = w2
  Worker = {w1, w2}
  NumSubmissions = 2
  NumCases = 2
  Practice = {2}
  SandboxCodes = {3}
  LEASE = 1
  RUN_LIMIT = 1
  MaxPollAge = 1
  MaxCrashes = 1
  MaxStalls = 1
SYMMETRY WorkerSymmetry
INVARIANTS IInv AtMostOnce GradesAreObserved VerdictMatchesCases CountedOnce PromptWorkerKeepsClaim
PROPERTIES OnlyOwnerWrites VerdictFinal
