SPECIFICATION Spec
CONSTANTS
  w1 = w1
  w2 = w2
  Worker = {w1, w2}
  Submission = {1}
  Label = {"O(1)", "O(n)"}
  MaxAttempts = 3
  MaxCrashes = 2
  MaxStalls = 2
INVARIANT CompleteIsTheAnswer
PROPERTIES FinishedStays EveryAnalysisEnds
CHECK_DEADLOCK FALSE
