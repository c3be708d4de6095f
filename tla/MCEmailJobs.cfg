SPECIFICATION Spec
CONSTANTS
  w1 = w1
  w2 = w2
  Worker = {w1, w2}
  Kinds = {"enrolled"}
  MaxAttempts = 2
  MaxJobs = 2
  MaxEvents = 2
INVARIANTS SentCleanly CallBudget
PROPERTIES EveryJobSettles
CHECK_DEADLOCK FALSE
