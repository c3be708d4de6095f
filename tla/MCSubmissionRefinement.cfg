SPECIFICATION FairSpec
CONSTANTS
  Worker = {"w1", "w2"}
  NumSubmissions = 1
  NumCases = 2
  Practice = {}
  SandboxCodes = {3, 4, 13}
  LEASE = 1
  RUN_LIMIT = 1
  MaxPollAge = 1
  MaxCrashes = 1
  MaxStalls = 1
PROPERTIES GradingPromise EverySubmissionEnds
