SPECIFICATION Spec
CONSTANTS
  NumCases = 3
  Report <- MCReport
INVARIANTS FailurePriority CreditIsEarned RetryFollowsLastFailure
CHECK_DEADLOCK FALSE
