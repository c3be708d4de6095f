SPECIFICATION Spec
CONSTANTS
  Course = {c1, c2}
  NoCourse = NoCourse
  Request = {r1, r2}
  Cooldown = 1
  Lifetime <- MCLifetime
  SessionDays = 3
  Window = 2
  Limit = 2
  MaxTime = 3
  MaxTokens = 3
  MaxSessions = 2
  MaxPassword = 2
  MaxArrivals = 3
SYMMETRY Symmetric
INVARIANT ResetEndsAccess
PROPERTIES TokensApart WindowHolds
CHECK_DEADLOCK FALSE
