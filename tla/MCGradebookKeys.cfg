SPECIFICATION Spec
CONSTANTS
  Request <- KeysRequest
  Key = {"k1", "k2"}
  KeyOf <- KeysKeyOf
  Body = {1, 2}
  BodyOf <- KeysBodyOf
  Approval = {a1}
  NumSubmissions = 3
  Limit = 2
  FULL = 1
  MaxDay = 1
  MaxEdits = 1
INVARIANTS AttemptLimit SameKeySameAttempt
PROPERTY GradebookPromise
