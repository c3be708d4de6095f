SPECIFICATION Spec
CONSTANTS
  Request = {r1, r2}
  Key = {r1, r2}
  KeyOf <- GradesKeyOf
  Body = {1}
  BodyOf <- GradesBodyOf
  Approval = {a1, a2}
  NumSubmissions = 2
  Limit = 2
  FULL = 1
  MaxDay = 1
  MaxEdits = 0
PROPERTIES BestNeverDrops
