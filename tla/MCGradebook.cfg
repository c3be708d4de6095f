SPECIFICATION Spec
CONSTANTS
  Request = {r1, r2, r3}
  Key = {r1, r2, r3}
  KeyOf <- GradesKeyOf
  Body = {1}
  BodyOf <- GradesBodyOf
  Approval = {a1, a2}
  NumSubmissions = 3
  Limit = 3
  FULL = 2
  MaxDay = 1
  MaxEdits = 0
SYMMETRY Symmetric
INVARIANTS NoUnearnedGrade ProgressIsRebuildable CountersAddUp
