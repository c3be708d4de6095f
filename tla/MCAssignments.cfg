SPECIFICATION Spec
CONSTANTS
  Problem = {p1, p2}
  Request = {r1, r2}
  Student = {s1, s2}
  Selection <- MCSelection
  Change <- MCChange
  MaxRequests = 3
  MaxMoves = 1
SYMMETRY Symmetric
PROPERTIES PublishedContent FrozenAtPublication RecipientsExplained SummaryCountsRecipients
CHECK_DEADLOCK FALSE
