SPECIFICATION Spec
CONSTANTS
  p = p
  q = q
  s = s
  r1 = r1
  r2 = r2
  User = {p, q, s}
  Professor = {p, q}
  Creator = p
  Request = {r1, r2}
  MaxRequests = 4
  MaxTokens = 2
SYMMETRY Slots
INVARIANT TokenJoinsOnce
PROPERTIES OneInvitationMail ArchivedFrozen OrphanedByOverlap InvitationUsedUp JoinKeepsRole
CHECK_DEADLOCK FALSE
