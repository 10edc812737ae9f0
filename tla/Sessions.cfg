\* Two clients, one approval and one settings change.
SPECIFICATION Spec
CONSTANTS
  c1 = c1
  c2 = c2
  p1 = p1
  p2 = p2
  Credentials = {p1, p2}
  ClientOf <- TwoClients
  ApprovalIds = {a1}
  Limits = {1, 2}
  MaxClients = 2
  MaxNow = 2
  MaxRevision = 2
  MaxSessions = 3
  None = None
INVARIANT GrantsFollowPolicy
