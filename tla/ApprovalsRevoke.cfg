SPECIFICATION Spec
CONSTANTS
  c1 = c1
  c2 = c2
  p1 = p1
  p2 = p2
  Clients = {c1}
  Credentials = {p1}
  ClientOf <- OneClient
  SessionIds = {s1, s2}
  ApprovalIds = {a1}
  ExecutionIds = {e1}
  Calls = {k1}
  Lifetime = 0
  MaxRevision = 2
  MaxPurges = 1
  StorageFails = FALSE
  None = None
  NoFilter = NoFilter
SYMMETRY IdSymmetry
INVARIANT RevocationCancelsApprovals
