\* Two clients and two policy revisions: the settings change while an approval is
\* requested, decided and resumed; fair handlers and sweeps.
SPECIFICATION FairSpec
CONSTANTS
  c1 = c1
  c2 = c2
  p1 = p1
  p2 = p2
  Clients = {c1, c2}
  Credentials = {p1, p2}
  ClientOf <- TwoClients
  SessionIds = {s1, s2}
  ApprovalIds = {a1}
  ExecutionIds = {e1}
  Calls = {k1}
  Lifetime = 0
  MaxRevision = 2
  MaxPurges = 0
  StorageFails = FALSE
  None = None
  NoFilter = NoFilter
PROPERTIES
  DispatchRespectsRevocation
  
  PendingResolves
  
