\* One client, two calls and two invalidations in flight, one approval through
\* two sessions; the control database may fail.
SPECIFICATION Spec
CONSTANTS
  c1 = c1
  c2 = c2
  p1 = p1
  p2 = p2
  Clients = {c1}
  Credentials = {p1}
  ClientOf <- OneClient
  SessionIds = {s1, s2}
  ApprovalIds = {a1}
  ExecutionIds = {e1, e2}
  Calls = {k1, k2}
  Lifetime = 0
  MaxRevision = 1
  MaxPurges = 2
  StorageFails = TRUE
  None = None
  NoFilter = NoFilter
SYMMETRY IdSymmetry
INVARIANTS
  TypeOK
  AtMostOnce
  EffectIsAccountedFor
PROPERTIES
  ClosedStaysClosed
  ExecutionOutcomesFinal
  DispatchRespectsRevocation
  ImplementsConsent
