\* One registration too many, one request, two token requests in flight.
SPECIFICATION Spec
CONSTANTS
  Clients = {p1, p2}
  Regs = {g1, g2}
  Reqs = {r1}
  Creds = {c1, c2}
  Calls = {k1, k2}
  MaxRegs = 1
  MaxPending = 1
  MaxGen = 3
  Faults = TRUE
  None = None
SYMMETRY Symmetry
INVARIANTS
  TypeOK
  
  OneLiveRefresh
  ReuseKillsGrant

  
