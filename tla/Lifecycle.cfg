\* One command at a time, two calls; every write may fail and the process may
\* stop between any two steps.
SPECIFICATION FairSpec
CONSTANTS
  Ops = {o1}
  Kinds = {"stop", "resume", "enable", "pause", "restart", "shutdown"}
  Calls = {c1, c2}
INVARIANTS
  OpenIffReady
  StopHolds
 
