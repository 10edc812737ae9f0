\* An Emergency Stop while a call is past the availability gate.
SPECIFICATION Spec
CONSTANTS
  Ops = {o1}
  Kinds = {"stop"}
  Calls = {c1}
INVARIANT StopEndsTasks
