\* Two calls, one key, two sets of arguments, an audit queue of two.
SPECIFICATION Spec
CONSTANTS
  Calls = {k1, k2}
  Keys = {i1}
  Digests = {d1, d2}
  MaxQueue = 2
  MaxBatch = 2
  None = None
SYMMETRY Symmetry
INVARIANTS
  KeyOnce
  ReplayFaithful
  RecordedFirst
  LossIsVisible
PROPERTIES
  OutcomeHonest
