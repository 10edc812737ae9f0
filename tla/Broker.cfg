\* Every operation on a small tree, with up to two interventions of other programs.
SPECIFICATION Spec
CONSTANTS
  Root = "R"
  Fixed = {"R", "W", "X", "C", "E", "H"}
  MaxMoves = 2
  None = None
  Nodes <- MCNodes
  Names <- MCNames
  Secrets <- MCSecrets
  Contested <- MCContested
  InitialFs <- MCFs
  LinkTargets <- MCLinkTargets
  Requests <- MCRequests
CHECK_DEADLOCK FALSE
INVARIANTS
  
  
  SuccessIsTrue

  

