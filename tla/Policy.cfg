\* A command and up to two constructs around or after it, nesting followed to depth three.
SPECIFICATION Spec
CONSTANTS
  Analyze <- AnalyzeCommand
  MaxDepth = 3
  MaxSize = 2
  OpaqueWords = {"$x"}
  UrlWords = {"http://u"}
  RemoteWords = {"host:f"}
  Bylines = {"byline", "agent/x", "user.name=agent"}
  BylineFiles = {"wsrs"}
  RedirectTargets = {"ext", "ctl", "nul"}
  PathWords <- MCPathWords
  Place <- MCPlace
  Contexts <- MCContexts
  CmdCommands <- MCCmdCommands
  PsCommands <- MCPsCommands
  TailCommands <- MCTailCommands
  FsRequests <- MCFsRequests
  GitRequests <- MCGitRequests
CHECK_DEADLOCK FALSE
INVARIANTS
  IncompleteAsks
  PartsDecide
  

  
  
