\* An Emergency Stop while a restart of the MCP server is in progress.
SPECIFICATION Spec
CONSTANTS
  Ops = {o1, o2}
  Kinds = {"stop", "restart"}
  Calls = {c1}
INVARIANT RestartKeepsStop
