\* Two clients, one task and direct writes in one project; a lease lasts two heartbeats.
SPECIFICATION FairSpec
CONSTANTS
  Clients = {c1, c2}
  TaskIds = {t1}
  MaxTasks = 1
  Ttl = 2
  AllowMultiple = FALSE
  Faults = TRUE
  None = None
INVARIANTS
  SingleWriter
  
  LiveIsManaged
  StopIsReported
PROPERTIES
  TerminalIsFinal
  TasksResolve
  
