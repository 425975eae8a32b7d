SPECIFICATION FairSpec
CONSTANTS
  None = None
  c1 = c1
  c2 = c2
  c3 = c3
  w1 = w1
  w2 = w2
  MaxDaemons = 3
  Clients = {c1, c2}
  Workspaces = {w1, w2}
  Registered = {w1}
  QueueMax = 1
  MaxCrashes = 1
CHECK_DEADLOCK FALSE
INVARIANTS
  TypeOK
  LiveDaemonIsReachable
  DepthIsRight
  RepliedHooksAreStored
  RegisteredAreCaptured
  RestartReplaces
PROPERTIES
  CommandsEnd
