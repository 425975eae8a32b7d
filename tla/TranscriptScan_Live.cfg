SPECIFICATION FairSpec
CONSTANTS
  None = None
  s1 = s1
  s2 = s2
  p1 = p1
  p2 = p2
  Scanners = {p1}
  Sessions = {s1, s2}
  MaxRead = 1
  MaxRecent = 1
  Lookback = 1
  Overlap = 0
  HotTime = 1
  PruneInterval = 1
  Synced = FALSE
  MaxLines = 1
  MaxHooks = 0
  MaxAborts = 1
  MaxClock = 2
PROPERTIES
  LinesGetStored
