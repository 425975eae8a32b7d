SPECIFICATION Spec
CONSTANTS
  None = None
  s1 = s1
  s2 = s2
  p1 = p1
  p2 = p2
  Scanners = {p1, p2}
  Sessions = {s1}
  MaxRead = 2
  MaxRecent = 1
  Lookback = 2
  Overlap = 0
  HotTime = 1
  PruneInterval = 1
  Synced = FALSE
  MaxLines = 2
  MaxHooks = 1
  MaxAborts = 0
  MaxClock = 2
SYMMETRY Symmetry
INVARIANTS
  TypeOK
  NoRecentLineSkipped
PROPERTIES
  AppendOnly
