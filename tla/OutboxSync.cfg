SPECIFICATION FairSpec
CONSTANTS
  s1 = s1
  s2 = s2
  f1 = f1
  f2 = f2
  Flushers = {f1, f2}
  Owners = {s1}
  BatchMax = 2
  MaxFailures = 1
  FailOpen = FALSE
  MaxReplace = 2
  MaxPayloads = 2
  MaxCrashes = 1
CHECK_DEADLOCK FALSE
INVARIANTS
  TypeOK
  DeliveredInOrder
  ClearedRowsWereExported
PROPERTIES
  KeepsPromise
  QueueDrains
