\* A hook that the worker indexed, and a scan after it.
SPECIFICATION FairSpec
CONSTANTS
  None = None
  NotSet = NotSet
  worker = worker
  scanner = scanner
  Handles = {worker, scanner}
  Kept = {worker}
  Sessions = {"s"}
  Events <- Hooks
  Batches <- Lines
  BatchDocs = 2
  MaxReindexes = 0
  MaxFaults = 0
CHECK_DEADLOCK FALSE
PROPERTIES
  ScansEnd
