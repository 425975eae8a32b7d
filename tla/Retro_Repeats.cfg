\* The same evidence in two weeks.
SPECIFICATION Spec
CONSTANTS
  None = None
  p1 = p1
  Runners = {p1}
  Windows <- TraceWindows
  Remote <- RemoteTraces
  Tables <- RetroTables
  Many = 2
  Apart <- DistantPaths
  Docs = {"docs/a"}
  MaxWeek = 2
CHECK_DEADLOCK FALSE
INVARIANTS
  BetsAreNotRepeated
