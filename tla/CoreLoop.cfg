SPECIFICATION Spec
CONSTANTS
  None = None
  p1 = p1
  p2 = p2
  Runners = {p1, p2}
  Sessions = {"s"}
  Rules <- CaseRule
  Limit = 2
  Window = 1
  Enough = 1
  BadMarks = 1
  Spike = 0
  MaxI64 = 7
  MaxTime = 1
  MaxEvents = 1
  MaxVerdicts = 1
  MaxRuns = 2
CHECK_DEADLOCK FALSE
SYMMETRY Symmetry
INVARIANTS
  TypeOK
  FinishedWorkIsThereOnce
