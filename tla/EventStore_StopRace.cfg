\* A hook races with a Stop that appends two events.
SPECIFICATION Spec
CONSTANTS
  None = None
  s1 = s1
  p1 = p1
  p2 = p2
  c1 = c1
  c2 = c2
  shell = shell
  edit = edit
  f1 = f1
  CallIds = {c1, c2}
  Tools = {shell, edit}
  Paths = {f1}
  Procs = {p1, p2}
  Sessions = {s1}
  Inputs <- PromptCall
  TTL = 1
  HydrateMax = 5
  PromptChanges = {TRUE, FALSE}
  MaxCrashes = 0
SYMMETRY Symmetry
INVARIANTS
  ClosedCallsHaveRows
