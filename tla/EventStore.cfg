\* Two handles, two tool calls and a Stop in any order of the hooks, with
\* restarts and one crash.
SPECIFICATION Spec
CONSTANTS
  None = None
  s1 = s1
  p1 = p1
  p2 = p2
  c1 = c1
  c2 = c2
  shell = shell
  edit = edit
  f1 = f1
  CallIds = {c1, c2}
  Tools = {shell, edit}
  Paths = {f1}
  Procs = {p1, p2}
  Sessions = {s1}
  Inputs <- TwoCalls
  TTL = 1
  HydrateMax = 5
  PromptChanges = {FALSE}
  MaxCrashes = 1
SYMMETRY Symmetry
INVARIANTS
  TypeOK
  ProjectorsWellFormed
  DerivedRowsComplete
  ClosedCallsHaveRows
  UpToDateMemoryIsRight
  StoppedSpansHaveRows
  RowParentsAreReal
