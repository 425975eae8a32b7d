\* Hook spans and a Stop whose prompt files changed: late events rebuild the
\* session.
SPECIFICATION Spec
CONSTANTS
  None = None
  s1 = s1
  p1 = p1
  p2 = p2
  c1 = c1
  c2 = c2
  shell = shell
  edit = edit
  f1 = f1
  CallIds = {c1, c2}
  Tools = {shell, edit}
  Paths = {f1}
  Procs = {p1, p2}
  Sessions = {s1}
  Inputs <- HookSpans
  TTL = 1
  HydrateMax = 5
  PromptChanges = {TRUE, FALSE}
  MaxCrashes = 0
SYMMETRY Symmetry
PROPERTY
  RebuildRestoresRows
