SPECIFICATION WorkspaceSpec
CONSTANTS
  None = None
  NotSet = NotSet
  NoSession = NoSession
  Authority = "datadog"
  PageLimit = 2
  Days = 3
  p1 = p1
  p2 = p2
  c1 = c1
  Tasks = {p1, p2}
  Workspaces = {"w"}
  Configured = "openai"
  MaxPorts = 2
  MaxFailures = 1
CHECK_DEADLOCK FALSE
SYMMETRY Symmetry
INVARIANTS
  ComponentsTypeOK
  TableIsRight
  CapturesGetHealth
  ImportIsExact
  ReportedTagsStay
  LogIsTheTranscript
  ReportsHoldTheBest
  SpansAreShown
  ScreenIsFed
  SearchIsRight
  ReportsAgree
  CallsAreLogged
  FreshCacheIsComplete
  SnapshotsAreWhole
