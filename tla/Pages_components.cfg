CONSTANTS
  c1 = c1
  f1 = f1
  f2 = f2
  v1 = v1
  v2 = v2
  l1 = l1
  l2 = l2
  l3 = l3
  s1 = s1
  s2 = s2
  Charts = {c1}
  Filters = {f1, f2}
  Values = {v1, v2}
  Default = v1
  Scope <- MCScope
  Slots = {1, 2}
  Nothing = Nothing
  Layouts = {l1, l2, l3}
  Schemes = {s1, s2}
  UNDO_LIMIT = 1
  NoSave = NoSave
  Instructions = 2
  MaxMounts = 2
  MaxDrops = 1
  Calls = {1, 2}
  Ttls = {5, 6}
  REFRESH_TIMING_BUFFER = 2
  MIN_REFRESH_WAIT = 4
  Latency = 1
  MaxTime = 12
  MaxLoads = 2
  Async = {TRUE, FALSE}
  Stores = {TRUE, FALSE}
  Engines = {"key", "early", "implicit", "none"}
  Statements = 2
  MaxLosses = 1
SPECIFICATION MCSpec
INVARIANTS
  PagesTypeOK
  ChartsUpToDate
  LoadingMeansWork
  ShowsLastAnswer
  NothingUnsavedForgotten
  AcknowledgedOnceOver
  TokenNeverExpires
  OwnResult
  NobodyLeftRunning
  AtMostOneMoreStatement
  ShownResultsExist
PROPERTIES
  InstructionEnds
  CallsEnd
  PageStarts
  StoppedUnlessAnswered
  PageSettles
CHECK_DEADLOCK FALSE
