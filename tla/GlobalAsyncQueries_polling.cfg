CONSTANTS
  j1 = j1
  j2 = j2
  s1 = s1
  s2 = s2
  Session = Session
  Elsewhere = Elsewhere
  Full = Full
  NoId = NoId
  Dollar = Dollar
  Plus = Plus
  NoSocket = NoSocket
  SocketIds = {}
  SessionJobs = {j1, j2}
  OtherJobs = {}
  StreamLimit = 9
  StreamReadCount = 9
  MaxEventCount = 2
  Workers = 2
  QueryMs = 0
  Transport = "polling"
  MaxRetries = 2
  WsConnectMaxRetries = 1
  FirehoseStart = Dollar
  StoredId = NoId
  StartSocket = NoSocket
  PromptAnswers = TRUE
  Faults = {"query", "poll", "abandon", "cache"}
  MaxFaults = 1
SPECIFICATION FairSpec
INVARIANTS
  NothingBehindLastId
PROPERTIES
  EveryWaitEnds
  ImplementsAsyncJob
CHECK_DEADLOCK FALSE
