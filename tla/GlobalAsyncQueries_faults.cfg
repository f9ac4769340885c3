CONSTANTS
  j1 = j1
  j2 = j2
  s1 = s1
  s2 = s2
  Session = Session
  Elsewhere = Elsewhere
  Full = Full
  NoId = NoId
  Dollar = Dollar
  Plus = Plus
  NoSocket = NoSocket
  SocketIds = {s1, s2}
  SessionJobs = {j1}
  OtherJobs = {}
  StreamLimit = 1
  StreamReadCount = 9
  MaxEventCount = 1
  Workers = 1
  QueryMs = 1
  Transport = "ws"
  MaxRetries = 2
  WsConnectMaxRetries = 1
  FirehoseStart <- Forwarded
  StoredId <- Forwarded
  StartSocket = s1
  PromptAnswers = TRUE
  Faults = {"drop", "query", "publish", "timeout", "worker", "redis", "restart",
            "refuse", "reload", "abandon", "cache"}
  MaxFaults = 2
SPECIFICATION Spec
INVARIANT
  TypeOK
PROPERTY
  ImplementsAsyncJob
CHECK_DEADLOCK FALSE
