CONSTANTS
  j1 = j1
  j2 = j2
  s1 = s1
  s2 = s2
  Session = Session
  Elsewhere = Elsewhere
  Full = Full
  NoId = NoId
  Dollar = Dollar
  Plus = Plus
  NoSocket = NoSocket
  SocketIds = {s1, s2}
  SessionJobs = {j1, j2}
  OtherJobs = {}
  StreamLimit = 9
  StreamReadCount = 9
  MaxEventCount = 1
  Workers = 1
  QueryMs = 1
  Transport = "ws"
  MaxRetries = 1
  WsConnectMaxRetries = 1
  FirehoseStart <- Forwarded
  StoredId <- Forwarded
  StartSocket = s1
  PromptAnswers = TRUE
  Faults = {"drop"}
  MaxFaults = 1
SPECIFICATION FairSpec
INVARIANT
  NoOutcomeMissed
PROPERTIES
  EveryWaitEnds
CHECK_DEADLOCK FALSE
