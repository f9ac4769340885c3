CONSTANTS
  j1 = j1
  j2 = j2
  s1 = s1
  s2 = s2
  Session = Session
  Elsewhere = Elsewhere
  Full = Full
  NoId = NoId
  Dollar = Dollar
  Plus = Plus
  NoSocket = NoSocket
  SocketIds = {s1, s2}
  SessionJobs = {j1, j2}
  OtherJobs = {}
  StreamLimit = 9
  StreamReadCount = 9
  MaxEventCount = 1
  Workers = 2
  QueryMs = 0
  Transport = "ws"
  MaxRetries = 2
  WsConnectMaxRetries = 1
  FirehoseStart <- Forwarded
  StoredId <- Forwarded
  StartSocket = s1
  PromptAnswers = TRUE
  Faults = {"drop"}
  MaxFaults = 1
SPECIFICATION Spec
INVARIANT
  NoOutcomeMissed
CHECK_DEADLOCK FALSE
