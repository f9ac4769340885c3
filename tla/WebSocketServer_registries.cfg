CONSTANTS
  c1 = c1
  c2 = c2
  j1 = j1
  j2 = j2
  j3 = j3
  Channels = {c1, c2}
  SocketIds = {s1, s2}
  Full = Full
  Dollar = Dollar
  Plus = Plus
  NoId = NoId
  Events <- OneEvent
  StreamReadCount = 1
  PingInterval = 1
  ResponseTimeout = 2
  MaxMs = 1
  MaxRestarts = 0
SPECIFICATION MCFairSpec
CONSTRAINT ClockBound
INVARIANTS
  TypeOK
  RegistriesAgree
  ResponsiveStayConnected
PROPERTIES
  DeadSocketsForgotten
CHECK_DEADLOCK FALSE
