CONSTANTS
  c1 = c1
  c2 = c2
  j1 = j1
  j2 = j2
  j3 = j3
  Channels = {c1}
  SocketIds = {s1, s2}
  Full = Full
  Dollar = Dollar
  Plus = Plus
  NoId = NoId
  Events <- ThreeEvents
  StreamReadCount = 2
  PingInterval = 1
  ResponseTimeout = 2
  MaxMs = 1
  MaxRestarts = 0
SPECIFICATION MCSpec
CONSTRAINTS ClockBound TimeStands OneRange
SYMMETRY Perms
INVARIANTS
  OneReadUnderWay
  BatchFollowsCursor
  NoEventSkipped
CHECK_DEADLOCK FALSE
