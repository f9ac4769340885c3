CONSTANTS
  c1 = c1
  c2 = c2
  j1 = j1
  j2 = j2
  j3 = j3
  Full = Full
  Dollar = Dollar
  Plus = Plus
  NoId = NoId
  Jobs = {j1, j2, j3}
  channelOf <- TwoChannels
  StreamLimit = 3
  MaxEventCount = 1
  Workers = 2
  QueryMs = 0
SPECIFICATION Spec
CONSTRAINT ClockBound
SYMMETRY Perms
INVARIANTS
  FirehoseResendable
  FinishedIsAnnounced
CHECK_DEADLOCK FALSE
