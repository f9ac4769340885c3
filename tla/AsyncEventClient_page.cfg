CONSTANTS
  c1 = c1
  j1 = j1
  j2 = j2
  Jobs = {j1, j2}
  Dollar = Dollar
  Plus = Plus
  NoId = NoId
  StoredId = NoId
  Transport = "ws"
  MaxRetries = 2
  WsConnectMaxRetries = 1
  MaxArrivals = 3
  MaxReloads = 1
SPECIFICATION MCSpec
SYMMETRY Perms
INVARIANTS
  ListenersMatchPromises
  RetryCountersBacked
CHECK_DEADLOCK FALSE
