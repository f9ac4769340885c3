CONSTANTS
  Tasks = {t1, t2}
  Types = {"ALERT", "REPORT"}
  WorkingTimeouts = {1, NoTimeout}
  NoTimeout = NoTimeout
  GracePeriod = 2
  Retention = 1
  NoLog = NoLog
  MaxAge = 2
  MaxLosses = 1
  Requests = {r1, r2}
  LOCK_EXPIRATION = 2
  Lifetimes = {1}
  max_tries = 2
  MaxGrants = 2
SPECIFICATION MCSpec
INVARIANTS
  ServerTypeOK
  NeverLeftWorking
  OneRefreshAtATime
  NothingLost
PROPERTIES
  WorkingEnds
  RequestsEnd
