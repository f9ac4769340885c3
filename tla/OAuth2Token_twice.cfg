CONSTANTS
  Requests = {r1, r2}
  LOCK_EXPIRATION = 1
  Lifetimes = {2}
  max_tries = 2
  MaxGrants = 1
SPECIFICATION OAuth2FairSpec
PROPERTY
  OnlyExpiredIsRefreshed
CHECK_DEADLOCK FALSE
