CONSTANTS
  Async = {TRUE}
  Stores = {TRUE}
  Engines = {"key"}
  Statements = 1
  MaxLosses = 0
SPECIFICATION FairSpec
PROPERTY
  StoppedStays
CHECK_DEADLOCK FALSE
