SPECIFICATION FairSpec
CONSTANTS
  W = 4
  limit = 2
  StoreBuffer = TRUE
INVARIANT TypeOK
PROPERTIES MessageDrained WaitTimesOut
CHECK_DEADLOCK FALSE
