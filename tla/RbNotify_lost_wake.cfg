SPECIFICATION Spec
CONSTANTS
  W = 4
  limit = 2
  StoreBuffer = TRUE
INVARIANT NoLostWake
CHECK_DEADLOCK FALSE
