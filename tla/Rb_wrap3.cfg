SPECIFICATION Spec
CONSTANTS
  W = 8
  RB_PER_SLOT_LAP = FALSE
  capacity = 4
  slots = 3
  limit = 3
  cap = 1
  low_d = 30
  low_e = 25
  drop_oversize = FALSE
  Data = {a}
  WantedLens = {1}
  WrittenLens = {1}
  StaleReads = FALSE
INVARIANT OneSlotPerMessage
