SPECIFICATION Spec
CONSTANTS
  W = 8
  RB_PER_SLOT_LAP = TRUE
  capacity = 4
  slots = 4
  limit = 3
  cap = 1
  low_d = 30
  low_e = 25
  drop_oversize = TRUE
  Data = {a}
  WantedLens = {0, 2}
  WrittenLens = {1}
  StaleReads = TRUE
INVARIANTS RingInv SlotRaceFree LapStamps
PROPERTY ImplementsFifo
