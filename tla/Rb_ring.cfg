SPECIFICATION Spec
CONSTANTS
  W = 8
  RB_PER_SLOT_LAP = FALSE
  capacity = 4
  slots = 2
  limit = 2
  cap = 1
  low_d = 50
  low_e = 25
  drop_oversize = FALSE
  Data = {a, b}
  WantedLens = {0, 2}
  WrittenLens = {1, 2}
  StaleReads = TRUE
INVARIANTS TypeOK CounterOrder SlotRaceFree RingInv
PROPERTY ImplementsFifo
