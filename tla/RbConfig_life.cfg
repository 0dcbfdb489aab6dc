SPECIFICATION Spec
CONSTANTS
  W = 128
  SizeT = 16384
  Align = 4
  RB_CAPACITY = 4
  RB_NUM_SLOTS = 2
  RB_SLOT_SIZE = 8
  RB_SLOT_HDR_SIZE = 4
  Capacities = {2, 3}
  SlotCounts = {0, 1, 3}
  SlotSizes = {4, 5, 48}
  Limits = {0, 1, 3}
  Percents = {0, 101}
  ScratchSizes = {16, 24, 127}
INVARIANTS GeometryHolds CountFits 
