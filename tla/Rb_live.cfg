SPECIFICATION FairSpec
CONSTANTS
  W = 8
  RB_PER_SLOT_LAP = FALSE
  capacity = 2
  slots = 2
  limit = 2
  cap = 1
  low_d = 50
  low_e = 25
  drop_oversize = FALSE
  Data = {a}
  WantedLens = {1}
  WrittenLens = {1}
  StaleReads = FALSE
PROPERTIES PublishedIsReleased 
