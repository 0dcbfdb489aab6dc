SPECIFICATION DesignsSpec
CONSTANTS
  W = 8
  LIMIT = 2
  SLOTS = 2
  PlSlots = 2
  SLOT_BYTES = 8
  USE_HASH = TRUE
  Rings = 2
INVARIANTS HeldIsCurrent PlSlotsApart  NoSpuriousWork
PROPERTIES PlDrains DoorbellAnswered
