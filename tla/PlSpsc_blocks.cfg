SPECIFICATION ClientSpec
CONSTANTS
  W = 8
  LIMIT = 2
  SLOTS = 2
PROPERTY BlockGetsSlot
