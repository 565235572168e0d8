SPECIFICATION Spec
CONSTANTS
  Bits = 3
  Nibble = 4
  Rands <- MCRands
  Counts = {0, 1, 2, 3, 4, 7}
VIEW cpu
PROPERTIES
  AddWithCarryExact
CHECK_DEADLOCK FALSE
