SPECIFICATION Spec
CONSTANTS
  NReg = 4
  Values <- MCValues
  NaN = 9
  Beyond <- MCBeyond
  Special = {0, 9}
  Empty = 99
  Single <- MCSingle
  Double <- MCDouble
  Images <- MCImages
  Operands = {0, 9}
  Draws = {{"C0", "C1", "C2", "C3"}}
VIEW View
INVARIANTS
  TypeOK
PROPERTIES
  TagsFollow
  KeepsPromises
CHECK_DEADLOCK FALSE
