SPECIFICATION TerminalSpec
CONSTANTS
  Char = {x, y, nl}
  Newline = nl
  Kinds <- AllKinds
  Caps = {1, 2}
  MaxFed = 4
INVARIANTS
  TerminalTypeOK
  NothingLost
PROPERTIES
  ReadsAreInput
  InputArrives
