SPECIFICATION Spec
CONSTANTS
  W = 16
  B = 4
  PtrSize = 2
  Overhead = 3
  MaxAlloc = 6
  Narrow = {1}
  Instructions <- AllInstructions
  Contents <- MCContents
  Pointers = {0, 1, 3, 15}
  Numbers = {0, 1, 3}
  Barriers = {0, 2}
INVARIANTS
  TypeOK
  MovesCopy
  SearchStopsAtFirst
PROPERTIES
  WholeInstruction
  InstructionEnds
CHECK_DEADLOCK FALSE
