SPECIFICATION Spec
CONSTANTS
  W = 256
  B = 2
  ByteBits = 1
  PtrSize = 8
  Overhead = 3
  MaxAlloc = 64
  Host <- MCHost
  Regs = {0, 1}
  Instructions <- MCInstructions
  Vectors <- MCVectors
  Contents <- MCContents
  Barriers = {4}
INVARIANTS
  TypeOK
  LaneByLane
  LanesExact
CHECK_DEADLOCK FALSE
