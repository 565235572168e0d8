SPECIFICATION Spec
CONSTANTS
  W <- MCW
  B = 17
  PtrSize = 2
  Overhead = 3
  MaxAlloc = 40
  FDCount = 1
  NULL = NULL
  HostFiles <- MCPipe
  Exes <- LoadExes
  ArgLists <- LoadArgs
  StackSizes <- LoadStacks
  MemLimits <- DriverLimit
  Addrs = {0, 19}
  Sizes = {2}
  Values = {35}
  Registers <- BreakRegisters
  RandomRegisters <- NoRegisters
  HostStrings = {}
  Garbage = {0}
  HostFlags = {}
  OperandLen = 1
  IntValues = 64
CONSTRAINT Followed
VIEW Seen
CHECK_DEADLOCK FALSE
PROPERTIES
  ReallocKeepsContents
