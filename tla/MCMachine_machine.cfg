SPECIFICATION Spec
CONSTANTS
  W <- MCW
  B = 17
  PtrSize = 2
  Overhead = 3
  MaxAlloc = 40
  FDCount = 2
  NULL = NULL
  HostFiles <- MCHostFiles
  Exes <- MCExes
  ArgLists <- NoArgs
  StackSizes = {0, 6}
  MemLimits <- DriverLimit
  Addrs <- CodeAddrs
  Sizes = {1, 2}
  Values = {0}
  Registers <- MCRegisters
  RandomRegisters <- NoRegisters
  HostStrings <- MCStrings
  Garbage = {0}
  HostFlags <- MCFlags
  OperandLen = 1
  IntValues = 64
CONSTRAINT Followed
ACTION_CONSTRAINT OneKind
VIEW Seen
CHECK_DEADLOCK FALSE
INVARIANTS
  TypeOK
  ReadonlyIntact
  ClientFilesNeedClient
PROPERTIES
  PushesStayInStack
  StoppedIsInert
  PrivateFlagsKept
  SuspendedAtRead
