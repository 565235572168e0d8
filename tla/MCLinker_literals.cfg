SPECIFICATION Spec
CONSTANTS
  W = 64
  Bytes = {1, 2, 3}
  Entries = {"main", "_start", "9"}
  IllegalNames = {"9"}
  Junk = {0, 7}
CHECK_DEADLOCK FALSE
CONSTANTS
  Programs <- Two
  MaxLiterals <- Four
  Values <- Pairs
INVARIANTS
  LiteralsResolve
