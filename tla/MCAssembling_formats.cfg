CONSTANT Lines <- MCLines
SPECIFICATION Spec
CHECK_DEADLOCK FALSE
INVARIANTS TypeOK DecodesAsWritten AcceptsWellFormed
