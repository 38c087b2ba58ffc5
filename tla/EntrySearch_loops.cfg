SPECIFICATION Spec
CONSTANTS
  Keys <- MCKeys
  MaxEntries = 9
  LinearLimit = 3
INVARIANTS TypeOK FindsEntry
PROPERTY SearchEnds
CHECK_DEADLOCK FALSE
