SPECIFICATION Spec
CONSTANTS
  None = None
  Unknown = Unknown
  Keys <- MCKeys
  Values = {"a", "b"}
  Calls <- MCCalls
  Load <- MCLoad
  BucketCap = 2
  PbCount = 2
  MaxEntries = 2
  MinEntries = 2
  MaxOps = 4
INVARIANTS GroupsInOrder ScanReturnsStored RetriesEnd TreeIsMap
PROPERTY ImplementsIndexMap
CHECK_DEADLOCK FALSE
