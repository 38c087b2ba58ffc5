SPECIFICATION Spec
CONSTANTS
  t1 = t1
  t2 = t2
  Threads = {t1, t2}
  Keys <- MCKeys
  Calls <- MCCalls
  Loaded <- MCLoaded
  BucketCap = 2
  MaxEntries = 1
  MinEntries = 1
  MaxVersions = 3
  MaxOps = 3
INVARIANTS OneExpander AckedFoundUnlessStrayed ReservedRoom
PROPERTY WaiterWoken
CHECK_DEADLOCK FALSE
