SPECIFICATION Spec
CONSTANTS
  t1 = t1
  t2 = t2
  Threads = {t1, t2}
  Keys <- MCKeys
  Calls <- MCCalls
  Loaded <- MCLoaded
  BucketCap = 2
  MaxEntries = 1
  MinEntries = 1
  MaxVersions = 2
  MaxOps = 3
INVARIANT AckedFound
CHECK_DEADLOCK FALSE
