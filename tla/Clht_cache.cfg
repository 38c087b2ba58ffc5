SPECIFICATION Spec
CONSTANTS
  t1 = t1
  t2 = t2
  Threads = {t1, t2}
  Keys <- MCKeys
  Slots = 1
  FirstBuckets = 1
  OccupAfterRes = 200
  FullHalve = 5
  Calls <- MCCalls
  Registrations <- MCRegistrations
  MaxTables = 3
  MaxOps = 6
INVARIANTS NoDuplicates GetOwnValue GetFinds KeysKept ResizesCurrent
PROPERTY CallsReturn
CHECK_DEADLOCK FALSE
