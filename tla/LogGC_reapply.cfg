CONSTANTS
  gc = gc
  t1 = t1
  t2 = t2
  Threads = {gc, t1}
  Collector = gc
  Keys = {k1, k2}
  Values = {v1, v2}
  None = None
  Ones = Ones
  UseCache = FALSE
  CacheSample = 1
  MaxLogs = 4
  PageSlots = 2
  FreedEnough = 1
  EraseAbsent = FALSE

SPECIFICATION GCSpec
PROPERTY CollectorKeepsValues
