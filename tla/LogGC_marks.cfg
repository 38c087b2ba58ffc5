CONSTANTS
  gc = gc
  t1 = t1
  t2 = t2
  Threads = {gc, t1, t2}
  Collector = gc
  Keys = {k1}
  Values = {v1}
  None = None
  Ones = Ones
  UseCache = FALSE
  CacheSample = 1
  MaxLogs = 5
  PageSlots = 2
  FreedEnough = 1
  EraseAbsent = FALSE
SPECIFICATION FairGC
INVARIANTS
  IndexSound
  FreedExact
  WalkEnds
PROPERTY CollectionCompletes
