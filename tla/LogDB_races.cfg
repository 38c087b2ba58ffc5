CONSTANTS
  Threads = {t1, t2}
  Keys = {k1, k2}
  Values = {v1, v2}
  None = None
  Ones = Ones
  UseCache = TRUE
  CacheSample = 2
  MaxLogs = 4
SYMMETRY Symmetry
SPECIFICATION Spec
INVARIANTS
  IndexSound
  UpdateChainLinear
  CacheFromOwnLog
PROPERTY ReadIsCurrentOrUnwritten
