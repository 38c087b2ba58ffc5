CONSTANTS
  k1 = k1
  k2 = k2
  k3 = k3
  k4 = k4
  Writers = {w1}
  Keys = {k1, k2, k3}
  ShardOf <- Close
  ZeroKey = ZeroKey
  NumShards = 1
  PageSlots = 2
  MaxPages = 2
  RecThreads = 1
  MaxCrashes = 2
SPECIFICATION Spec
INVARIANT StoresAreMapped
