CONSTANTS
  k1 = k1
  k2 = k2
  k3 = k3
  k4 = k4
  Writers = {w1, w2}
  Keys = {k1, k2, k3, k4}
  ShardOf <- Spread
  ZeroKey = ZeroKey
  NumShards = 3
  PageSlots = 2
  MaxPages = 3
  RecThreads = 2
  MaxCrashes = 2
SPECIFICATION FairSpec
INVARIANTS
  LostOnlyBehindHole
  InventsOnlyZeroKey
  TailPastLogs
PROPERTY RecoveryCompletes
