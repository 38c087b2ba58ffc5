CONSTANTS
  t1 = t1
  t2 = t2
  t3 = t3
  Threads = {t1, t2, t3}
  NodeOf <- TwoNodes
  NumaNodes = 2
  NumShards = 1
  HashDim = 1
  MaxFileId = 2
  PageIdRange = 4
  OffsetRange = 8
  PageSize = 2
  Sizes = {1, 2}
  MaxPages = 2
  MaxVersion = 4
SPECIFICATION FairSpec
INVARIANTS
  TypeOK
  ReadBack
  OlderPagesMapped
PROPERTIES
  ImplementsLogSpace
  LatchReleased
