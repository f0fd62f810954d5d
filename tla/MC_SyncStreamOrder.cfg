\* The race never starts (RaceThreshold > MaxOp): only the order of the priority loop.
CONSTANTS
  c1 = c1
  c2 = c2
  Conns <- OneConn
  Buckets <- ThreeBuckets
  StaticBuckets <- ThreeStatic
  InitAccess <- ThreeInit
  BucketPriority <- ThreePriority
  MaxOp = 2
  BatchLimit = 2
  ChunkRows = 1
  RaceThreshold = 3
  MaxActive = 1
  MaxBuckets = 3
SPECIFICATION Spec
INVARIANT PartialAfterHigherPriorities
CHECK_DEADLOCK FALSE
