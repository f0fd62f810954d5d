\* Preemption after the first priority, then a checkpoint that only changes a bucket the user does not have.
CONSTANTS
  c1 = c1
  c2 = c2
  Conns <- OneConn
  Buckets <- HiddenBuckets
  StaticBuckets <- HiddenStatic
  InitAccess <- TwoInit
  BucketPriority <- HiddenPriority
  MaxOp = 3
  BatchLimit = 2
  ChunkRows = 1
  RaceThreshold = 1
  MaxActive = 1
  MaxBuckets = 3
SPECIFICATION FairSpec
PROPERTY EventuallySynced
CHECK_DEADLOCK FALSE
