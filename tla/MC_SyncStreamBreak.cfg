\* A new checkpoint preempts a priority class whose batch spans two buckets.
CONSTANTS
  c1 = c1
  c2 = c2
  Conns <- OneConn
  Buckets <- ClassBuckets
  StaticBuckets <- ClassStatic
  InitAccess <- TwoInit
  BucketPriority <- ClassPriority
  MaxOp = 4
  BatchLimit = 3
  ChunkRows = 1
  RaceThreshold = 1
  MaxActive = 1
  MaxBuckets = 3
SPECIFICATION Spec
INVARIANT CompletionAfterClassData
CHECK_DEADLOCK FALSE
