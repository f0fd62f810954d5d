\* A parameter write removes a bucket; the race never starts.
CONSTANTS
  c1 = c1
  c2 = c2
  Conns <- OneConn
  Buckets <- DropBuckets
  StaticBuckets <- DropStatic
  InitAccess <- DropInit
  BucketPriority <- DropPriority
  MaxOp = 2
  BatchLimit = 2
  ChunkRows = 1
  RaceThreshold = 3
  MaxActive = 1
  MaxBuckets = 2
SPECIFICATION FairSpec
PROPERTY EventuallySynced
CHECK_DEADLOCK FALSE
