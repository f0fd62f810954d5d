\* Two connections share one semaphore permit; two static buckets of
\* different priorities; the race starts after the first row.
CONSTANTS
  c1 = c1
  c2 = c2
  Conns <- TwoConns
  Buckets <- TwoBuckets
  StaticBuckets <- TwoStatic
  InitAccess <- TwoInit
  BucketPriority <- TwoPriority
  MaxOp = 2
  BatchLimit = 1
  ChunkRows = 1
  RaceThreshold = 1
  MaxActive = 1
  MaxBuckets = 2
SPECIFICATION FairSpec
INVARIANTS
  SemaphoreConserved
PROPERTIES
  EventuallySynced
\* The server waits for a checkpoint forever once MaxOp ops are committed,
\* and a closed connection takes no further steps.
CHECK_DEADLOCK FALSE
