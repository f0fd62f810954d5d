\* One connection; buckets added and removed by parameter writes; the race
\* for a new checkpoint starts after the first row.
CONSTANTS
  c1 = c1
  c2 = c2
  Conns <- OneConn
  Buckets <- ThreeBuckets
  StaticBuckets <- ThreeStatic
  InitAccess <- ThreeInit
  BucketPriority <- ThreePriority
  MaxOp = 3
  BatchLimit = 2
  ChunkRows = 1
  RaceThreshold = 1
  MaxActive = 1
  MaxBuckets = 2
SPECIFICATION Spec
INVARIANTS
  TypeOK
  ClientSumsMatch
  ClientHoldsExactOps
  CompletionAfterClassData
\* The server waits for a checkpoint forever once MaxOp ops are committed,
\* and a closed connection takes no further steps.
CHECK_DEADLOCK FALSE
