\* Three ChangeStreams, so a batch is lost and rebuilt twice.  The source
\* has seven positions with no_checkpoint_before at 3; two buffered rows
\* fill a batch and each storage transaction takes one op, so a flush is
\* split and a failure can land between its halves.  The one-row
\* transactions at 4 and 5 follow each other, so a restart can resume at
\* a checkpoint with the next transaction already flushed; the one at 4
\* carries a custom write checkpoint; the keepalive at 6 finds nothing
\* pending.
CONSTANTS
  MaxStreams = 3
  MaxLsn = 7
  TxnOps <- PassTxnOps
  Keepalives <- PassKeepalives
  Ncb = 3
  BatchLimit = 2
  TxnLimit = 1
  WcpAt <- SourceWcpAt
SPECIFICATION FairSpec
INVARIANTS
  TypeOK
  CheckpointComplete
PROPERTIES
  NoStreamAfterStop
  StopTerminates
  CheckpointMonotone
  CheckpointKeepsUp
\* The job ends for good after stop(), restartReplication or a failed
\* connectionManager.end(); a job that used up MaxStreams waits at the
\* rate limiter, and a stream waits once the source is read.
CHECK_DEADLOCK FALSE
