\* Three ChangeStreams, so a batch is lost and rebuilt twice.  The source
\* has six positions with no_checkpoint_before at 3; two buffered rows
\* fill a batch and each storage transaction takes one op, so a flush is
\* split and a failure can land between its halves.  The one-row
\* transaction at 4 carries a custom write checkpoint.  Two one-row
\* transactions follow each other at 4 and 5.
CONSTANTS
  MaxStreams = 3
  MaxLsn = 6
  TxnOps <- ReplayTxnOps
  Keepalives <- ReplayKeepalives
  Ncb = 3
  BatchLimit = 2
  TxnLimit = 1
  WcpAt <- SourceWcpAt
SPECIFICATION FairSpec
PROPERTY
  CheckpointRefinement
CHECK_DEADLOCK FALSE
