\* The source and bounds of MC_ReplicationPipeline.cfg, checking only the
\* custom write checkpoint of the transaction at 4 across a flush whose
\* Mongo transaction is aborted and retried.
\* Three ChangeStreams, so a batch is lost and rebuilt twice.  The source
\* has six positions with no_checkpoint_before at 3; two buffered rows
\* fill a batch and each storage transaction takes one op, so a flush is
\* split and a failure can land between its halves.  The one-row
\* transaction at 4 carries a custom write checkpoint.
CONSTANTS
  MaxStreams = 3
  MaxLsn = 6
  TxnOps <- SourceTxnOps
  Keepalives <- SourceKeepalives
  Ncb = 3
  BatchLimit = 2
  TxnLimit = 1
  WcpAt <- SourceWcpAt
SPECIFICATION Spec
INVARIANT
  WriteCheckpointsPersisted
CHECK_DEADLOCK FALSE
