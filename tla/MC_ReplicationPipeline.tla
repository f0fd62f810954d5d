------------------------- MODULE MC_ReplicationPipeline -------------------------
EXTENDS ReplicationPipeline

\* A two-row transaction, a keepalive before and one at
\* no_checkpoint_before, a one-row transaction, a keepalive, and a
\* transaction that touches no synced table.
SourceTxnOps == <<2, 0, 0, 1, 0, 0>>
SourceKeepalives == {2, 3, 5}

\* The transaction at 4 carries a custom write checkpoint.
SourceWcpAt == {4}

\* Two one-row transactions in a row after the keepalive at
\* no_checkpoint_before, so a restart can resume at a transaction's
\* checkpoint with the next transaction already flushed.
ReplayTxnOps == <<2, 0, 0, 1, 1, 0>>
ReplayKeepalives == {2, 3}

\* Both sources in one: two consecutive one-row transactions after
\* no_checkpoint_before, then a keepalive with nothing pending.
PassTxnOps == <<2, 0, 0, 1, 1, 0, 0>>
PassKeepalives == {2, 3, 6}

=============================================================================
