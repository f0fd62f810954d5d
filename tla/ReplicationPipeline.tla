-------------------------- MODULE ReplicationPipeline --------------------------
(***************************************************************************)
(* The replication job and the bucket batch its ChangeStream writes        *)
(* through.  Each ChangeStream the job creates builds a new batch          *)
(* (startBatch) and replays the source from the batch's resume point; a    *)
(* stream that throws loses its batch and the job retries with a new one,  *)
(* so the job's retry loop is the crash and restart of the batch.  After   *)
(* stop() no new source event is processed, but a flush in progress        *)
(* completes before the stream returns.                                    *)
(***************************************************************************)
EXTENDS Integers

CONSTANTS MaxStreams, MaxLsn, TxnOps, Keepalives, Ncb, BatchLimit, TxnLimit,
          WcpAt

VARIABLES pc, stopped, err, openConns, streams, restarted,
          opLog, cpOp, cpLsn, keepOp, snapLsn, live, hasBatch, buf, pOp,
          mLsn, phase, pos, saved, wcpStored, wcpBuf, wcpSeen, txRetry

Job == INSTANCE ReplicationJob
Batch == INSTANCE BucketBatch

jvars == <<pc, stopped, err, openConns, streams, restarted>>
bvars == <<opLog, cpOp, cpLsn, keepOp, snapLsn, live, hasBatch, buf, pOp,
           mLsn, phase, pos, saved, wcpStored, wcpBuf, wcpSeen, txRetry>>
vars == <<jvars, bvars>>

Init == Job!Init /\ Batch!Init

\* The ChangeStream calls startBatch once it runs.
StreamStartsBatch ==
  /\ pc = "stream" /\ ~live
  /\ Batch!StartBatch
  /\ UNCHANGED jvars

\* A source event: only while the stream is not aborted.
SourceEvent ==
  /\ pc = "stream" /\ ~stopped
  /\ \/ Batch!Save
     \/ Batch!Commit
     \/ Batch!Keepalive
     \/ Batch!SetResumeLsn
     \/ Batch!AddCustomWriteCheckpoint
  /\ UNCHANGED jvars

\* A flush or commit in progress runs to its end, stopped or not.
BatchContinues ==
  /\ pc = "stream"
  /\ \/ Batch!FlushInner
     \/ \E afterWcp \in BOOLEAN : Batch!FlushAborted(afterWcp)
     \/ Batch!SaveFlushed
     \/ \E ce \in BOOLEAN : Batch!CommitApply(ce)
  /\ UNCHANGED jvars

\* The ChangeStream's replicate() returns between events.
StreamEnds ==
  /\ pc = "stream"
  /\ Batch!Finish
  /\ UNCHANGED jvars

\* startBatch returns after its closing flush, and so does the stream; a
\* stream aborted before it started a batch returns directly.
StreamReturns ==
  /\ \/ Batch!Finished
     \/ ~live /\ stopped /\ UNCHANGED bvars
  /\ Job!StreamReturns

\* The stream throws at any await, in the middle of a flush included: the
\* batch and its buffered row changes are lost.
StreamFails(invalidated) ==
  /\ Job!StreamFails(invalidated)
  /\ Batch!DropBatch

JobStep ==
  /\ \/ Job!Stop \/ Job!LoopTop \/ Job!RateAllowed
     \/ Job!EndConn \/ Job!EndConnFails \/ Job!Sleep \/ Job!Restart
  /\ UNCHANGED bvars

Next ==
  \/ JobStep
  \/ StreamStartsBatch \/ SourceEvent \/ BatchContinues \/ StreamEnds
  \/ StreamReturns
  \/ \E inv \in BOOLEAN : StreamFails(inv)

\* The job's awaits resolve (Job!Fairness without its stream clause); an
\* aborted stream ends between events and its batch's awaits resolve; a
\* running ChangeStream reads the next source event (the change stream
\* delivers every event of the finite source).
Fairness ==
  /\ WF_vars(Job!LoopTop /\ UNCHANGED bvars)
  /\ WF_vars(Job!RateAllowed /\ UNCHANGED bvars)
  /\ WF_vars(Job!EndConn /\ UNCHANGED bvars)
  /\ WF_vars(Job!Sleep /\ UNCHANGED bvars)
  /\ WF_vars(Job!Restart /\ UNCHANGED bvars)
  /\ WF_vars(BatchContinues)
  /\ WF_vars(SourceEvent)
  /\ WF_vars(stopped /\ StreamEnds)
  /\ WF_vars(stopped /\ StreamReturns)

Spec == Init /\ [][Next]_vars
FairSpec == Spec /\ Fairness

-----------------------------------------------------------------------------
(* Properties                                                              *)

TypeOK == Job!TypeOK /\ Batch!TypeOK

\* Once stop() aborted the controller, no new ChangeStream is created.
NoStreamAfterStop == Job!NoStreamAfterStop

\* stop() ends the job, through any flush in progress and the closing
\* flush of startBatch.
StopTerminates == Job!StopTerminates

\* Across stream failures and restarts, the batch implements
\* CheckpointPrefix: a checkpoint shows exactly the row changes up to its
\* LSN (keepalive_op carried through the sync_rules document).
CheckpointRefinement == Batch!CheckpointRefinement

\* No row change of a transaction at or before the checkpoint LSN is
\* missing from the checkpoint, across stream failures and restarts.
CheckpointComplete == Batch!CheckpointComplete

\* The checkpoint never moves back, whatever a restarted stream replays.
CheckpointMonotone == Batch!CheckpointMonotone

\* A custom write checkpoint added before its transaction's commit is
\* persisted once the checkpoint passes it, retried transactions included.
WriteCheckpointsPersisted == Batch!WriteCheckpointsPersisted

\* The last source position at which the checkpoint LSN can be placed
\* without an empty checkpoint: a keepalive or a transaction with synced
\* rows, at or after no_checkpoint_before.
LastCheckpointable ==
  LET ls == {l \in Batch!Lsns : l >= Ncb /\ (l \in Keepalives \/ TxnOps[l] > 0)}
  IN IF ls = {} THEN 0 ELSE CHOOSE l \in ls : \A m \in ls : m <= l

\* LIVENESS: a ChangeStream that keeps running (neither stopped, failed nor
\* returned) eventually brings last_checkpoint_lsn up to the end of the
\* source, through restarts, replays skipped by the LSN guards, aborted
\* and retried flushes, and keepalives that only move the LSN.
CheckpointKeepsUp ==
  <>[](live /\ phase /= "final") => <>(cpLsn >= LastCheckpointable)

=============================================================================
