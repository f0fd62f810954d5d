------------------------------ MODULE BucketBatch ------------------------------
(***************************************************************************)
(* MongoBucketBatch (part_011): the replication writer's save / flush /    *)
(* commit / keepalive over the sync_rules document, and what survives when *)
(* the batch is lost with its process state.                               *)
(*                                                                         *)
(* The source is a log of positions 1..MaxLsn.  Position l is a source     *)
(* transaction of TxnOps[l] row changes of synced tables ending in         *)
(* commit(l), or, in Keepalives, a keepalive(l).  A persisted op is the    *)
(* row change it came from, [lsn, n]; its op id is its index in opLog.    *)
(* Row changes are idempotent, so a replayed transaction writes a second   *)
(* copy.  A transaction with no synced rows commits with nothing saved.    *)
(*                                                                         *)
(* After the batch is lost, a new one is built from the sync_rules         *)
(* document and the source is read again from its resume point, at least  *)
(* once: from anywhere between the snapshot LSN and just after            *)
(* max(snapshot_lsn, last_checkpoint_lsn).                                 *)
(*                                                                         *)
(* A transaction at a position of WcpAt also carries a custom write        *)
(* checkpoint (addCustomWriteCheckpoint), written by the next flush with   *)
(* an op id of its own.  Each flushInner is one Mongo transaction that      *)
(* session.withTransaction may abort on a transient error and run again.   *)
(***************************************************************************)
EXTENDS Integers, Sequences

CONSTANTS
  MaxLsn,      \* source positions 1..MaxLsn
  TxnOps,      \* TxnOps[l]: row changes at l that save() keeps (synced tables)
  Keepalives,  \* positions that are keepalive messages, not transactions
  Ncb,         \* no_checkpoint_before_lsn, as markSnapshotDone persisted it
  BatchLimit,  \* OperationBatch.shouldFlush: buffered row changes
  TxnLimit,    \* PersistedBatch.shouldFlushTransaction: ops per transaction
  WcpAt        \* transactions that carry a custom write checkpoint

None == -1     \* a null op id (op ids start at 0n)
WcpOp == [lsn |-> 0, n |-> 0]  \* the op id batchCreateCustomWriteCheckpoints takes
Lsns == 1..MaxLsn

VARIABLES
  \* The database: the op log and the sync_rules document.
  opLog,       \* persisted ops, op id i is opLog[i]
  cpOp,        \* last_checkpoint
  cpLsn,       \* last_checkpoint_lsn (0 = null)
  keepOp,      \* keepalive_op
  snapLsn,     \* snapshot_lsn (0 = null)
  \* The batch object, lost with the process.
  live,        \* a MongoBucketBatch exists
  hasBatch,    \* this.batch != null
  buf,         \* the row changes in this.batch
  pOp,         \* persisted_op
  mLsn,        \* last_checkpoint_lsn in memory (0 = null)
  phase,       \* "idle", or the call whose flush() is running:
               \* "save", "commit" or "final" (startBatch's closing flush)
  \* The source stream.
  pos,         \* position of the event being processed
  saved,       \* row changes of the transaction at pos saved so far
  \* Custom write checkpoints, named by their transaction's position.
  wcpStored,   \* in the write_checkpoints collection
  wcpBuf,      \* this.write_checkpoint_batch
  wcpSeen,     \* the transaction at pos added its write checkpoint
  txRetry      \* withTransaction aborted flushInner's transaction and
               \* runs its callback again

bvars == <<opLog, cpOp, cpLsn, keepOp, snapLsn, live, hasBatch, buf, pOp,
           mLsn, phase, pos, saved, wcpStored, wcpBuf, wcpSeen, txRetry>>

Init ==
  /\ opLog = <<>>
  /\ cpOp = None
  /\ cpLsn = 0
  /\ keepOp = None
  /\ snapLsn = 0
  /\ live = FALSE
  /\ hasBatch = FALSE
  /\ buf = <<>>
  /\ pOp = None
  /\ mLsn = 0
  /\ phase = "idle"
  /\ pos = 0
  /\ saved = 0
  /\ wcpStored = {}
  /\ wcpBuf = {}
  /\ wcpSeen = FALSE
  /\ txRetry = FALSE

\* Where the stream may resume: at or after the snapshot LSN, and no later
\* than just after resumeFromLsn = max(snapshot_lsn, last_checkpoint_lsn).
ResumePoints ==
  LET resumeFromLsn == IF snapLsn >= cpLsn THEN snapLsn ELSE cpLsn IN
  {p \in 1..MaxLsn + 1 : p >= snapLsn /\ p <= resumeFromLsn + 1}

\* Mutant: the constructor ignores options.keepaliveOp.
StartBatchNoKeepaliveOp ==
  /\ ~live
  /\ live' = TRUE
  /\ hasBatch' = TRUE
  /\ buf' = <<>>
  /\ pOp' = None
  /\ mLsn' = cpLsn
  /\ phase' = "idle"
  /\ pos' \in ResumePoints
  /\ saved' = 0
  /\ wcpBuf' = {} /\ wcpSeen' = FALSE /\ txRetry' = FALSE
  /\ UNCHANGED <<opLog, cpOp, cpLsn, keepOp, snapLsn, wcpStored>>

\* new MongoBucketBatch(options): the LSNs and keepalive_op come from the
\* sync_rules document; this.batch is an empty OperationBatch.
StartBatch ==
  /\ ~live
  /\ live' = TRUE
  /\ hasBatch' = TRUE
  /\ buf' = <<>>
  /\ pOp' = keepOp
  /\ mLsn' = cpLsn
  /\ phase' = "idle"
  /\ pos' \in ResumePoints
  /\ saved' = 0
  /\ wcpBuf' = {} /\ wcpSeen' = FALSE /\ txRetry' = FALSE
  /\ UNCHANGED <<opLog, cpOp, cpLsn, keepOp, snapLsn, wcpStored>>

\* The batch object and the stream position are gone: a thrown error ended
\* the stream, or startBatch returned.
DropBatch ==
  /\ live' = FALSE
  /\ hasBatch' = FALSE
  /\ buf' = <<>>
  /\ pOp' = None
  /\ mLsn' = 0
  /\ phase' = "idle"
  /\ pos' = 0
  /\ saved' = 0
  /\ wcpBuf' = {} /\ wcpSeen' = FALSE /\ txRetry' = FALSE
  /\ UNCHANGED <<opLog, cpOp, cpLsn, keepOp, snapLsn, wcpStored>>

\* save(record): push onto this.batch; a full batch is flushed before
\* save returns.
Save ==
  /\ live /\ phase = "idle"
  /\ pos \in Lsns \ Keepalives /\ saved < TxnOps[pos]
  /\ buf' = Append(buf, [lsn |-> pos, n |-> saved + 1])
  /\ hasBatch' = TRUE
  /\ saved' = saved + 1
  /\ phase' = IF Len(buf') >= BatchLimit THEN "save" ELSE "idle"
  /\ UNCHANGED <<opLog, cpOp, cpLsn, keepOp, snapLsn, live, pOp, mLsn, pos,
                 wcpStored, wcpBuf, wcpSeen, txRetry>>

\* addCustomWriteCheckpoint(): the transaction at pos pushes its write
\* checkpoint onto write_checkpoint_batch, before its commit.
AddCustomWriteCheckpoint ==
  /\ live /\ phase = "idle"
  /\ pos \in WcpAt /\ ~wcpSeen
  /\ wcpBuf' = wcpBuf \cup {pos}
  /\ wcpSeen' = TRUE
  /\ UNCHANGED <<opLog, cpOp, cpLsn, keepOp, snapLsn, live, hasBatch, buf,
                 pOp, mLsn, phase, pos, saved, wcpStored, txRetry>>

\* flush() loops while this.batch or write_checkpoint_batch is non-empty;
\* flushInner() is also running while its transaction is being retried.
FlushPending == hasBatch \/ wcpBuf /= {} \/ txRetry

\* flushInner() committed: one storage transaction writes up to TxnLimit
\* ops with ids after the sequence's last, then the custom write
\* checkpoints with the next id, and clears write_checkpoint_batch; the
\* rest stays in this.batch.  Even an empty batch sets persisted_op to
\* opSeq.last().
FlushInner ==
  /\ live /\ phase /= "idle" /\ FlushPending
  /\ LET k == IF Len(buf) < TxnLimit THEN Len(buf) ELSE TxnLimit IN
       /\ opLog' = opLog \o SubSeq(buf, 1, k)
                         \o (IF wcpBuf /= {} THEN <<WcpOp>> ELSE <<>>)
       /\ buf' = SubSeq(buf, k + 1, Len(buf))
       /\ hasBatch' = (k < Len(buf))
       /\ pOp' = Len(opLog')
  /\ wcpStored' = wcpStored \cup wcpBuf
  /\ wcpBuf' = {}
  /\ txRetry' = FALSE
  /\ UNCHANGED <<cpOp, cpLsn, keepOp, snapLsn, live, mLsn, phase, pos, saved,
                 wcpSeen>>

\* A TransientTransactionError (a write conflict with another write stream,
\* or at commit) aborts flushInner's transaction: nothing it wrote stays,
\* and withTransaction runs the callback again.  When the error came after
\* the callback wrote the custom write checkpoints, the callback has
\* already set write_checkpoint_batch = [].  At most one abort per
\* flushInner (the retry bound).
FlushAborted(afterWcp) ==
  /\ live /\ phase /= "idle" /\ (hasBatch \/ wcpBuf /= {}) /\ ~txRetry
  /\ txRetry' = TRUE
  /\ wcpBuf' = IF afterWcp THEN {} ELSE wcpBuf
  /\ UNCHANGED <<opLog, cpOp, cpLsn, keepOp, snapLsn, live, hasBatch, buf,
                 pOp, mLsn, phase, pos, saved, wcpStored, wcpSeen>>

\* flush() returns to save().
SaveFlushed ==
  /\ live /\ phase = "save" /\ ~FlushPending
  /\ phase' = "idle"
  /\ UNCHANGED <<opLog, cpOp, cpLsn, keepOp, snapLsn, live, hasBatch, buf,
                 pOp, mLsn, pos, saved, wcpStored, wcpBuf, wcpSeen, txRetry>>

\* The source transaction at pos is complete: commit(lsn) flushes first.
Commit ==
  /\ live /\ phase = "idle"
  /\ pos \in Lsns \ Keepalives /\ saved = TxnOps[pos]
  /\ pos \in WcpAt => wcpSeen
  /\ phase' = "commit"
  /\ UNCHANGED <<opLog, cpOp, cpLsn, keepOp, snapLsn, live, hasBatch, buf,
                 pOp, mLsn, pos, saved, wcpStored, wcpBuf, wcpSeen, txRetry>>

\* Mutant: a replayed transaction is not recognised as one.
CommitApplyNoReplayCheck(createEmpty) ==
  /\ live /\ phase = "commit" /\ ~FlushPending
  /\ CASE pos < Ncb ->
            /\ keepOp' = pOp
            /\ UNCHANGED <<cpOp, cpLsn, snapLsn, pOp, mLsn>>
       [] ~createEmpty /\ pOp = None ->
            UNCHANGED <<cpOp, cpLsn, keepOp, snapLsn, pOp, mLsn>>
       [] OTHER ->
            /\ cpLsn' = pos
            /\ cpOp' = IF pOp /= None THEN pOp ELSE cpOp
            /\ keepOp' = None
            /\ snapLsn' = 0
            /\ pOp' = None
            /\ mLsn' = pos
  /\ phase' = "idle"
  /\ pos' = pos + 1
  /\ saved' = 0
  /\ wcpSeen' = FALSE
  /\ UNCHANGED <<opLog, live, hasBatch, buf, wcpStored, wcpBuf, txRetry>>

\* commit(lsn) after its flush, with the caller's createEmptyCheckpoints:
\* a replayed transaction before last_checkpoint_lsn is skipped; before
\* no_checkpoint_before only keepalive_op is persisted; otherwise the
\* checkpoint moves to persisted_op at lsn and snapshot_lsn is unset.
CommitApply(createEmpty) ==
  /\ live /\ phase = "commit" /\ ~FlushPending
  /\ CASE mLsn /= 0 /\ pos < mLsn ->
            UNCHANGED <<cpOp, cpLsn, keepOp, snapLsn, pOp, mLsn>>
       [] pos < Ncb ->
            /\ keepOp' = pOp
            /\ UNCHANGED <<cpOp, cpLsn, snapLsn, pOp, mLsn>>
       [] ~createEmpty /\ pOp = None ->
            UNCHANGED <<cpOp, cpLsn, keepOp, snapLsn, pOp, mLsn>>
       [] OTHER ->
            /\ cpLsn' = pos
            /\ cpOp' = IF pOp /= None THEN pOp ELSE cpOp
            /\ keepOp' = None
            /\ snapLsn' = 0
            /\ pOp' = None
            /\ mLsn' = pos
  /\ phase' = "idle"
  /\ pos' = pos + 1
  /\ saved' = 0
  /\ wcpSeen' = FALSE
  /\ UNCHANGED <<opLog, live, hasBatch, buf, wcpStored, wcpBuf, txRetry>>

\* Mutant: the keepalive without a persisted_op moves only the in-memory LSN.
KeepaliveNoLsn ==
  /\ live /\ phase = "idle"
  /\ pos \in Keepalives
  /\ CASE (mLsn /= 0 /\ pos <= mLsn) \/ pos < Ncb ->
            /\ pos' = pos + 1
            /\ UNCHANGED <<cpLsn, snapLsn, mLsn, phase>>
       [] pOp /= None ->
            /\ phase' = "commit"
            /\ UNCHANGED <<cpLsn, snapLsn, mLsn, pos>>
       [] OTHER ->
            /\ mLsn' = pos
            /\ pos' = pos + 1
            /\ UNCHANGED <<cpLsn, snapLsn, phase>>
  /\ UNCHANGED <<opLog, cpOp, keepOp, live, hasBatch, buf, pOp, saved,
                 wcpStored, wcpBuf, wcpSeen, txRetry>>

\* keepalive(lsn): ignored at or before last_checkpoint_lsn and before
\* no_checkpoint_before; with a persisted_op it is commit(lsn); otherwise
\* last_checkpoint_lsn moves and snapshot_lsn is unset.
Keepalive ==
  /\ live /\ phase = "idle"
  /\ pos \in Keepalives
  /\ CASE (mLsn /= 0 /\ pos <= mLsn) \/ pos < Ncb ->
            /\ pos' = pos + 1
            /\ UNCHANGED <<cpLsn, snapLsn, mLsn, phase>>
       [] pOp /= None ->
            /\ phase' = "commit"
            /\ UNCHANGED <<cpLsn, snapLsn, mLsn, pos>>
       [] OTHER ->
            /\ cpLsn' = pos
            /\ snapLsn' = 0
            /\ mLsn' = pos
            /\ pos' = pos + 1
            /\ UNCHANGED phase
  /\ UNCHANGED <<opLog, cpOp, keepOp, live, hasBatch, buf, pOp, saved,
                 wcpStored, wcpBuf, wcpSeen, txRetry>>

\* setResumeLsn(lsn) during initial replication, between transactions:
\* snapshot_lsn records the last position fully processed.
SetResumeLsn ==
  /\ live /\ phase = "idle" /\ saved = 0 /\ ~wcpSeen
  /\ cpLsn = 0 /\ pos > 1
  /\ snapLsn' = pos - 1
  /\ UNCHANGED <<opLog, cpOp, cpLsn, keepOp, live, hasBatch, buf, pOp, mLsn,
                 phase, pos, saved, wcpStored, wcpBuf, wcpSeen, txRetry>>

\* The stream's replicate() returned: startBatch flushes what is buffered,
\* without a commit.
Finish ==
  /\ live /\ phase = "idle"
  /\ phase' = "final"
  /\ UNCHANGED <<opLog, cpOp, cpLsn, keepOp, snapLsn, live, hasBatch, buf,
                 pOp, mLsn, pos, saved, wcpStored, wcpBuf, wcpSeen, txRetry>>

\* startBatch returns and the batch is dropped.
Finished ==
  /\ live /\ phase = "final" /\ ~FlushPending
  /\ DropBatch

-----------------------------------------------------------------------------
(* Properties                                                              *)

TypeOK ==
  /\ opLog \in Seq([lsn : Lsns, n : Nat] \cup {WcpOp})
  /\ {cpOp, keepOp, pOp} \subseteq {None} \cup 0..Len(opLog)
  /\ {cpLsn, snapLsn, mLsn} \subseteq 0..MaxLsn
  /\ live \in BOOLEAN /\ hasBatch \in BOOLEAN
  /\ buf \in Seq([lsn : Lsns, n : Nat])
  /\ phase \in {"idle", "save", "commit", "final"}
  /\ pos \in 0..MaxLsn + 1
  /\ wcpStored \subseteq WcpAt /\ wcpBuf \subseteq WcpAt
  /\ wcpSeen \in BOOLEAN /\ txRetry \in BOOLEAN

\* Ops visible at the checkpoint: ids up to last_checkpoint.
Visible == {opLog[i] : i \in 1..cpOp} \ {WcpOp}

\* The checkpoint as the sync service reads it: last_checkpoint_lsn and the
\* row changes of the ops up to last_checkpoint.
Promise == INSTANCE CheckpointPrefix WITH lsn <- cpLsn, shown <- Visible

\* The batch implements CheckpointPrefix: across failures, restarts and
\* replays, each checkpoint shows exactly the row changes of the source
\* transactions up to last_checkpoint_lsn (none missing, none from a later
\* transaction flushed before a failure), and last_checkpoint_lsn only
\* moves forward, never before no_checkpoint_before.  Ops flushed before
\* no_checkpoint_before must reach the checkpoint through keepalive_op
\* (commit / keepalive / the constructor's persisted_op).
CheckpointRefinement == Promise!Spec

\* No committed row change is ever missing from the checkpoint: across
\* failures that lose a half-flushed batch, restarts that resume past the
\* snapshot and replays, every row change of a transaction at or before
\* last_checkpoint_lsn is among the ops up to last_checkpoint.  Ops flushed
\* before no_checkpoint_before reach the checkpoint only through
\* keepalive_op and the constructor's persisted_op.
CheckpointComplete == Promise!RowsUpTo(cpLsn) \subseteq Visible

\* The checkpoint only moves forward: last_checkpoint and
\* last_checkpoint_lsn never decrease, and a new last_checkpoint_lsn is
\* never before no_checkpoint_before, whatever a replay delivers again.
CheckpointMonotone ==
  [][/\ cpLsn' >= cpLsn
     /\ cpOp' >= cpOp
     /\ cpLsn' /= cpLsn => cpLsn' >= Ncb]_bvars

\* Every custom write checkpoint of a transaction at or before
\* last_checkpoint_lsn is in the write_checkpoints collection: commit(lsn)
\* flushes write_checkpoint_batch before it moves the checkpoint, so a
\* client whose write checkpoint was added is answered once the checkpoint
\* passes it, even when the flush's transaction was retried.
WriteCheckpointsPersisted ==
  \A l \in WcpAt : l <= cpLsn => l \in wcpStored

=============================================================================
