# TLA+ models of the PowerSync service sync pipeline

This directory holds TLA+ models of the PowerSync service sources under `src/`.
It also holds the TLC configurations that check them.
`PROJECT.json` lists the components, the runs, the mutants and the map from each definition to the source lines it models.
It also lists the findings and the hazards.

## 1. The system

| Part | Source | State it keeps | Operations |
|---|---|---|---|
| Replication writer | `MongoBucketBatch` (`src/unnamed/part_011`) | In-memory batch, `persisted_op`, `last_checkpoint_lsn`, `no_checkpoint_before_lsn`. Persisted: bucket ops, current data, sync-rules document. | `save`, `flush`/`flushInner`, `replicateBatch`, `commit`, `keepalive`, `truncate`, `drop`, `markSnapshotDone`, `autoActivate`. |
| Bucket storage (Postgres) | `PostgresSyncRulesStorage` (`src/unnamed/part_006`) | Bucket data by `(bucket, op_id)`, parameter rows, checksum cache, active checkpoint. | `getBucketDataBatch` (chunking), `getChecksums`, `getParameterSets`, `watchCheckpointChanges`, `clear`, `terminate`. |
| Demultiplexer | `src/unnamed/part_003` | One upstream loop per key, subscriber sinks, abort controller. | `subscribe`, `addSink`, `removeSink`, `loop`. |
| Sync stream | `sync.ts` (`streamResponse`, `streamResponseInner`, `bucketDataInBatches`, `bucketDataBatch`) | Per connection: the checkpoint iterator, the `nextCheckpointPromise` race, per-checkpoint abort controller, synced-op count. | Await a checkpoint, build its line, loop over priorities, fetch batches under the semaphore, send chunks and completion lines. |
| Checksum state | `BucketChecksumState`, `BucketParameterState` (`sync.ts`) | `bucketDataPositions`, `lastChecksums`, `lastWriteCheckpoint`, `pendingBucketDownloads`, cached dynamic buckets. | `buildNextCheckpointLine`, `getCheckpointUpdate`, `getFilteredBucketPositions`, `updateBucketPosition`. |
| Global semaphore | `syncSemaphore` (`sync.ts`) | Free permits (`MAX_ACTIVE_CONNECTIONS`). | Acquire (abortable), release. |
| Migration agent | `AbstractMigrationAgent` (`src/unnamed/part_001`) | Migration log in a store, lock. | `run`, `execute`, `writeLogsToStore`. |
| Key store | `KeyStore.ts`, `RemoteJWKSCollector` (`part_004`) | Cached key set. | `verifyJwt`, `getCachedKey`, refresh. |
| LSN encoding | `MongoLSN` (`part_007`) | None; a pure encoding. | `comparable`, `fromSerialized`. |

How they interact:
1. Replication writes ops, each with an id from one global sequence.
2. Replication then commits, which moves `last_checkpoint`.
3. The commit notifies the storage's checkpoint watchers.
4. Each watcher feeds a connection through a last-value sink, which keeps only the newest checkpoint.
5. A connection diffs the checkpoint's bucket checksums against what it last sent and sends the diff.
6. It then fetches the data of changed buckets, priority by priority, holding one of the global semaphore's permits per batch.
7. Once at least one priority is done and 1000 ops have been sent, it races the next checkpoint against the rest of the fetch.
8. A new checkpoint that wins the race aborts the checkpoint in progress.

What is hard, and what a test rarely reaches:
- The race aborts in the middle of a priority class.
- Buckets left pending by a preempted checkpoint must be carried over to the next one.
- Permits must come back on every way out of a batch, including a disconnect.
- The checksum reuse and the dynamic-bucket cache depend on the storage's update contract being exact.
- Chunks continue after a size split and stop at the batch limit.
- In replication:
  - a restart replays transactions, and `commit` and `keepalive` guard on LSNs;
  - `keepalive_op` carries the op across a restart;
  - a large source transaction is split across storage transactions.
- The demultiplexer's first value can race the values already buffered for a subscriber.

## 2. `SyncStream`

`SyncStream.tla` models one or more connections of the sync stream together with their checksum state and the storage reads they make.
`MC_SyncStream.tla` gives the constants for TLC.

| Model | Code |
|---|---|
| `lastOp`, `bucketOps`, `grants`, `checkpoint` | Op-id sequence, `bucket_data`, parameter rows, `last_checkpoint` |
| `WriteData`, `WriteParams`, `Commit` | Replication's saves and `MongoBucketBatch.commit` (new `last_checkpoint` + `notifyCheckpoint`) |
| `inbox`, `seen` | The `LastValueSink` behind `watchCheckpointChanges`, and the previous update delivered |
| `Disconnect`, `CloseIdle` | The connection signal and the `AbortError` out of the awaited iterator |
| `NextCheckpoint`, `TooManyBuckets` | Top of the `do … while` in `streamResponseInner`, with `buildNextCheckpointLine` and `getCheckpointUpdate`; the "Too many buckets" throw when the user's buckets exceed `maxBuckets` (`MaxBuckets`) |
| `Fail` | An error out of the loop: `streamResponse` rethrows it and its `finally` aborts the controller |
| `StartPriority`, `EndIteration` | The `for` over `bucketsByPriority`, its abort `break`, the 10 ms sleep, and `while (!signal.aborted)` |
| `AcquireTimeout` | `syncSemaphore`'s `withTimeout`: a wait for a permit rejects after `MUTEX_ACQUIRE_TIMEOUT` and the stream fails |
| `LeaveBatches`, `Acquire`, `AbortChunks`, `SendChunk`, `EndBatch` | `bucketDataInBatches` and `bucketDataBatch`: acquire, the chunk loop with its abort checks and `updateBucketPosition`, then the completion line and `release()` |
| `RaceResolve` | The promise built by `maybeRaceForNewCheckpoint` resolving and aborting the checkpoint |
| `BatchRows`, `AddRow`, `BatchChunks` | Postgres `getBucketDataBatch`: the ordered, limited query and its chunking |
| `client*`, `frame` | What the client holds: line checksums, per-bucket position and op count, and the last frame sent |

### Abstractions

- **Checksums.** A bucket's checksum is the number of its ops up to the checkpoint.
  - Ops below a committed checkpoint never change here, since MOVE and CLEAR are not modelled.
  - So the count changes exactly when the sum does.
- **Chunk size.** Row sizes are one unit, so the chunk size limit becomes `ChunkRows` rows.
- **Update contract.** The storage's update is the first of these two forms:
  - `INVALIDATE_ALL`, which Postgres always sends and which is always the first update;
  - the exact set of data buckets and parameter lookups changed since the previous update delivered to that connection (the Mongo storage).
  - The contract itself is not under `src` and is written from the spec.
  - `DiffUpdated`/`DiffRemoved` (`util.checksumsDiff`) and the semaphore acquire are also written from the spec.
- **Abortable acquire.** When no permit is free and the checkpoint is aborted, `acquireSemaphoreAbortable` returns `'aborted'` and `bucketDataInBatches` retries.
  - That retry changes no state, so it is a stutter.
- **Version mismatches.** `sync.ts` and `BucketChecksumState` are at slightly different versions in `src`:
  - `updateState(bucket, next_after)` is modelled as `updateBucketPosition({bucket, nextAfter, hasMore: r.has_more})`;
  - the chunk field `batch` is modelled as the `chunkData` the storage yields;
  - `streamResponseInner` passes the client's positions as `initialBucketState`, while the constructor reads `initialBucketPositions` and needs a `syncContext` the caller does not pass. The two halves are from different versions, so the model starts every connection with no positions, which is what the code as written does, and does not model a reconnect that resumes from the client's positions.
- **Not yet modelled:**
  - write checkpoints (`lastWriteCheckpoint` is always equal);
  - `targetOp` invalidation;
  - the `maxParameterQueryResults` error;
  - the token-expiry stream;
  - frame encoding.
- **One user.** All connections are the same user, so they see the same dynamic buckets.

### Properties

| Definition | Kind | What it says |
|---|---|---|
| `TypeOK` | Invariant | Types. |
| `ClientSumsMatch` | Invariant | After every line, the client's checksums are exactly those of the user's buckets at that checkpoint. This exercises checksum reuse, diffs and the dynamic-bucket cache. |
| `ClientHoldsExactOps` | Invariant | Per bucket, the client holds exactly the ops up to its position, each once, and never past its checkpoint. |
| `SemaphoreConserved` | Invariant | Free permits plus holders equals `MaxActive`. |
| `EventuallySynced` | Liveness | Once replication stops, every open connection ends idle with `checkpoint_complete` as its last frame, holding exactly the user's data at the final checkpoint. |
| `PartialAfterHigherPriorities` | Invariant | `partial_checkpoint_complete{p}` comes only after all buckets of higher priority than `p` are complete. |
| `CompletionAfterClassData` | Invariant | A completion line comes only after all data of its class. |

### Runs

| Run | Config | Bounds | Result |
|---|---|---|---|
| `sync_one_conn` | `MC_SyncStream.cfg` | 1 connection, buckets {1 static prio 3, 2 dynamic prio 0, 3 dynamic prio 1}, at most 2 buckets per connection, 3 ops, batch 2 rows, chunks of 1 row, race after 1 op; checks `CompletionAfterClassData` too, which holds when no two buckets share a priority | Pass (103k states) |
| `sync_shared_semaphore` | `MC_SyncStreamShared.cfg` | 2 connections, 1 permit, 2 static buckets of different priority, 2 ops, batches of 1 row | Pass |
| `sync_priority_order` | `MC_SyncStreamOrder.cfg` | Race disabled | Violation (finding 1) |
| `sync_break_completion` | `MC_SyncStreamBreak.cfg` | Two buckets in one class, 4 ops | Violation (finding 2) |
| `sync_pending_dropped` | `MC_SyncStreamPending.cfg` | A bucket the user never sees | Violation (finding 3) |
| `sync_removal_no_complete` | `MC_SyncStreamRemoval.cfg` | A parameter write removes a bucket | Violation (finding 4) |

`EventuallySynced` passes in `sync_shared_semaphore` (two connections, two ops). No passing run checks liveness after preemption: that run slot now holds `repl_wcp_retry`. `sync_pending_dropped` shows that this liveness fails anyway when the next checkpoint changes only buckets the user does not see.

Why these bounds are enough:
- The batch and chunk limits are below the number of ops, so size splits, `has_more` continuations and the batch limit all happen.
- A race threshold of 1 makes preemption reachable after the first priority.
- With three buckets and parameter writes, buckets are added, removed and re-added.
- With two connections and one permit, one connection waits for the other's permit, can disconnect while holding it, and can time out waiting.
- In `sync_one_conn`, `maxBuckets` is 2, so a parameter write that gives the user all three buckets ends the connection with "Too many buckets", while two-bucket sets are still explored. The other configs set it to the number of buckets.

Deadlock checking is off in every config, for two reasons: once `MaxOp` ops are committed the server waits for a checkpoint that never comes, and a closed connection stops.

**Fairness.** Each connection step is weakly fair: the event loop runs every ready continuation. `Acquire` is strongly fair because the semaphore queues waiters in FIFO order. Replication, `Disconnect` and `AcquireTimeout` have no fairness, so no liveness result relies on a timeout. `TooManyBuckets` is weakly fair like `NextCheckpoint`: it is the same await resolving. Liveness is stated for the state after replication stops.

### Findings

1. **Priority order is inverted.**
   - `sync.ts:155` sorts priorities in descending order, so priority 3 ships first.
   - `partial_checkpoint_complete{3}` is sent before any priority-0 data.
   - The spec says priority 0 ships first, and so does the comment on the line.
2. **Completion is sent after an aborted batch.**
   - A new checkpoint aborts `abort_batch`, and the chunk loop breaks after the chunk in progress (`sync.ts:364`).
   - If no chunk so far had `has_more`, the completion line for the class is still sent.
   - Chunks of other buckets in that class were never sent.
3. **Preempted buckets are dropped.**
   - After preemption, a new checkpoint that changes only buckets the user does not see gives a null line (`sync.ts:557`).
   - A null line ignores `pendingBucketDownloads`.
   - The skipped lower-priority buckets stay unsynced until some later change to the user's buckets.
4. **A removal-only diff has no completion.**
   - Completion lines come only from inside `bucketDataBatch`.
   - A `checkpoint_diff` that only removes buckets therefore never gets a `checkpoint_complete`.

5. **Key-not-found with collector errors never refreshes.**
   - Spec section 4.8 says a token that selects no key triggers a background refresh.
   - When the collector also returned errors, `getCachedKey` throws `errors[0]` first (`KeyStore.ts:180`), so `noKeyFound` is not called.
   - TLC finds this in the initial state: an empty key list with errors.
6. **An error from `end()` loses the invalidation.**
   - In `replicateOnce`, `await connectionManager.end()` runs in a `finally` (`ChangeStreamReplicationJob.ts:102`).
   - If it rejects after a `ChangeStreamInvalidatedError`, its error replaces the invalidation.
   - `replicate()` then only logs, and `restartReplication` is never called, contrary to the comment at line 45.

## 3. `Demultiplexer`

`Demultiplexer.tla` models the `Demultiplexer` of `src/unnamed/part_003`: one upstream loop, started lazily and aborted when its last subscriber leaves, fanned out to per-key `LastValueSink`s.

| Model | Code |
|---|---|
| generation `g`, `cur` | One call of `start()`: its `AbortController`, listeners map and loop. `cur` is the generation that `subscribers`/`abortController`/`currentSource` point to, or 0 |
| `Start`, `AddSink` | `start()` and `addSink`, which start a generation when none is current |
| `RemoveSink` | `removeSink`: looks in the current map; an emptied map aborts and clears the fields |
| `LoopNext`, `SinkWrite`, `Fail`, `SourceEnd`, `SourceError` | The `for await` loop: per doc, abort check, empty-map check, write to the key's sinks; `end`/`error` of the sinks; `finally` clearing the fields only if they are still this generation's (`ClearIfCurrent`) |
| `Write`, `queue` | A store write, queued on every running generation's change stream (spec-modelled) |
| `Subscribe`, `FirstValue`, `Consume`, `Leave` | `subscribe()`: add the sink, await `getFirstValue` (a direct read of the store), then iterate the sink; `Consume` is the `LastValueSink` reader (spec-modelled) |

Run `demux_registration` (`MC_Demultiplexer.cfg`): 2 subscribers, 2 keys, 2 writes per key, 2 generations, subscriber symmetry. It passes with 787k states. It checks three properties:
- `RegisteredLive`: an open subscriber is registered in the current, running generation.
  - Teardown of an old generation must not clear a newer one.
- `AtMostOneUpstream`: only the current generation runs unaborted.
- `LatestDelivered`: a streaming subscriber with nothing in flight has seen the store's latest value.

Two generations are enough for a teardown to race a restart. Deadlock checking is off because the model stops once the writes are used up.

The first value can race values already queued on the change stream, so a subscriber can receive value 1 after a first value of 2. That is recorded as a hazard, not a property: the code does not promise monotone values.

## 4. `KeyStore`

`KeyStore.tla` models `KeyStore.verifyJwt`, `verifyInternal` and `getCachedKey` as operators over the key list and error flag a collector returns.
- `Init` and `Refresh` model the collector, written from the spec.
- `SpecKey` and `SpecAccepts` restate section 4.8 of the spec declaratively.
- Signature checking is equality of secrets.

`VerifyMatchesSpec` states that, for every key list of up to 2 keys and every token, `verifyJwt` accepts exactly what section 4.8 accepts, with the same key. It held over those bounds (2.4k states), but no run checks it any more: the project keeps to 12 runs, and its run gave way to `repl_replay_checkpoint`. The kid-without-fallback and `maxAge`-boundary hazards are listed without a property for that reason.

| Run | Result |
|---|---|
| `keystore_miss_refresh` (`MC_KeyStoreRefresh.cfg`) | Violation (finding 5). |

## 5. `ReplicationJob`

`ReplicationJob.tla` models `ChangeStreamReplicationJob.replicate`, `replicateLoop` and `replicateOnce`. The job loop has these steps:
1. Check `isStopped`.
2. Create a connection manager.
3. Wait on the rate limiter.
4. Re-check `isStopped`.
5. Run one ChangeStream.
6. `end()` the connection in the `finally`.
7. Sleep 5 s.
An invalidation leaves the loop, and `restartReplication` is called. `Stop` is `stop()` aborting the controller; `stopped` is only ever read at the awaits.

Fairness: each await of the job (loop check, rate limiter, `end()`, the timer, the restart) is weakly fair. A running stream returns only once the job is stopped: a healthy stream may replicate forever.

| Run | Result |
|---|---|
| `repl_pipeline` (`MC_ReplicationPipeline.cfg`) | Pass; see section 6. It checks `NoStreamAfterStop`, `StopTerminates` and `TypeOK` (which bounds open connection managers to one) on the job composed with the bucket batch, along with the batch's properties. |
| `repl_job_invalidation` (`MC_ReplicationJobRestart.cfg`) | Violation (finding 6). |

## 6. `BucketBatch` and `ReplicationPipeline`

`BucketBatch.tla` models `MongoBucketBatch` (`part_011`): how the replication writer moves the checkpoint, and what survives when the batch is lost.

The source is a log of positions `1..MaxLsn`:
- a position is a transaction of `TxnOps[l]` row changes of synced tables, ending in `commit(l)`;
- a position in `Keepalives` is a `keepalive(l)`.

A persisted op is the row change it came from; its op id is its index in `opLog`. Row evaluation into buckets is abstracted away: a replayed transaction writes a second copy of the same row changes.

| Model | Code |
|---|---|
| `opLog`, `cpOp`, `cpLsn`, `keepOp`, `snapLsn` | The op log and the `sync_rules` document: `last_checkpoint`, `last_checkpoint_lsn`, `keepalive_op`, `snapshot_lsn` |
| `live`, `hasBatch`, `buf`, `pOp`, `mLsn`, `phase` | The batch object: `this.batch`, `persisted_op`, the in-memory `last_checkpoint_lsn`, and which call's `flush()` is running |
| `wcpStored`, `wcpBuf`, `wcpSeen`, `txRetry` | The `write_checkpoints` collection, `write_checkpoint_batch`, whether the transaction at `pos` added its write checkpoint, and a `withTransaction` retry in progress |
| `AddCustomWriteCheckpoint` | `addCustomWriteCheckpoint`, called for a transaction in `WcpAt` before its commit |
| `StartBatch`, `ResumePoints` | The constructor: `persisted_op = keepaliveOp`, LSNs from the document. The stream resumes from `resumeFromLsn = max(snapshot_lsn, last_checkpoint_lsn)` |
| `Save`, `SaveFlushed` | `save` and its flush of a full batch |
| `FlushInner`, `FlushPending` | `flushInner` and `replicateBatch`: one committed storage transaction of at most `TxnLimit` ops, then the custom write checkpoints with the next op id (`WcpOp`), then `write_checkpoint_batch = []`. An empty batch still sets `persisted_op = opSeq.last()`. `flush()` loops while `this.batch` or `write_checkpoint_batch` is non-empty |
| `FlushAborted(afterWcp)` | `withTransaction`: a `TransientTransactionError` aborts the transaction, which rolls back its writes, and the callback runs again. If the error came after the callback wrote the write checkpoints, `write_checkpoint_batch` is already empty |
| `Commit`, `CommitApply` | `commit`: flush, then, in order: the replay skip (`lsn < last_checkpoint_lsn`); `keepalive_op` before `no_checkpoint_before`; the empty-checkpoint skip; the checkpoint, which also unsets `snapshot_lsn` |
| `Keepalive` | `keepalive`: ignored at or before the checkpoint LSN and before `no_checkpoint_before`. Otherwise `commit(lsn)` if `persisted_op` is set, else only the LSN moves and `snapshot_lsn` is unset |
| `SetResumeLsn` | `setResumeLsn` during initial replication |
| `Finish`, `Finished`, `DropBatch` | `startBatch`'s closing `flush()` and return; a failed stream losing the batch |

Fault model: at-least-once delivery. After a restart, the stream resumes anywhere from the snapshot LSN to just after `resumeFromLsn`. So transactions before the checkpoint may be replayed, and ops of a half-flushed transaction may be left behind.
- `ChangeStream` itself is not under `src`, so the resume, and where `setResumeLsn` is called, are written from the spec.
- The Mongo `startBatch` is not under `src` either. `ResumePoints`, `Finish` and `Finished` follow `PostgresSyncRulesStorage.startBatch` (`part_006`), which builds its batch from the same document fields.

`CheckpointPrefix.tla` is the abstract specification of what the writer promises the sync service. Its state is a checkpoint LSN and the set of row changes visible at it. Its one action, `Checkpoint(l)`, moves to an LSN `l` no earlier than the current one and no earlier than `no_checkpoint_before`, and shows exactly the row changes of the transactions up to `l`. Duplicate copies of a replayed row change are not told apart, because row changes are idempotent. `BucketBatch` instantiates it as `Promise` with a refinement mapping. A commit replayed at the checkpoint LSN is a stuttering step of the abstract spec.

`ReplicationPipeline.tla` composes `ReplicationJob` and `BucketBatch` through two named `INSTANCE`s:
- each ChangeStream the job creates starts a batch;
- source events are processed only while the job is not stopped;
- a flush in progress runs to its end;
- `StreamFails` drops the batch at any await, including between the two storage transactions of a split flush.

The job's retry loop is therefore the crash and restart of the batch.

Fairness: the job's awaits are weakly fair, and so are the batch's flush steps. An aborted stream ends between events. `SourceEvent` is weakly fair too: the change stream delivers every event of the finite source, as the event loop reads the next change whenever the previous call returned. Stream failures and transient aborts have no fairness.

Run `repl_pipeline` (`MC_ReplicationPipeline.cfg`) passes with 164k states in about 15 s. Bounds:
- 3 streams;
- 7 positions `<<2, 0, 0, 1, 1, 0, 0>>` with keepalives at 2, 3 and 6, and `no_checkpoint_before` at 3. The transactions at 4 and 5 follow each other, so a restart can resume at a checkpoint with the next transaction already flushed;
- a batch of 2 rows, and transactions of 1 op, so the two-row transaction is flushed in two halves;
- the one-row transaction at 4 carries a custom write checkpoint;
- at most one transient abort per `flushInner` (the code retries up to 20 times over 90 s; one abort already reaches both abort points, before and after the write-checkpoint write).

These bounds cover every branch:
- a keepalive ignored before `no_checkpoint_before`;
- the first checkpoint taken by a keepalive through `keepalive_op`;
- a keepalive that only moves the LSN;
- a commit with nothing saved;
- a replayed commit that is skipped;
- a replayed commit at the checkpoint LSN after the next transaction was flushed.

| Property | Kind | What it says |
|---|---|---|
| `CheckpointComplete` | Invariant | No row change of a transaction at or before `last_checkpoint_lsn` is missing from the ops up to `last_checkpoint`, across failures that lose a half-flushed batch, restarts and replays. Without the constructor's `keepaliveOp`, a restart that resumes after the snapshot checkpoints at `no_checkpoint_before` without the snapshot's ops. |
| `CheckpointMonotone` | Action | `last_checkpoint` and `last_checkpoint_lsn` never decrease, and a new LSN is never before `no_checkpoint_before`. |
| `CheckpointKeepsUp` | Liveness | If a batch eventually stays up and never reaches its closing flush, `last_checkpoint_lsn` eventually reaches the last commit or keepalive at or after `no_checkpoint_before`. This needs the keepalive path: after a replay or a restart with a pending `persisted_op`, only a keepalive can move the checkpoint. A keepalive that did not persist `last_checkpoint_lsn` breaks it. |

The code and spec section 4.1 differ in one place:
- the spec skips a commit with `lsn <= last_checkpoint_lsn`;
- the code skips only `lsn < last_checkpoint_lsn`.

`CheckpointRefinement` states the whole promise: the batch implements the abstract `CheckpointPrefix`, with `lsn <- last_checkpoint_lsn` and `shown <-` the row changes of the ops up to `last_checkpoint`. Each checkpoint must show exactly the row changes of the transactions up to its LSN, with none missing and none from a later transaction. It does not hold, so it is the one property of run `repl_replay_checkpoint` (`MC_ReplicationPipelineReplay.cfg`). That run uses the 6 positions `<<2, 0, 0, 1, 1, 0>>`, with keepalives at 2 and 3 and the other bounds as above. TLC finds it violated (finding 8).

8. **A replay at the checkpoint LSN checkpoints the next transaction's ops.**
   - `commit(lsn)` flushes first, then skips a re-applied transaction only when `lsn < last_checkpoint_lsn` (`part_011:665`). The comment there says no checkpoint is created until the replay is "past the last transaction". Spec section 4.1 makes `lsn ≤ last_checkpoint_lsn` an idempotent skip, and section 8, property 4, says a re-delivered transaction produces no new bucket ops.
   - Trace: the checkpoint reaches LSN 4. `commit(5)` flushes transaction 5's op, and the stream fails before the checkpoint moves. The restarted stream resumes at `resumeFromLsn` = 4, and the replayed `commit(4)` passes the check. It moves `last_checkpoint` to `persisted_op`, which is past transaction 5's op.
   - The checkpoint at LSN 4 then shows a row change of transaction 5. When a transaction is split over storage transactions, it shows only part of one.
   - The resume at `resumeFromLsn` itself is written from the spec's at-least-once delivery, because the Mongo ChangeStream is not under `src`. If the stream always resumed strictly after the checkpoint's LSN, this replay would not happen.

Run `repl_wcp_retry` (`MC_ReplicationPipelineWcp.cfg`, same bounds) checks only `WriteCheckpointsPersisted`: every custom write checkpoint of a transaction at or before `last_checkpoint_lsn` is in the `write_checkpoints` collection. TLC finds it violated. With the abort restricted to before the write-checkpoint write, it holds.

`markSnapshotDone` (`part_011:1053`) has the same shape: it sets `this.no_checkpoint_before_lsn` inside the transaction callback, before the `sync_rules` update. A retried callback sees the new value, skips the update, and `no_checkpoint_before` is never written. It is listed as a hazard. `markSnapshotDone` is not modelled (`no_checkpoint_before` is the constant `Ncb`), and a run of its own would exceed the run budget.

7. **A retried flush loses custom write checkpoints.**
   - `flushInner`'s transaction callback writes the custom write checkpoints and then sets `this.write_checkpoint_batch = []` (`part_011:175`) before the transaction commits.
   - After a `TransientTransactionError`, `session.withTransaction` rolls the transaction back and runs the callback again. The error can come from the `op_id_sequence` update after the callback, which the code's own comment expects to conflict with a concurrent write stream, or from the commit.
   - The retry sees an empty list, so it writes no write checkpoint. `flush()` then stops, and `commit(lsn)` moves the checkpoint past the transaction.
   - The write checkpoint is never stored, so a client waiting for it is never answered.

## 7. Plan

Modules, in order:
1. `SyncStream` (done: the core).
   - Next: write checkpoints on the sync side, `targetOp`/CLEAR invalidation, and the token stream.
2. `Demultiplexer` (done). Next: compose it with `SyncStream` as its checkpoint source.
3. `BucketBatch` (done, composed with the job in `ReplicationPipeline`). Refines `CheckpointPrefix`; custom write checkpoints and the transaction retry are modelled. Next: model truncate and `markSnapshotDone`.
4. `BucketChunks`: `getBucketDataBatch` as RECURSIVE operators, checked against a reference definition (all rows after the positions, split by bucket) over bounded inputs.
5. `ChecksumCache` (spec-modelled): partial checksums added to cached ones, shown to implement an abstract `getChecksums`.
6. `MigrationAgent`: up/down/count, the log saved after each step, a crash between a migration and its save.
7. `KeyStore` (done for `verifyJwt`). Next: the remote collector's caching and refresh timing.
8. `MongoLSN`: the comparable encoding preserves order (pure operator over small inputs).
9. `ReplicationJob` (done; composed with `BucketBatch`).

Abstract specifications worth stating:
- A sync connection refines "the client's view jumps from one consistent checkpoint to a later one".
- The demultiplexer refines "each subscriber sees a subsequence of the upstream values, starting at the latest".
- The bucket batch refines "a checkpoint shows exactly the transactions up to its LSN" (done: `CheckpointPrefix`).

The project keeps to at most 12 TLC runs, so new questions are asked by composing modules rather than by adding runs.

## 8. Not modelled

- `StorageEngine` start/shutdown: a `shutDown` during `getStorage`'s await misses the storage that opens afterwards. This is listed as a hazard. It has no property because the run budget is spent. Whether the two can overlap depends on the service's startup code, which is not under `src`. Folding it into an existing run was tried and rejected. The sync runs cannot be merged to free a run: with parameter-driven buckets, `EventuallySynced` is violated by findings the violation runs already record.
- `MigrationAgent` (`part_001`): the log sort and a crash between `up()` and the log save are listed as hazards. The agent needs a run of its own, and none is left.
- Checksum arithmetic: the 32-bit wrap lives in `ChecksumCache` and helpers not under `src`. `SyncStream` abstracts checksums to op counts.
- `SqlSyncRules` parsing, `compound-config-collector`, `schema-utils` and the Mongo `util` helpers: these are parsing, configuration and formatting code, with no concurrency or state TLC would add to unit tests.
- `checksumState.checkpointFilter` (`sync.ts:119`), passed to `watchWriteCheckpoint`: the filter decides which storage checkpoints wake a connection. `SyncStream` lets any new checkpoint reach a connection, which is a superset of what the filter lets through. `BucketChecksumState` and the watcher that applies the filter are not under `src`.
- Frame encoding and logging.
