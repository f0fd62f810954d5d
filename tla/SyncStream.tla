----------------------------- MODULE SyncStream -----------------------------
(***************************************************************************)
(* The per-connection sync loop of packages/service-core/src/sync/sync.ts *)
(* (streamResponseInner, bucketDataInBatches, bucketDataBatch) together    *)
(* with the connection's BucketChecksumState and BucketParameterState.    *)
(*                                                                         *)
(* Storage is abstracted to what the loop reads: the op log per bucket,   *)
(* the committed checkpoint, and the parameter rows that decide which     *)
(* dynamic buckets the user sees.  Replication writes ops and commits;    *)
(* every commit overwrites each connection's last-value mailbox.          *)
(* Connections share the global data-fetch semaphore (syncSemaphore).     *)
(*                                                                         *)
(* A bucket checksum is abstracted to the number of ops of the bucket up  *)
(* to the checkpoint: ops are never rewritten below a committed           *)
(* checkpoint here, so the count changes exactly when the sum does.       *)
(* The client is modelled by what it keeps: the checksums of the last     *)
(* checkpoint line, and per bucket the position and number of ops held.   *)
(***************************************************************************)
EXTENDS Integers, FiniteSets, Sequences, SequencesExt, TLC

CONSTANTS
  Conns,           \* connections (model values)
  Buckets,         \* bucket names; the natural order is bucket_name ASC
  StaticBuckets,   \* buckets every user has (querier.staticBuckets)
  InitAccess,      \* dynamic buckets the user has before any parameter write
  BucketPriority,  \* bucket -> priority 0..3, 0 is the highest
  MaxOp,           \* bound on the op id sequence
  BatchLimit,      \* rows per getBucketDataBatch query (DEFAULT_DOCUMENT_BATCH_LIMIT)
  ChunkRows,       \* rows per chunk before the size limit splits it
  RaceThreshold,   \* syncedOperations needed before racing a new checkpoint (1000)
  MaxActive,       \* permits of syncSemaphore (MAX_ACTIVE_CONNECTIONS)
  MaxBuckets       \* context.maxBuckets: buckets a connection may have

ASSUME
  /\ Buckets \subseteq Nat /\ StaticBuckets \subseteq Buckets
  /\ InitAccess \subseteq Buckets \ StaticBuckets
  /\ BucketPriority \in [Buckets -> 0..3]
  /\ MaxOp \in Nat /\ BatchLimit \in Nat \ {0} /\ ChunkRows \in Nat \ {0}
  /\ RaceThreshold \in Nat \ {0} /\ MaxActive \in Nat \ {0}
  /\ MaxBuckets \in Nat

DynamicBuckets == Buckets \ StaticBuckets
HasDynamic     == DynamicBuckets # {}   \* querier.hasDynamicBuckets
NoValue        == -1

VARIABLES
  \* storage, written by replication
  lastOp,       \* op_id sequence
  bucketOps,    \* bucket -> set of op ids
  grants,       \* parameter rows: set of [op, buckets]
  checkpoint,   \* last_checkpoint of the active sync rules
  \* checkpoint watcher per connection
  inbox,        \* LastValueSink slot: newest undelivered checkpoint or NoValue
  seen,         \* checkpoint of the previous update delivered to the loop
  \* streamResponseInner and bucketDataBatch
  pc,           \* "await", "prio", "acquire", "chunks", "end", "closed"
  aborted,      \* the connection signal
  abortBatch,   \* abortCheckpointController
  race,         \* nextCheckpointPromise: "none", "waiting", "resolved"
  raceCp,       \* checkpoint the race resolved with
  didPartial,   \* didCompletePartialSync
  synced,       \* syncedOperations, capped at RaceThreshold
  curCp,        \* next.value.base.checkpoint of this iteration
  toFetch,      \* bucketsToFetch of this iteration
  prios,        \* priorities still to sync, in loop order
  curPrio,      \* priority of the running bucketDataInBatches
  chunks,       \* chunks of the running getBucketDataBatch, not yet consumed
  hasMore,      \* has_more of bucketDataBatch
  slots,        \* free permits of syncSemaphore
  holding,      \* connection holds a permit
  \* BucketChecksumState / BucketParameterState
  positions,    \* bucketDataPositions: bucket -> start_op_id
  lastSums,     \* lastChecksums (valid when hasSums)
  hasSums,
  pending,      \* pendingBucketDownloads
  dynCache,     \* cachedDynamicBuckets (valid when hasCache)
  hasCache,
  \* client
  clientSums,   \* checksums from the checkpoint lines received
  clientPos,    \* bucket -> op id the client holds data up to
  clientCount,  \* bucket -> number of ops the client holds
  frame         \* the last frame sent on the connection

storageVars == <<lastOp, bucketOps, grants, checkpoint>>
loopVars    == <<pc, aborted, abortBatch, race, raceCp, didPartial, synced, curCp,
                 toFetch, prios, curPrio, chunks, hasMore>>
stateVars   == <<positions, lastSums, hasSums, pending, dynCache, hasCache>>
clientVars  == <<clientSums, clientPos, clientCount, frame>>
vars == <<storageVars, inbox, seen, loopVars, slots, holding, stateVars, clientVars>>

-----------------------------------------------------------------------------
(* Storage reads *)

Checksum(b, cp) == Cardinality({o \in bucketOps[b] : o <= cp})

\* getParameterSets(checkpoint): the newest parameter row with id <= checkpoint
AccessAt(cp) ==
  LET gs == {g \in grants : g.op <= cp}
  IN IF gs = {} THEN InitAccess
     ELSE (CHOOSE g \in gs : \A h \in gs : h.op <= g.op).buckets

\* Every bucket the user can see at a checkpoint.
BucketsAt(cp) == StaticBuckets \cup AccessAt(cp)

\* getBucketDataBatch (Postgres): rows ordered by bucket_name, op_id with
\* start < op_id <= checkpoint, LIMIT BatchLimit, cut into chunks of one
\* bucket each; a chunk cut by the size limit has has_more = TRUE and the
\* next chunk continues after it; the final chunk has has_more iff the
\* limit was reached.
RowLess(x, y) == x[1] < y[1] \/ (x[1] = y[1] /\ x[2] < y[2])

BatchRows(filtered, cp) ==
  LET rows == SetToSortSeq(UNION {{<<b, o>> : o \in {x \in bucketOps[b] : filtered[b] < x /\ x <= cp}}
                                  : b \in DOMAIN filtered}, RowLess)
  IN IF Len(rows) > BatchLimit THEN SubSeq(rows, 1, BatchLimit) ELSE rows

\* One row appended to the chunks built so far.
AddRow(filtered, acc, row) ==
  IF acc # <<>> /\ Last(acc).bucket = row[1] /\ Last(acc).n < ChunkRows
  THEN [acc EXCEPT ![Len(acc)].next = row[2], ![Len(acc)].n = @ + 1]
  ELSE IF acc # <<>> /\ Last(acc).bucket = row[1]
  THEN Append([acc EXCEPT ![Len(acc)].hasMore = TRUE],
              [bucket |-> row[1], after |-> Last(acc).next, next |-> row[2], n |-> 1, hasMore |-> FALSE])
  ELSE Append(acc, [bucket |-> row[1], after |-> filtered[row[1]], next |-> row[2], n |-> 1, hasMore |-> FALSE])

BatchChunks(filtered, cp) ==
  LET rows == BatchRows(filtered, cp)
      cs   == FoldLeft(LAMBDA acc, row : AddRow(filtered, acc, row), <<>>, rows)
  IN IF cs = <<>> THEN cs ELSE [cs EXCEPT ![Len(cs)].hasMore = Len(rows) >= BatchLimit]

-----------------------------------------------------------------------------
(* BucketParameterState.getCheckpointUpdate.  The update delivered with   *)
(* the checkpoint either invalidates everything or lists exactly the data *)
(* buckets and parameter lookups changed since the previous delivery.     *)

CheckpointUpdate(c, cp, invalidate) ==
  LET changed      == {b \in Buckets : \E o \in bucketOps[b] : seen[c] < o /\ o <= cp}
      paramChanged == invalidate \/ \E g \in grants : seen[c] < g.op /\ g.op <= cp
      requery      == paramChanged \/ ~hasCache[c]
      dyn          == IF requery THEN AccessAt(cp) ELSE dynCache[c]
      all          == IF HasDynamic THEN invalidate \/ requery ELSE invalidate
      current      == StaticBuckets \cup (IF HasDynamic THEN dyn ELSE {})
  IN [buckets |-> current,
      all     |-> all,
      updated |-> IF all THEN {} ELSE changed \cap current,
      cache   |-> IF HasDynamic THEN dyn ELSE dynCache[c],
      cached  |-> HasDynamic \/ hasCache[c]]

\* Mutant: an INVALIDATE_ALL update is taken as "nothing changed".
NewSumsIgnoringAll(c, cp, u) ==
  [b \in u.buckets |->
     IF b \in u.updated \/ ~hasSums[c] \/ b \notin DOMAIN lastSums[c] THEN Checksum(b, cp)
     ELSE lastSums[c][b]]

\* buildNextCheckpointLine: checksums of the new bucket set, reusing the
\* last checksums of buckets the update says are unchanged.
NewSums(c, cp, u) ==
  [b \in u.buckets |->
     IF u.all \/ b \in u.updated THEN Checksum(b, cp)
     ELSE IF hasSums[c] /\ b \in DOMAIN lastSums[c] THEN lastSums[c][b]
     ELSE Assert(FALSE, "Existing checksum not found for bucket")]

DiffUpdated(c, sums) == {b \in DOMAIN sums : b \notin DOMAIN lastSums[c] \/ lastSums[c][b] # sums[b]}
DiffRemoved(c, sums) == DOMAIN lastSums[c] \ DOMAIN sums

\* Mutant: buckets still pending from a preempted checkpoint are dropped.
BucketsToFetchNoPending(c, sums) ==
  IF hasSums[c] THEN DiffUpdated(c, sums) ELSE DOMAIN sums

\* bucketsToFetch: the changed buckets and the ones still pending download
BucketsToFetch(c, sums) ==
  IF hasSums[c] THEN DiffUpdated(c, sums) \cup (pending[c] \cap DOMAIN sums)
  ELSE DOMAIN sums

\* No bucket changed or removed since the last line: nothing is sent.
IsNullLine(c, sums) ==
  hasSums[c] /\ DiffUpdated(c, sums) = {} /\ DiffRemoved(c, sums) = {}

\* Mutant: every bucket restarts from 0 on each checkpoint.
NewPositionsReset(c, u) == [b \in u.buckets |-> 0]

\* dataBucketsNew: keep start_op_id of known buckets, new ones start at 0
NewPositions(c, u) ==
  [b \in u.buckets |-> IF b \in DOMAIN positions[c] THEN positions[c][b] ELSE 0]

\* bucketsByPriority, sorted with (a, b) => b[0] - a[0]
SortedPriorities(S) == SetToSortSeq({BucketPriority[b] : b \in S}, LAMBDA x, y : x > y)

\* maybeRaceForNewCheckpoint
MaybeRace(c, partial, ops) ==
  IF partial /\ ops >= RaceThreshold /\ race[c] = "none" THEN "waiting" ELSE race[c]

Capped(n) == IF n > RaceThreshold THEN RaceThreshold ELSE n

-----------------------------------------------------------------------------
EmptyFn == [b \in {} |-> 0]

Frame(kind, cp, prio, bucket, after, next) ==
  [kind |-> kind, cp |-> cp, prio |-> prio, bucket |-> bucket, after |-> after, next |-> next]

Init ==
  /\ lastOp = 0 /\ bucketOps = [b \in Buckets |-> {}] /\ grants = {} /\ checkpoint = 0
  /\ inbox = [c \in Conns |-> 0] /\ seen = [c \in Conns |-> NoValue]
  /\ pc = [c \in Conns |-> "await"] /\ aborted = [c \in Conns |-> FALSE]
  /\ abortBatch = [c \in Conns |-> FALSE] /\ race = [c \in Conns |-> "none"]
  /\ raceCp = [c \in Conns |-> 0] /\ didPartial = [c \in Conns |-> FALSE]
  /\ synced = [c \in Conns |-> 0] /\ curCp = [c \in Conns |-> 0]
  /\ toFetch = [c \in Conns |-> {}] /\ prios = [c \in Conns |-> <<>>]
  /\ curPrio = [c \in Conns |-> 0] /\ chunks = [c \in Conns |-> <<>>]
  /\ hasMore = [c \in Conns |-> FALSE]
  /\ slots = MaxActive /\ holding = [c \in Conns |-> FALSE]
  /\ positions = [c \in Conns |-> EmptyFn] /\ lastSums = [c \in Conns |-> EmptyFn]
  /\ hasSums = [c \in Conns |-> FALSE] /\ pending = [c \in Conns |-> {}]
  /\ dynCache = [c \in Conns |-> {}] /\ hasCache = [c \in Conns |-> FALSE]
  /\ clientSums = [c \in Conns |-> EmptyFn] /\ clientPos = [c \in Conns |-> EmptyFn]
  /\ clientCount = [c \in Conns |-> EmptyFn]
  /\ frame = [c \in Conns |-> Frame("none", 0, 0, 0, 0, 0)]

-----------------------------------------------------------------------------
(* Replication: ops get ids from one sequence; a commit moves the         *)
(* checkpoint and notifies every open connection's watcher, whose         *)
(* LastValueSink keeps only the newest value.                             *)

WriteData(b) ==
  /\ lastOp < MaxOp
  /\ lastOp' = lastOp + 1
  /\ bucketOps' = [bucketOps EXCEPT ![b] = @ \cup {lastOp + 1}]
  /\ UNCHANGED <<grants, checkpoint, inbox, seen, loopVars, slots, holding, stateVars, clientVars>>

WriteParams(S) ==
  /\ lastOp < MaxOp
  /\ S # AccessAt(lastOp)
  /\ lastOp' = lastOp + 1
  /\ grants' = grants \cup {[op |-> lastOp + 1, buckets |-> S]}
  /\ UNCHANGED <<bucketOps, checkpoint, inbox, seen, loopVars, slots, holding, stateVars, clientVars>>

Commit ==
  /\ lastOp > checkpoint
  /\ checkpoint' = lastOp
  /\ inbox' = [c \in Conns |-> IF pc[c] # "closed" /\ ~aborted[c] THEN lastOp ELSE inbox[c]]
  /\ UNCHANGED <<lastOp, bucketOps, grants, seen, loopVars, slots, holding, stateVars, clientVars>>

-----------------------------------------------------------------------------
(* streamResponseInner *)

\* The client goes away: the connection signal is aborted.
Disconnect(c) ==
  /\ pc[c] # "closed" /\ ~aborted[c]
  /\ aborted' = [aborted EXCEPT ![c] = TRUE]
  /\ UNCHANGED <<storageVars, inbox, seen, pc, abortBatch, race, raceCp, didPartial, synced,
                 curCp, toFetch, prios, curPrio, chunks, hasMore, slots, holding, stateVars, clientVars>>

\* The tail of buildNextCheckpointLine: a checkpoint_diff (or a full
\* checkpoint when there are no last checksums) is sent; the client replaces
\* its checksums with the line's and keeps its data only for buckets still
\* listed; lastChecksums and pendingBucketDownloads are saved.
SendLine(c, cp, sums, fetch) ==
  /\ lastSums' = [lastSums EXCEPT ![c] = sums]
  /\ hasSums' = [hasSums EXCEPT ![c] = TRUE]
  /\ pending' = [pending EXCEPT ![c] = fetch]
  /\ clientSums' = [clientSums EXCEPT ![c] = sums]
  /\ clientPos' = [clientPos EXCEPT ![c] =
       [b \in DOMAIN sums |-> IF b \in DOMAIN clientPos[c] THEN clientPos[c][b] ELSE 0]]
  /\ clientCount' = [clientCount EXCEPT ![c] =
       [b \in DOMAIN sums |-> IF b \in DOMAIN clientCount[c] THEN clientCount[c][b] ELSE 0]]
  /\ frame' = [frame EXCEPT ![c] = Frame("line", cp, 0, 0, 0, 0)]

\* Top of the loop: await nextCheckpointPromise (a won race) or the next
\* checkpoint, and build the checkpoint line.  A null line continues the
\* loop; otherwise the line is sent and the priority loop starts.
NextCheckpoint(c) ==
  /\ pc[c] = "await" /\ ~aborted[c]
  /\ race[c] = "resolved" \/ inbox[c] # NoValue
  /\ LET cp == IF race[c] = "resolved" THEN raceCp[c] ELSE inbox[c]
     IN \E invalidate \in IF seen[c] = NoValue THEN {TRUE} ELSE BOOLEAN :
        LET u    == CheckpointUpdate(c, cp, invalidate)
            sums == IF u.all \/ hasSums[c] THEN NewSums(c, cp, u)
                    ELSE Assert(FALSE, "Bucket diff received without existing checksums")
            fetch == BucketsToFetch(c, sums)
        IN /\ Cardinality(u.buckets) <= MaxBuckets
           /\ inbox' = IF race[c] = "resolved" THEN inbox ELSE [inbox EXCEPT ![c] = NoValue]
           /\ seen' = [seen EXCEPT ![c] = cp]
           /\ race' = [race EXCEPT ![c] = "none"]
           /\ positions' = [positions EXCEPT ![c] = NewPositions(c, u)]
           /\ dynCache' = [dynCache EXCEPT ![c] = u.cache]
           /\ hasCache' = [hasCache EXCEPT ![c] = u.cached]
           /\ IF IsNullLine(c, sums)
              THEN UNCHANGED <<pc, abortBatch, didPartial, synced, curCp, toFetch, prios,
                               lastSums, hasSums, pending, clientVars>>
              ELSE /\ SendLine(c, cp, sums, fetch)
                   /\ curCp' = [curCp EXCEPT ![c] = cp]
                   /\ toFetch' = [toFetch EXCEPT ![c] = fetch]
                   /\ prios' = [prios EXCEPT ![c] = SortedPriorities(fetch)]
                   /\ abortBatch' = [abortBatch EXCEPT ![c] = FALSE]
                   /\ didPartial' = [didPartial EXCEPT ![c] = FALSE]
                   /\ synced' = [synced EXCEPT ![c] = 0]
                   /\ pc' = [pc EXCEPT ![c] = "prio"]
  /\ UNCHANGED <<storageVars, aborted, raceCp, curPrio, chunks, hasMore, slots, holding>>

\* The stream ends with an error: streamResponse rethrows it and its
\* finally aborts the connection's controller.
Fail(c) ==
  /\ pc' = [pc EXCEPT ![c] = "closed"]
  /\ aborted' = [aborted EXCEPT ![c] = TRUE]

\* buildNextCheckpointLine throws "Too many buckets" when the user's bucket
\* set at the next checkpoint exceeds maxBuckets: no line is sent.
TooManyBuckets(c) ==
  /\ pc[c] = "await" /\ ~aborted[c]
  /\ race[c] = "resolved" \/ inbox[c] # NoValue
  /\ LET cp == IF race[c] = "resolved" THEN raceCp[c] ELSE inbox[c]
     IN \E invalidate \in IF seen[c] = NoValue THEN {TRUE} ELSE BOOLEAN :
          Cardinality(CheckpointUpdate(c, cp, invalidate).buckets) > MaxBuckets
  /\ Fail(c)
  /\ UNCHANGED <<storageVars, inbox, seen, abortBatch, race, raceCp, didPartial, synced,
                 curCp, toFetch, prios, curPrio, chunks, hasMore, slots, holding, stateVars, clientVars>>

\* The awaited checkpoint iterator throws AbortError: the stream ends.
CloseIdle(c) ==
  /\ pc[c] = "await" /\ aborted[c]
  /\ pc' = [pc EXCEPT ![c] = "closed"]
  /\ UNCHANGED <<storageVars, inbox, seen, aborted, abortBatch, race, raceCp, didPartial, synced,
                 curCp, toFetch, prios, curPrio, chunks, hasMore, slots, holding, stateVars, clientVars>>

\* for (const [priority, buckets] of bucketsByPriority): start the next
\* priority unless the checkpoint or the connection was aborted.
StartPriority(c) ==
  /\ pc[c] = "prio" /\ prios[c] # <<>>
  /\ ~abortBatch[c] /\ ~aborted[c]
  /\ curPrio' = [curPrio EXCEPT ![c] = Head(prios[c])]
  /\ prios' = [prios EXCEPT ![c] = Tail(@)]
  /\ pc' = [pc EXCEPT ![c] = "acquire"]
  /\ UNCHANGED <<storageVars, inbox, seen, aborted, abortBatch, race, raceCp, didPartial, synced,
                 curCp, toFetch, chunks, hasMore, slots, holding, stateVars, clientVars>>

\* The priority loop is done or broken; sleep and loop while not aborted.
EndIteration(c) ==
  /\ pc[c] = "prio"
  /\ prios[c] = <<>> \/ abortBatch[c] \/ aborted[c]
  /\ pc' = [pc EXCEPT ![c] = IF aborted[c] THEN "closed" ELSE "await"]
  /\ UNCHANGED <<storageVars, inbox, seen, aborted, abortBatch, race, raceCp, didPartial, synced,
                 curCp, toFetch, prios, curPrio, chunks, hasMore, slots, holding, stateVars, clientVars>>

-----------------------------------------------------------------------------
(* bucketDataInBatches / bucketDataBatch *)

\* Loop head of bucketDataInBatches.  With the connection aborted the loop
\* exits and the priority loop marks the partial sync done; otherwise
\* bucketDataBatch takes a permit and queries one batch of the buckets of
\* this priority from their current positions.
BucketsOfPriority(c) == {b \in toFetch[c] : BucketPriority[b] = curPrio[c]}

FilteredPositions(c) ==
  [b \in BucketsOfPriority(c) \cap DOMAIN positions[c] |-> positions[c][b]]

LeaveBatches(c) ==
  /\ pc[c] = "acquire" /\ aborted[c]
  /\ pc' = [pc EXCEPT ![c] = "prio"]
  /\ didPartial' = [didPartial EXCEPT ![c] = TRUE]
  /\ race' = [race EXCEPT ![c] = MaybeRace(c, TRUE, synced[c])]
  /\ UNCHANGED <<storageVars, inbox, seen, aborted, abortBatch, raceCp, synced,
                 curCp, toFetch, prios, curPrio, chunks, hasMore, slots, holding, stateVars, clientVars>>

Acquire(c) ==
  /\ pc[c] = "acquire" /\ ~aborted[c]
  /\ slots > 0
  /\ slots' = slots - 1
  /\ holding' = [holding EXCEPT ![c] = TRUE]
  /\ LET cs == BatchChunks(FilteredPositions(c), curCp[c])
     IN /\ chunks' = [chunks EXCEPT ![c] = cs]
        /\ pc' = [pc EXCEPT ![c] = IF cs = <<>> THEN "end" ELSE "chunks"]
  /\ hasMore' = [hasMore EXCEPT ![c] = FALSE]
  /\ UNCHANGED <<storageVars, inbox, seen, aborted, abortBatch, race, raceCp, didPartial, synced,
                 curCp, toFetch, prios, curPrio, stateVars, clientVars>>

\* syncSemaphore is wrapped in withTimeout: a wait for a permit longer than
\* MUTEX_ACQUIRE_TIMEOUT rejects with "Timeout while waiting for data",
\* which ends the stream with that error.  The waiter holds no permit.
AcquireTimeout(c) ==
  /\ pc[c] = "acquire" /\ ~aborted[c]
  /\ slots = 0
  /\ Fail(c)
  /\ UNCHANGED <<storageVars, inbox, seen, abortBatch, race, raceCp, didPartial, synced,
                 curCp, toFetch, prios, curPrio, chunks, hasMore, slots, holding, stateVars, clientVars>>

\* Mutant: the abort check leaves the loop without releasing the permit.
AbortChunksNoRelease(c) ==
  /\ pc[c] = "chunks" /\ aborted[c]
  /\ holding' = [holding EXCEPT ![c] = FALSE]
  /\ pc' = [pc EXCEPT ![c] = "acquire"]
  /\ UNCHANGED <<storageVars, inbox, seen, aborted, abortBatch, race, raceCp, didPartial, synced,
                 curCp, toFetch, prios, curPrio, chunks, hasMore, slots, stateVars, clientVars>>

\* Mutant: the abort check breaks out of the chunk loop instead of
\* returning, so the release runs here and again after the loop.
AbortChunksFallThrough(c) ==
  /\ pc[c] = "chunks" /\ aborted[c]
  /\ slots' = slots + 1
  /\ holding' = [holding EXCEPT ![c] = FALSE]
  /\ pc' = [pc EXCEPT ![c] = "end"]
  /\ UNCHANGED <<storageVars, inbox, seen, aborted, abortBatch, race, raceCp, didPartial, synced,
                 curCp, toFetch, prios, curPrio, chunks, hasMore, stateVars, clientVars>>

\* The connection was aborted while chunks remain: return, releasing.
AbortChunks(c) ==
  /\ pc[c] = "chunks" /\ aborted[c]
  /\ slots' = slots + 1
  /\ holding' = [holding EXCEPT ![c] = FALSE]
  /\ pc' = [pc EXCEPT ![c] = "acquire"]
  /\ UNCHANGED <<storageVars, inbox, seen, aborted, abortBatch, race, raceCp, didPartial, synced,
                 curCp, toFetch, prios, curPrio, chunks, hasMore, stateVars, clientVars>>

\* One chunk: send its data, count the rows (onRowsSent), advance the
\* bucket position (updateState), and break if the checkpoint was aborted.
SendChunk(c) ==
  /\ pc[c] = "chunks" /\ ~aborted[c]
  /\ LET ch == Head(chunks[c])
         b  == ch.bucket
         ops == Capped(synced[c] + ch.n)
     IN /\ hasMore' = [hasMore EXCEPT ![c] = @ \/ ch.hasMore]
        /\ synced' = [synced EXCEPT ![c] = ops]
        /\ race' = [race EXCEPT ![c] = MaybeRace(c, didPartial[c], ops)]
        /\ positions' = [positions EXCEPT ![c][b] = ch.next]
        /\ pending' = [pending EXCEPT ![c] = IF ch.hasMore THEN @ ELSE @ \ {b}]
        /\ chunks' = [chunks EXCEPT ![c] = Tail(@)]
        /\ pc' = [pc EXCEPT ![c] = IF abortBatch[c] \/ Tail(chunks[c]) = <<>> THEN "end" ELSE "chunks"]
        /\ clientPos' = [clientPos EXCEPT ![c][b] = ch.next]
        /\ clientCount' = [clientCount EXCEPT ![c][b] = @ + ch.n]
        /\ frame' = [frame EXCEPT ![c] = Frame("data", curCp[c], 0, b, ch.after, ch.next)]
  /\ UNCHANGED <<storageVars, inbox, seen, aborted, abortBatch, raceCp, didPartial, curCp,
                 toFetch, prios, curPrio, slots, holding, lastSums, hasSums, dynCache, hasCache,
                 clientSums>>

\* Mutant: the batch counts as done even when a chunk had has_more.
EndBatchIgnoreMore(c) ==
  /\ pc[c] = "end"
  /\ slots' = slots + 1
  /\ holding' = [holding EXCEPT ![c] = FALSE]
  /\ frame' = [frame EXCEPT ![c] =
       Frame(IF prios[c] = <<>> THEN "complete" ELSE "partial", curCp[c], curPrio[c], 0, 0, 0)]
  /\ pc' = [pc EXCEPT ![c] = "prio"]
  /\ didPartial' = [didPartial EXCEPT ![c] = TRUE]
  /\ race' = [race EXCEPT ![c] = MaybeRace(c, TRUE, synced[c])]
  /\ UNCHANGED <<storageVars, inbox, seen, aborted, abortBatch, raceCp, synced, curCp, toFetch,
                 prios, curPrio, chunks, hasMore, stateVars, clientSums, clientPos, clientCount>>

\* After the chunks: without has_more, send (partial_)checkpoint_complete and
\* let the priority loop go on; release the permit either way.
EndBatch(c) ==
  /\ pc[c] = "end"
  /\ slots' = slots + 1
  /\ holding' = [holding EXCEPT ![c] = FALSE]
  /\ IF hasMore[c]
     THEN /\ pc' = [pc EXCEPT ![c] = "acquire"]
          /\ UNCHANGED <<didPartial, race, frame>>
     ELSE LET isLast == prios[c] = <<>>
          IN /\ frame' = [frame EXCEPT ![c] =
                  Frame(IF isLast THEN "complete" ELSE "partial", curCp[c], curPrio[c], 0, 0, 0)]
             /\ pc' = [pc EXCEPT ![c] = "prio"]
             /\ didPartial' = [didPartial EXCEPT ![c] = TRUE]
             /\ race' = [race EXCEPT ![c] = MaybeRace(c, TRUE, synced[c])]
  /\ UNCHANGED <<storageVars, inbox, seen, aborted, abortBatch, raceCp, synced, curCp, toFetch,
                 prios, curPrio, chunks, hasMore, stateVars, clientSums, clientPos, clientCount>>

\* The raced newCheckpoints.next() resolves: keep the value and abort the
\* checkpoint in progress.
RaceResolve(c) ==
  /\ race[c] = "waiting" /\ inbox[c] # NoValue /\ ~aborted[c]
  /\ pc[c] \notin {"await", "closed"}
  /\ race' = [race EXCEPT ![c] = "resolved"]
  /\ raceCp' = [raceCp EXCEPT ![c] = inbox[c]]
  /\ inbox' = [inbox EXCEPT ![c] = NoValue]
  /\ abortBatch' = [abortBatch EXCEPT ![c] = TRUE]
  /\ UNCHANGED <<storageVars, seen, pc, aborted, didPartial, synced, curCp, toFetch, prios,
                 curPrio, chunks, hasMore, slots, holding, stateVars, clientVars>>

-----------------------------------------------------------------------------
Replication ==
  \/ \E b \in Buckets : WriteData(b)
  \/ \E S \in SUBSET DynamicBuckets : WriteParams(S)
  \/ Commit

Connection(c) ==
  \/ NextCheckpoint(c) \/ TooManyBuckets(c) \/ CloseIdle(c) \/ StartPriority(c)
  \/ EndIteration(c) \/ LeaveBatches(c) \/ Acquire(c) \/ AcquireTimeout(c)
  \/ AbortChunks(c) \/ SendChunk(c) \/ EndBatch(c)
  \/ RaceResolve(c)

Next == Replication \/ \E c \in Conns : Connection(c) \/ Disconnect(c)

\* Every connection step is taken when enabled; the semaphore queue is
\* FIFO, so a permit freed infinitely often is eventually taken (SF).
Fairness ==
  \A c \in Conns :
    /\ WF_vars(NextCheckpoint(c)) /\ WF_vars(TooManyBuckets(c)) /\ WF_vars(CloseIdle(c)) /\ WF_vars(StartPriority(c))
    /\ WF_vars(EndIteration(c)) /\ WF_vars(LeaveBatches(c)) /\ SF_vars(Acquire(c))
    /\ WF_vars(AbortChunks(c)) /\ WF_vars(SendChunk(c)) /\ WF_vars(EndBatch(c))
    /\ WF_vars(RaceResolve(c))

Spec == Init /\ [][Next]_vars

FairSpec == Spec /\ Fairness

-----------------------------------------------------------------------------
(* Properties *)

Frames == [kind : {"none", "line", "data", "partial", "complete"}, cp : 0..MaxOp,
           prio : 0..3, bucket : Buckets \cup {0}, after : 0..MaxOp, next : 0..MaxOp]
Fn(S, T) == UNION {[D -> T] : D \in SUBSET S}

TypeOK ==
  /\ lastOp \in 0..MaxOp /\ checkpoint \in 0..lastOp
  /\ bucketOps \in [Buckets -> SUBSET (1..lastOp)]
  /\ inbox \in [Conns -> {NoValue} \cup 0..MaxOp] /\ seen \in [Conns -> {NoValue} \cup 0..MaxOp]
  /\ pc \in [Conns -> {"await", "prio", "acquire", "chunks", "end", "closed"}]
  /\ race \in [Conns -> {"none", "waiting", "resolved"}]
  /\ synced \in [Conns -> 0..RaceThreshold]
  /\ slots \in 0..MaxActive /\ holding \in [Conns -> BOOLEAN]
  /\ \A c \in Conns : /\ positions[c] \in Fn(Buckets, 0..MaxOp)
                      /\ clientPos[c] \in Fn(Buckets, 0..MaxOp)
                      /\ pending[c] \subseteq Buckets /\ toFetch[c] \subseteq Buckets
  /\ frame \in [Conns -> Frames]

\* The semaphore's permits are conserved: every permit bucketDataBatch takes
\* is given back on each way out of it (completion, has_more, abort).
SemaphoreConserved == slots + Cardinality({c \in Conns : holding[c]}) = MaxActive

\* After every checkpoint line, full or diff, the checksums the client holds
\* are exactly the checksums of the buckets the user has at that checkpoint
\* (buildNextCheckpointLine's reuse of lastChecksums, the diff, the dynamic
\* bucket cache).
ClientSumsMatch ==
  \A c \in Conns : hasSums[c] =>
    clientSums[c] = [b \in BucketsAt(curCp[c]) |-> Checksum(b, curCp[c])]

\* The client holds, for every bucket, exactly the ops up to its position,
\* each once, and never past the checkpoint it is syncing: data frames
\* continue where the previous one stopped (bucketDataPositions, the
\* has_more continuation and the reset of a re-added bucket).
ClientHoldsExactOps ==
  \A c \in Conns : \A b \in DOMAIN clientPos[c] :
    /\ clientPos[c][b] <= curCp[c]
    /\ clientCount[c][b] = Cardinality({o \in bucketOps[b] : o <= clientPos[c][b]})


\* The connection is idle, its last frame is checkpoint_complete for the
\* last line it sent, and what the client holds is the user's data at the
\* committed checkpoint: a null line changes nothing the client sees.
Synced(c) ==
  /\ pc[c] = "await" /\ inbox[c] = NoValue /\ race[c] # "resolved"
  /\ frame[c].kind = "complete" /\ frame[c].cp = curCp[c]
  /\ clientSums[c] = [b \in BucketsAt(checkpoint) |-> Checksum(b, checkpoint)]
  /\ \A b \in DOMAIN clientSums[c] : clientCount[c][b] = clientSums[c][b]

\* Once replication stops, every connection still open ends synced to the
\* last checkpoint with checkpoint_complete sent: the priority loop, the
\* preemption by a newer checkpoint, pendingBucketDownloads and the
\* semaphore never leave a connection short of data or of the completion.
EventuallySynced == \A c \in Conns : <>[](aborted[c] \/ Synced(c))


\* partial_checkpoint_complete{priority: p} is sent only once the client
\* holds every bucket of a higher priority (a smaller number) in full:
\* priority 0 ships first (the sort of bucketsByPriority).
PartialAfterHigherPriorities ==
  \A c \in Conns : frame[c].kind = "partial" =>
    \A b \in DOMAIN clientSums[c] :
      BucketPriority[b] < frame[c].prio => clientCount[c][b] = clientSums[c][b]

\* A (partial_)checkpoint_complete line follows all data of its priority
\* class (all buckets for checkpoint_complete), also when the checkpoint
\* is preempted in the middle of the class (the abort_batch break).
CompletionAfterClassData ==
  \A c \in Conns : frame[c].kind \in {"partial", "complete"} =>
    \A b \in DOMAIN clientSums[c] :
      (frame[c].kind = "complete" \/ BucketPriority[b] = frame[c].prio)
        => clientCount[c][b] = clientSums[c][b]

=============================================================================
