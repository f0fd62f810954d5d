---------------------------- MODULE Demultiplexer ----------------------------
(***************************************************************************)
(* The Demultiplexer of part_003: one upstream iterator, started lazily by *)
(* the first subscriber and aborted when the last one leaves, fanned out   *)
(* to per-key LastValueSinks.                                              *)
(*                                                                         *)
(* Every call of start() is a generation g in 1..MaxGen: its own           *)
(* AbortController (aborted[g]), its own listeners map (sinks[g]) and its  *)
(* own loop (running[g]).  The fields subscribers, abortController and     *)
(* currentSource are always set and cleared together; cur names the       *)
(* generation they point to, or 0 for undefined.                           *)
(*                                                                         *)
(* The upstream is a change stream: a write to the store (ver) is queued   *)
(* on the iterator of every running generation and reaches the loop later  *)
(* (queue[g]), while getFirstValue reads the store directly.               *)
(***************************************************************************)
EXTENDS Integers, Sequences, FiniteSets

CONSTANTS
  Subs,     \* subscriber processes; each subscribe() call gets a fresh sink
  Keys,     \* demultiplexing keys (user ids)
  MaxVer,   \* bound on the writes per key
  MaxGen    \* bound on the number of upstream subscriptions started

None == -1
Gens == 1..MaxGen
Vals == 0..MaxVer

VARIABLES
  ver,      \* the store: current value per key
  gen,      \* number of upstream subscriptions started so far
  cur,      \* generation of this.subscribers / currentSource, 0 = undefined
  sinks,    \* sinks[g][k]: the sinks of key k in generation g's listeners map
  aborted,  \* aborted[g]: abortController.signal.aborted of generation g
  running,  \* running[g]: the loop of generation g has not finished
  queue,    \* queue[g]: docs the iterator of generation g has yet to yield
  spc,      \* subscriber: "idle", "first" (awaiting getFirstValue), "streaming"
  skey,     \* the key of the current subscription
  mailbox,  \* the single slot of the subscriber's LastValueSink
  sinkSt,   \* "open", "ended" or "errored"
  seen      \* the last value the subscriber's consumer received

vars == <<ver, gen, cur, sinks, aborted, running, queue,
          spc, skey, mailbox, sinkSt, seen>>

EmptyMap == [k \in Keys |-> {}]

MapEmpty(m) == \A k \in Keys : m[k] = {}

MapSinks(m) == UNION {m[k] : k \in Keys}

Init ==
  /\ ver = [k \in Keys |-> 0]
  /\ gen = 0
  /\ cur = 0
  /\ sinks = [g \in Gens |-> EmptyMap]
  /\ aborted = [g \in Gens |-> FALSE]
  /\ running = [g \in Gens |-> FALSE]
  /\ queue = [g \in Gens |-> <<>>]
  /\ spc = [s \in Subs |-> "idle"]
  /\ skey = [s \in Subs |-> CHOOSE k \in Keys : TRUE]
  /\ mailbox = [s \in Subs |-> None]
  /\ sinkSt = [s \in Subs |-> "open"]
  /\ seen = [s \in Subs |-> None]

-----------------------------------------------------------------------------
(* The upstream source.                                                    *)

\* A change to the store for key k: the iterator of every running
\* generation will yield it.
Write(k) ==
  /\ ver[k] < MaxVer
  /\ ver' = [ver EXCEPT ![k] = @ + 1]
  /\ queue' = [g \in Gens |->
                 IF running[g] THEN Append(queue[g], [key |-> k, val |-> ver[k] + 1])
                 ELSE queue[g]]
  /\ UNCHANGED <<gen, cur, sinks, aborted, running, spc, skey, mailbox, sinkSt, seen>>

-----------------------------------------------------------------------------
(* Demultiplexer.loop                                                      *)

\* Mutant: the finally block clears the shared state unconditionally.
ClearAlways(g) == cur' = 0

\* The finally block: clear the shared state only if it still belongs to
\* this generation, so that a newer start() is left alone.
ClearIfCurrent(g) == cur' = IF cur = g THEN 0 ELSE cur

\* The catch block, after the for-await threw: abort the controller, error
\* every sink of this generation's map, then run the finally block.
Fail(g) ==
  /\ aborted' = [aborted EXCEPT ![g] = TRUE]
  /\ sinkSt' = [s \in Subs |-> IF s \in MapSinks(sinks[g]) THEN "errored" ELSE sinkSt[s]]
  /\ ClearIfCurrent(g)
  /\ running' = [running EXCEPT ![g] = FALSE]
  /\ queue' = [queue EXCEPT ![g] = <<>>]

\* Mutant: a slot that keeps its first value instead of the last.
SinkWriteKeepFirst(S, doc) ==
  mailbox' = [s \in Subs |-> IF s \in S /\ mailbox[s] = None THEN doc.val ELSE mailbox[s]]

\* Mutant: sink.write(doc.key) instead of sink.write(doc.value).
SinkWriteKey(S, doc) ==
  mailbox' = [s \in Subs |-> IF s \in S THEN doc.key ELSE mailbox[s]]

\* sink.write on a LastValueSink: the new value overwrites the slot.
SinkWrite(S, doc) ==
  mailbox' = [s \in Subs |-> IF s \in S THEN doc.val ELSE mailbox[s]]

\* One iteration of the for-await over source.iterator.
LoopNext(g) ==
  /\ running[g]
  /\ queue[g] /= <<>>
  /\ LET doc == Head(queue[g]) IN
       \/ /\ aborted[g] \/ MapEmpty(sinks[g])
          /\ Fail(g)
          /\ UNCHANGED mailbox
       \/ /\ ~aborted[g] /\ ~MapEmpty(sinks[g])
          /\ queue' = [queue EXCEPT ![g] = Tail(@)]
          /\ SinkWrite(sinks[g][doc.key], doc)
             /\ UNCHANGED <<aborted, sinkSt, cur, running>>
  /\ UNCHANGED <<ver, gen, sinks, spc, skey, seen>>

\* The iterator completes (the source may end on its own or once it
\* observes the abort signal): end every sink of the map, then finally.
SourceEnd(g) ==
  /\ running[g]
  /\ queue[g] = <<>>
  /\ sinkSt' = [s \in Subs |-> IF s \in MapSinks(sinks[g]) THEN "ended" ELSE sinkSt[s]]
  /\ ClearIfCurrent(g)
  /\ running' = [running EXCEPT ![g] = FALSE]
  /\ UNCHANGED <<ver, gen, sinks, aborted, queue, spc, skey, mailbox, seen>>

\* The iterator throws.
SourceError(g) ==
  /\ running[g]
  /\ Fail(g)
  /\ UNCHANGED <<ver, gen, sinks, spc, skey, mailbox, seen>>


-----------------------------------------------------------------------------
(* Demultiplexer.start / addSink / removeSink / subscribe                   *)

\* start(): a new AbortController and a listeners map holding only this
\* sink become the shared state, and the loop of the new source begins.
Start(k, s) ==
  LET g == gen + 1 IN
  /\ gen < MaxGen
  /\ gen' = g
  /\ cur' = g
  /\ sinks' = [sinks EXCEPT ![g] = [EmptyMap EXCEPT ![k] = {s}]]
  /\ running' = [running EXCEPT ![g] = TRUE]
  /\ UNCHANGED aborted

\* addSink: start() without a current source, else add the sink to the
\* current map.
AddSink(k, s) ==
  IF cur = 0
  THEN Start(k, s)
  ELSE /\ sinks' = [sinks EXCEPT ![cur][k] = @ \cup {s}]
       /\ UNCHANGED <<gen, cur, running, aborted>>

\* Mutant: removeSink clears the shared state without aborting.
RemoveSinkNoAbort(k, s) ==
  IF cur = 0 \/ sinks[cur][k] = {}
  THEN UNCHANGED <<cur, sinks, aborted>>
  ELSE LET m == [sinks[cur] EXCEPT ![k] = @ \ {s}] IN
         /\ sinks' = [sinks EXCEPT ![cur] = m]
         /\ cur' = IF MapEmpty(m) THEN 0 ELSE cur
         /\ UNCHANGED aborted

\* removeSink: look the key up in the CURRENT map; when the map becomes
\* empty, abort the upstream and clear the shared state at once.
RemoveSink(k, s) ==
  IF cur = 0 \/ sinks[cur][k] = {}
  THEN UNCHANGED <<cur, sinks, aborted>>
  ELSE LET m == [sinks[cur] EXCEPT ![k] = @ \ {s}] IN
         /\ sinks' = [sinks EXCEPT ![cur] = m]
         /\ IF MapEmpty(m)
            THEN /\ aborted' = [aborted EXCEPT ![cur] = TRUE]
                 /\ cur' = 0
            ELSE UNCHANGED <<cur, aborted>>

\* subscribe(): a fresh LastValueSink, registered before getFirstValue is
\* awaited.
Subscribe(s, k) ==
  /\ spc[s] = "idle"
  /\ AddSink(k, s)
  /\ spc' = [spc EXCEPT ![s] = "first"]
  /\ skey' = [skey EXCEPT ![s] = k]
  /\ mailbox' = [mailbox EXCEPT ![s] = None]
  /\ sinkSt' = [sinkSt EXCEPT ![s] = "open"]
  /\ seen' = [seen EXCEPT ![s] = None]
  /\ UNCHANGED <<ver, queue>>

\* getFirstValue resolves with the store's value, which is yielded.
FirstValue(s) ==
  /\ spc[s] = "first"
  /\ seen' = [seen EXCEPT ![s] = ver[skey[s]]]
  /\ spc' = [spc EXCEPT ![s] = "streaming"]
  /\ UNCHANGED <<ver, gen, cur, sinks, aborted, running, queue, skey, mailbox, sinkSt>>

\* yield* sink.withSignal(signal): the consumer takes the slot's value.
Consume(s) ==
  /\ spc[s] = "streaming"
  /\ sinkSt[s] = "open"
  /\ mailbox[s] /= None
  /\ seen' = [seen EXCEPT ![s] = mailbox[s]]
  /\ mailbox' = [mailbox EXCEPT ![s] = None]
  /\ UNCHANGED <<ver, gen, cur, sinks, aborted, running, queue, spc, skey, sinkSt>>

\* The subscription ends: the sink was ended or errored, the consumer's
\* signal aborted, or getFirstValue rejected.  The finally block removes
\* the sink.
Leave(s) ==
  /\ spc[s] \in {"first", "streaming"}
  /\ RemoveSink(skey[s], s)
  /\ spc' = [spc EXCEPT ![s] = "idle"]
  /\ UNCHANGED <<ver, gen, running, queue, skey, mailbox, sinkSt, seen>>

Next ==
  \/ \E k \in Keys : Write(k)
  \/ \E g \in Gens : LoopNext(g) \/ SourceEnd(g) \/ SourceError(g)
  \/ \E s \in Subs :
       \/ \E k \in Keys : Subscribe(s, k)
       \/ FirstValue(s) \/ Consume(s) \/ Leave(s)

Spec == Init /\ [][Next]_vars

-----------------------------------------------------------------------------
(* Properties                                                              *)

TypeOK ==
  /\ ver \in [Keys -> Vals]
  /\ gen \in 0..MaxGen
  /\ cur \in 0..MaxGen
  /\ sinks \in [Gens -> [Keys -> SUBSET Subs]]
  /\ aborted \in [Gens -> BOOLEAN]
  /\ running \in [Gens -> BOOLEAN]
  /\ spc \in [Subs -> {"idle", "first", "streaming"}]
  /\ skey \in [Subs -> Keys]
  /\ mailbox \in [Subs -> Vals \cup {None}]
  /\ sinkSt \in [Subs -> {"open", "ended", "errored"}]
  /\ seen \in [Subs -> Vals \cup {None}]

\* A subscriber whose sink is still open is registered, under its key, in
\* the map of the current upstream, so the live loop reaches it.  The
\* finally block of an old loop (part_003:101) and removeSink's teardown
\* must never leave a live subscriber behind.
RegisteredLive ==
  \A s \in Subs :
    spc[s] /= "idle" /\ sinkSt[s] = "open" =>
      /\ cur /= 0
      /\ running[cur]
      /\ s \in sinks[cur][skey[s]]

\* At most one upstream subscription is live (started, not aborted, loop
\* still running), and it is the current one: removing the last
\* subscriber cancels the upstream before another start().
AtMostOneUpstream ==
  \A g \in Gens : running[g] /\ ~aborted[g] => g = cur

\* Once the iterator has yielded every change of its key and the consumer
\* has drained the slot, a subscriber holds the store's latest value:
\* registering the sink before getFirstValue (part_003:151) loses no write.
LatestDelivered ==
  \A s \in Subs :
    /\ spc[s] = "streaming"
    /\ sinkSt[s] = "open"
    /\ mailbox[s] = None
    /\ cur /= 0
    /\ \A i \in 1..Len(queue[cur]) : queue[cur][i].key /= skey[s]
    => seen[s] = ver[skey[s]]

=============================================================================
