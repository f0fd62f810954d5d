---------------------------- MODULE ReplicationJob ----------------------------
(***************************************************************************)
(* ChangeStreamReplicationJob.replicate / replicateLoop / replicateOnce    *)
(* (module-mongodb): a retry loop that opens a connection manager, waits   *)
(* on the rate limiter, runs one ChangeStream until it returns or throws,  *)
(* ends the connection and sleeps 5 s before the next attempt.  A          *)
(* ChangeStreamInvalidatedError leaves the loop and restarts replication   *)
(* with a new instance.  stop() (AbstractReplicationJob) aborts the        *)
(* controller at any await; isStopped reads that signal.                   *)
(***************************************************************************)
EXTENDS Naturals

CONSTANTS
  MaxStreams   \* bound on the ChangeStreams one job creates

VARIABLES
  pc,          \* "loop", "rate", "stream", "end", "sleep", "restart", "done"
  stopped,     \* abortController.signal.aborted (isStopped)
  err,         \* error carried out of replicateOnce: "none" or "invalidated"
  openConns,   \* connection managers created and not yet ended
  streams,     \* ChangeStreams created
  restarted    \* storage.factory.restartReplication was called

vars == <<pc, stopped, err, openConns, streams, restarted>>

Init ==
  /\ pc = "loop"
  /\ stopped = FALSE
  /\ err = "none"
  /\ openConns = 0
  /\ streams = 0
  /\ restarted = FALSE

\* stop(): abort the controller.  Every await below observes it later.
Stop ==
  /\ ~stopped
  /\ stopped' = TRUE
  /\ UNCHANGED <<pc, err, openConns, streams, restarted>>

\* Mutant: the loop condition is not re-checked (a do-while).
LoopTopIgnoreStop ==
  /\ pc = "loop"
  /\ pc' = "rate"
  /\ openConns' = openConns + 1
  /\ UNCHANGED <<stopped, err, streams, restarted>>

\* while (!this.isStopped): a stopped job leaves replicateLoop and
\* replicate()'s finally aborts the controller; otherwise replicateOnce
\* creates a connection manager.
LoopTop ==
  /\ pc = "loop"
  /\ IF stopped
     THEN /\ pc' = "done"
          /\ UNCHANGED openConns
     ELSE /\ pc' = "rate"
          /\ openConns' = openConns + 1
  /\ UNCHANGED <<stopped, err, streams, restarted>>

\* Mutant: a new ChangeStream is created without re-checking isStopped.
RateAllowedNoCheck ==
  /\ pc = "rate"
  /\ streams < MaxStreams
  /\ pc' = "stream"
  /\ streams' = streams + 1
  /\ UNCHANGED <<stopped, err, openConns, restarted>>

\* rateLimiter.waitUntilAllowed resolves (or rejects on abort, which the
\* catch returns from); a stopped job returns, else a ChangeStream is
\* created and replicated.
RateAllowed ==
  /\ pc = "rate"
  /\ IF stopped
     THEN /\ pc' = "end"
          /\ UNCHANGED streams
     ELSE /\ streams < MaxStreams
          /\ pc' = "stream"
          /\ streams' = streams + 1
  /\ UNCHANGED <<stopped, err, openConns, restarted>>

\* stream.replicate() returns.
StreamReturns ==
  /\ pc = "stream"
  /\ pc' = "end"
  /\ UNCHANGED <<stopped, err, openConns, streams, restarted>>

\* stream.replicate() throws: after an abort the error is ignored; an
\* invalidation is rethrown; any other error is reported and sets the
\* rate limiter's retry delay.
StreamFails(invalidated) ==
  /\ pc = "stream"
  /\ pc' = "end"
  /\ err' = IF ~stopped /\ invalidated THEN "invalidated" ELSE "none"
  /\ UNCHANGED <<stopped, openConns, streams, restarted>>

\* Mutant: the connection manager is not ended on the way out.
EndConnNoRelease ==
  /\ pc = "end"
  /\ pc' = CASE err = "invalidated" -> "restart"
             [] stopped -> "loop"
             [] OTHER -> "sleep"
  /\ UNCHANGED <<stopped, err, openConns, streams, restarted>>

\* finally: await connectionManager.end(); then the pending throw leaves
\* the loop, or replicateLoop sleeps unless stopped.
EndConn ==
  /\ pc = "end"
  /\ openConns' = openConns - 1
  /\ pc' = CASE err = "invalidated" -> "restart"
             [] stopped -> "loop"
             [] OTHER -> "sleep"
  /\ UNCHANGED <<stopped, err, streams, restarted>>

\* connectionManager.end() rejects: the error leaves replicateLoop and
\* replicate()'s catch reports it; the finally aborts the controller.
EndConnFails ==
  /\ pc = "end"
  /\ openConns' = openConns - 1
  /\ pc' = "done"
  /\ stopped' = TRUE
  /\ UNCHANGED <<err, streams, restarted>>

\* The 5 s setTimeout, which stop() does not cut short.
Sleep ==
  /\ pc = "sleep"
  /\ pc' = "loop"
  /\ UNCHANGED <<stopped, err, openConns, streams, restarted>>

\* replicate()'s catch: restartReplication for an invalidated stream, then
\* the finally aborts the controller.
Restart ==
  /\ pc = "restart"
  /\ restarted' = TRUE
  /\ pc' = "done"
  /\ stopped' = TRUE
  /\ UNCHANGED <<err, openConns, streams>>

Next ==
  \/ Stop \/ LoopTop \/ RateAllowed \/ StreamReturns
  \/ \E inv \in BOOLEAN : StreamFails(inv)
  \/ EndConn \/ EndConnFails \/ Sleep \/ Restart

\* Every await of the job resolves: timers fire, connections end, the rate
\* limiter admits.  A running stream may replicate forever; only once the
\* controller is aborted does it return.
Fairness ==
  /\ WF_vars(LoopTop) /\ WF_vars(RateAllowed) /\ WF_vars(EndConn)
  /\ WF_vars(Sleep) /\ WF_vars(Restart)
  /\ WF_vars(stopped /\ StreamReturns)

Spec == Init /\ [][Next]_vars
FairSpec == Spec /\ Fairness


-----------------------------------------------------------------------------
(* Properties                                                              *)

TypeOK ==
  /\ pc \in {"loop", "rate", "stream", "end", "sleep", "restart", "done"}
  /\ stopped \in BOOLEAN
  /\ err \in {"none", "invalidated"}
  /\ openConns \in 0..1
  /\ streams \in 0..MaxStreams
  /\ restarted \in BOOLEAN

\* Once stop() aborted the controller, no new ChangeStream is created:
\* replicateOnce re-checks isStopped after the rate limiter's wait, and
\* the loop re-checks it after the sleep.
NoStreamAfterStop == [][stopped => streams' = streams]_vars

\* stop() ends the job: every await after the abort leads out of the loop,
\* provided a running stream returns once aborted.
StopTerminates == stopped ~> (pc = "done")

\* A ChangeStreamInvalidatedError that is not the effect of stop() always
\* reaches restartReplication, through connectionManager.end() and out of
\* the retry loop.
InvalidationRestarts == (err = "invalidated") ~> restarted

=============================================================================
