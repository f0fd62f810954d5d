---------------------------- MODULE CheckpointPrefix ----------------------------
(***************************************************************************)
(* What the replication writer promises the sync service: a checkpoint is  *)
(* a source position, and the data visible at it is exactly the row        *)
(* changes of the source transactions up to that position.  The position  *)
(* moves only forward and is never placed before no_checkpoint_before.     *)
(* Duplicate copies of a row change are not told apart (row changes are    *)
(* idempotent), so a checkpoint is the set of row changes it shows.        *)
(***************************************************************************)
EXTENDS Integers

CONSTANTS MaxLsn, TxnOps, Keepalives, Ncb

VARIABLES
  lsn,    \* the checkpoint's source position (0: no checkpoint yet)
  shown   \* the row changes visible at the checkpoint

Lsns == 1..MaxLsn

\* The row changes of every source transaction at or before l.
RowsUpTo(l) ==
  UNION {{[lsn |-> m, n |-> i] : i \in 1..TxnOps[m]} :
           m \in {p \in 1..l : p \notin Keepalives}}

Init ==
  /\ lsn = 0
  /\ shown = {}

\* A new checkpoint at l, no earlier than the current one.
Checkpoint(l) ==
  /\ l >= lsn /\ l >= Ncb
  /\ lsn' = l
  /\ shown' = RowsUpTo(l)

Next == \E l \in Lsns : Checkpoint(l)

Spec == Init /\ [][Next]_<<lsn, shown>>

=============================================================================
