---------------------------- MODULE MC_SyncStream ----------------------------
(* Instances of SyncStream for TLC.                                        *)
EXTENDS SyncStream

CONSTANTS c1, c2

OneConn  == {c1}
TwoConns == {c1, c2}

\* One static bucket of the lowest priority and two dynamic buckets of
\* higher priorities, one of which the user has from the start.
ThreeBuckets   == {1, 2, 3}
ThreeStatic    == {1}
ThreeInit      == {2}
ThreePriority  == (1 :> 3 @@ 2 :> 0 @@ 3 :> 1)

\* Two static buckets of different priorities.
TwoBuckets     == {1, 2}
TwoStatic      == {1, 2}
TwoInit        == {}
TwoPriority    == (1 :> 3 @@ 2 :> 1)


\* Two static buckets sharing the highest priority used, one of lower.
ClassBuckets   == {1, 2, 3}
ClassStatic    == {1, 2, 3}
ClassPriority  == (1 :> 3 @@ 2 :> 1 @@ 3 :> 1)

\* Two static buckets of different priorities and a dynamic bucket the
\* user never has, written by other users' data.
HiddenBuckets  == {1, 2, 3}
HiddenStatic   == {1, 3}
HiddenPriority == (1 :> 3 @@ 2 :> 0 @@ 3 :> 1)

\* A static bucket and a dynamic bucket the user has until a parameter
\* write removes it.
DropBuckets    == {1, 2}
DropStatic     == {1}
DropInit       == {2}
DropPriority   == (1 :> 3 @@ 2 :> 3)

=============================================================================
