\* An invalidated ChangeStream whose connectionManager.end() also rejects.
CONSTANT MaxStreams = 2
SPECIFICATION FairSpec
PROPERTY InvalidationRestarts
\* The job ends for good after stop(), restartReplication or a failed
\* connectionManager.end().
CHECK_DEADLOCK FALSE
