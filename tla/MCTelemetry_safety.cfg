\* Both streams, two starts, one fault of any kind, SIGTERM at any point.  The
\* ring does not overflow here: that is in the run of Logger and in the proofs.
SPECIFICATION FairSpec
CONSTANTS
    MetricBatch = 2
    LogBatch = 1
    RingMax = 2
    PopMax = 2
    Attempts = 2
    MaxMetrics = 2
    MaxLogs = 2
    MaxStarts = 2
    MaxFaults = 1
INVARIANTS TypeOK NothingVanishes OneOwner DuplicateOnlyAfterLostReply
PROPERTY StopsAfterSigterm
\* Nothing happens after the last exit.
CHECK_DEADLOCK FALSE
