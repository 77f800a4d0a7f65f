\* A cached item, a second start and one kill.
SPECIFICATION FairSpec
CONSTANTS
    MetricBatch = 1
    LogBatch = 1
    RingMax = 1
    PopMax = 2
    Attempts = 1
    MaxMetrics = 1
    MaxLogs = 1
    MaxStarts = 2
    MaxFaults = 1
PROPERTY DeletedAfterReport
CHECK_DEADLOCK FALSE
