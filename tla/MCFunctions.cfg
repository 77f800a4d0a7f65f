\* Every input of the bounded sets; six lines into a buffer of three that is
\* drained by two.
SPECIFICATION MCSpec
CONSTANTS
    g1 = g1
    g2 = g2
    g3 = g3
    Caller <- MCCaller
    Value <- MCValue
    RingMax = 3
    Batch = 2
    MaxLines = 6
INVARIANTS  AgentsCompleted ReplyFound FailureOnlyWhenSilent SettingsUsable RealTimeOrder
PROPERTY EveryLineLeaves
\* A behaviour ends with its input, or when all lines are drained.
CHECK_DEADLOCK FALSE
