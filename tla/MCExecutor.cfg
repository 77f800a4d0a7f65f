\* Three commands of any kind, two at a time; one fault, two seconds.
SPECIFICATION FairSpec
CONSTANTS
    Slot = {1, 2}
    Content = {"short", "long"}
    Size <- MCSize
    Original = {"long"}
    Path = {"p", "q"}
    Env = {"none", "q"}
    MaxJobs = 3
    MaxNow = 1
    MaxMoves = 1
    MaxFaults = 1
INVARIANTS TypeOK EveryVersionKept RestartComesBack
PROPERTY EveryCommandReturns
\* All commands have been executed.
CHECK_DEADLOCK FALSE
