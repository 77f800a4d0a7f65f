\* Four keys, two runs of pairing-code, two faults.
SPECIFICATION FairSpec
CONSTANTS
    MaxKeys = 4
    MaxCli = 2
    MaxFaults = 2
INVARIANTS TypeOK KeySurvivesRestart
PROPERTY EndsUpPaired
\* The server may run out of the keys of the bound.
CHECK_DEADLOCK FALSE
