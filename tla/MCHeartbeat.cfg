\* The interval of the code, three versions of the agents, three faults.
SPECIFICATION FairSpec
CONSTANTS
    Interval = 5
    MaxVersions = 3
    MaxFaults = 3
INVARIANTS TypeOK FreshAfterInterval
PROPERTY ServerCatchesUp
