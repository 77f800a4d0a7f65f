\* Every fault: one crash and one failing system call, three entries.
SPECIFICATION FairSpec
CONSTANTS
    Kinds <- MCKinds
    Sizes = {1, 2, 4}
    MaxBytes = 3
    PopMax = 2
    MaxEntries = 3
    MaxCrashes = 1
    MaxIOErrors = 1
INVARIANTS TypeOK Bounded ExactAccounting RefusalJustified
PROPERTIES StoreSpec EveryCallReturns
