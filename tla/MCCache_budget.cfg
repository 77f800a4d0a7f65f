\* The byte limit on disk, one crash and no failing system call.
SPECIFICATION Spec
CONSTANTS
    Kinds <- MCKinds
    Sizes = {1, 2}
    MaxBytes = 3
    PopMax = 2
    MaxEntries = 3
    MaxCrashes = 1
    MaxIOErrors = 0
INVARIANT DiskWithinBudget
