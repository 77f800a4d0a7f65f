\* File key store: two processes, five calls, three interruptions, two reads
\* that fail although the file is there.
SPECIFICATION FairSpec
CONSTANTS
    agent = agent
    cli = cli
    Proc <- MCProc
    KeyStore = "file"
    MaxCalls = 5
    MaxInterrupts = 3
    MaxLoadErrors = 2
INVARIANTS TypeOK IdentityIsStable ChangesAreExplained
PROPERTY EveryCallReturns
\* All calls have been made.
CHECK_DEADLOCK FALSE
