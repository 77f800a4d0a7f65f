\* A kill while a key file is being written.
SPECIFICATION Spec
CONSTANTS
    agent = agent
    cli = cli
    Proc <- MCProc
    KeyStore = "file"
    MaxCalls = 3
    MaxInterrupts = 1
    MaxLoadErrors = 0
INVARIANT LoadsOrGenerates
\* All calls have been made.
CHECK_DEADLOCK FALSE
