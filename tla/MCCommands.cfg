\* MQTT and Redis: one command, a lost connection or a restart, two faults.
SPECIFICATION FairSpec
CONSTANTS
    c1 = c1
    c2 = c2
    Command <- OneCommand
    Encrypted <- MCEncrypted
    Transports <- MCTransports
    ChanCap = 1
    MaxHandlers = 2
    MaxTurns = 2
    MaxFaults = 2
INVARIANTS TypeOK NoneVanishes RunsOncePerDelivery ConnectedIsOnline
PROPERTIES TerminalIsLast EveryCommandSettles StopsAfterSigterm OfflineAfterEnd
\* Nothing happens after the last exit.
CHECK_DEADLOCK FALSE
