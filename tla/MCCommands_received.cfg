\* Commands received before SIGTERM.
SPECIFICATION Spec
CONSTANTS
    c1 = c1
    c2 = c2
    Command <- TwoCommands
    Encrypted <- MCEncrypted
    Transports <- MqttOnly
    ChanCap = 1
    MaxHandlers = 2
    MaxTurns = 1
    MaxFaults = 0
INVARIANT ReceivedIsHandled
\* Nothing happens after the last exit.
CHECK_DEADLOCK FALSE
