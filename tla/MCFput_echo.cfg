SPECIFICATION Spec
CONSTANTS
    BNMod = 3
    NBlocks = 1
    BlockLen = 2
    Size = 2
    RetryFirst = 2
    RetryCb = 1
    RxCap = 2
    SilentServer = FALSE
    ShortSend = FALSE
    TxFault = TRUE
    MaxFaults = 1
    MaxSessions = 1
    MaxHostTries = 3
INVARIANTS
    EchoRestored
CHECK_DEADLOCK FALSE
