SPECIFICATION Spec
CONSTANTS
    BNMod = 3
    NBlocks = 2
    BlockLen = 2
    Size = 3
    RetryFirst = 2
    RetryCb = 1
    RxCap = 2
    SilentServer = FALSE
    ShortSend = TRUE
    TxFault = FALSE
    MaxFaults = 0
    MaxSessions = 1
    MaxHostTries = 3
INVARIANTS
    OkMeansStored
CHECK_DEADLOCK FALSE
