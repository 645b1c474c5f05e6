SPECIFICATION Spec
CONSTANTS
    BNMod = 3
    NBlocks = 2
    BlockLen = 2
    Size = 3
    RetryFirst = 2
    RetryCb = 1
    RxCap = 2
    SilentServer = TRUE
    ShortSend = FALSE
    TxFault = FALSE
    MaxFaults = 1
    MaxSessions = 2
    MaxHostTries = 3
INVARIANTS
    OkMeansStored
CHECK_DEADLOCK FALSE
