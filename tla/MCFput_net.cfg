SPECIFICATION FairSpec
CONSTANTS
    BNMod = 2
    NBlocks = 2
    BlockLen = 2
    Size = 3
    RetryFirst = 2
    RetryCb = 1
    RxCap = 2
    SilentServer = TRUE
    ShortSend = TRUE
    TxFault = TRUE
    MaxFaults = 2
    MaxSessions = 2
    MaxHostTries = 2
INVARIANTS
    UploadInOrder
    HostDoneUploaded
PROPERTIES
    FputTerminates
CHECK_DEADLOCK FALSE
