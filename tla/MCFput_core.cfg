SPECIFICATION FairSpec
CONSTANTS
    BNMod = 3
    NBlocks = 4
    BlockLen = 2
    Size = 7
    RetryFirst = 2
    RetryCb = 1
    RxCap = 2
    SilentServer = FALSE
    ShortSend = FALSE
    TxFault = FALSE
    MaxFaults = 3
    MaxSessions = 1
    MaxHostTries = 3
INVARIANTS
    TypeOK
    IInv
    UploadInOrder
    HostDoneUploaded
    OkMeansStored
    EchoRestored
PROPERTIES
    ImplementsUpload
    FputTerminates
CHECK_DEADLOCK FALSE
