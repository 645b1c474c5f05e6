SPECIFICATION Spec
CONSTANTS
    BNMod = 3
    NChunks = 4
    FragLen = 2
    SendTries = 3
    ReqTries = 2
    RxCap = 4
    SlowHost = FALSE
    TxFault = FALSE
    MaxFaults = 2
    MaxNaks = 1
    MaxSessions = 2
INVARIANTS
    TypeOK
    StoredIsPrefix
    OkMeansDelivered
    CleanBetween
CHECK_DEADLOCK FALSE
