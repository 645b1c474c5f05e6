SPECIFICATION FairSpec
CONSTANTS
    BNMod = 3
    NChunks = 3
    FragLen = 2
    SendTries = 3
    ReqTries = 2
    RxCap = 2
    SlowHost = TRUE
    TxFault = TRUE
    MaxFaults = 1
    MaxNaks = 2
    MaxSessions = 1
INVARIANTS
    IInv
    StoredInOrder
    CleanBetween
PROPERTIES
    FgetTerminates
CHECK_DEADLOCK FALSE
