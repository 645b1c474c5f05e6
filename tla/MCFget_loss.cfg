SPECIFICATION Spec
CONSTANTS
    BNMod = 3
    NChunks = 2
    FragLen = 2
    SendTries = 3
    ReqTries = 2
    RxCap = 4
    SlowHost = FALSE
    TxFault = FALSE
    MaxFaults = 0
    MaxNaks = 4
    MaxSessions = 1
INVARIANTS
    OkMeansDelivered
CHECK_DEADLOCK FALSE
