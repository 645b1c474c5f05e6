SPECIFICATION Spec
CONSTANTS
    None = None
    RegisterTry = 2
    LenMod = 4
    ObjMax = 2
    TxLists <- MCTx
    RxLists <- MCRx
    Files <- MCFiles
    Char <- MCChar
    ModeWrites = {0, 1}
    EarlyHost = FALSE
    MaxGrants = 3
    MaxCommands = 3
    MaxReboots = 1
INVARIANT OkIsReported
CHECK_DEADLOCK FALSE
