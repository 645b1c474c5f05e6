SPECIFICATION Spec
CONSTANTS
    BufSz = 3
    Text <- MCText
    Names <- MCNames
    LenMod = 8
    TxCap = 1
    RxCap = 2
    Transfers = {2}
    AnswerLen = 2
    MaxBytes = 6
    MaxEvents = 1
INVARIANTS
    TypeOK
    IndexInBuffer
    RunsTheLine
    OnlyThisLine
    NoHoles
PROPERTIES
    IsLineEditor
    QuietTransfer
    BytesAreTaken
CHECK_DEADLOCK FALSE
