SPECIFICATION Spec
CONSTANTS
    MaxLines = 3
    MaxFrames = 3
    MaxSentences = 6
    MaxCommands = 3
INVARIANTS
    TypeOK
    NmeaInOrder
    AnswerFits
    FreshLocation
CHECK_DEADLOCK FALSE
