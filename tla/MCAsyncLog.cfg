SPECIFICATION Spec
CONSTANTS
    Writers = {w1, w2}
    Logger = Logger
    Exit = Exit
    Nobody = Nobody
    LogQueSize = 2
    Capacity = 2
    MAX_LINES = 2
    MaxDay = 1
    MaxLines = 4
INVARIANTS
    TypeOK
    LinesInOrder
    FileTurns
PROPERTIES
    LinesReachFile
    ExitEnds
CHECK_DEADLOCK FALSE
