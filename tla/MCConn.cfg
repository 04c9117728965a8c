SPECIFICATION Spec
CONSTANTS
    Site <- MCSite
    HeadLen = 2
    EventModes = {FALSE, TRUE}
    Garbage = {0, 1}
    Rest = 1
    MaxAnswers = 3
INVARIANTS
    TypeOK
    IntactStream
    IovecsExact
    NothingLeaked
CHECK_DEADLOCK FALSE
