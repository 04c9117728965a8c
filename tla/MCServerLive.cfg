SPECIFICATION Spec
CONSTANTS
    Workers = {w1}
    Main = Main
    FDs = {f1, f2}
    NoFd = NoFd
    Conns = {c1, c2}
    NoConn = NoConn
    TimeoutOn = FALSE
    ListenET = FALSE
    ConnET = TRUE
    MAX_FD = 1
    MaxRaces = 0
    MaxAcceptErrors = 1
    MaxUnread = 1
PROPERTIES HangUpReleases RequestRead BacklogServed
CHECK_DEADLOCK FALSE
