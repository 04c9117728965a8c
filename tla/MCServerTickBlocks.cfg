SPECIFICATION Spec
CONSTANTS
    Workers = {w1}
    Main = Main
    FDs = {f1}
    NoFd = NoFd
    Conns = {c1}
    NoConn = NoConn
    TimeoutOn = TRUE
    ListenET = TRUE
    ConnET = TRUE
    MAX_FD = 1
    MaxRaces = 0
    MaxAcceptErrors = 0
    MaxUnread = 1
PROPERTIES ExpiredAlwaysFires
CHECK_DEADLOCK FALSE
