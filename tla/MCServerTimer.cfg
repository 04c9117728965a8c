SPECIFICATION Spec
CONSTANTS
    Workers = {w1, w2}
    Main = Main
    FDs = {f1}
    NoFd = NoFd
    Conns = {c1}
    NoConn = NoConn
    TimeoutOn = TRUE
    ListenET = FALSE
    ConnET = FALSE
    MAX_FD = 1
    MaxRaces = 1
    MaxAcceptErrors = 1
    MaxUnread = 1
INVARIANTS TypeOK NodeForEvent AlwaysReapable
PROPERTIES ImplementsExpirySet ExpiredFires
CHECK_DEADLOCK FALSE
