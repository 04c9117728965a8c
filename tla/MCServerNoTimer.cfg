SPECIFICATION SafeSpec
CONSTANTS
    Workers = {w1, w2}
    Main = Main
    FDs = {f1, f2}
    NoFd = NoFd
    Conns = {c1, c2}
    NoConn = NoConn
    TimeoutOn = FALSE
    ListenET = TRUE
    ConnET = TRUE
    MAX_FD = 2
    MaxRaces = 1
    MaxAcceptErrors = 1
    MaxUnread = 1
SYMMETRY ServerSymmetry
INVARIANTS SingleOwner NoneForgotten NoStaleWork CountExact BacklogSeen
CHECK_DEADLOCK FALSE
