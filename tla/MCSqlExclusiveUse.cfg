SPECIFICATION SafeSpec
CONSTANTS
    Threads = {t1, t2}
    Conns = {c1, c2}
    NullConn = NullConn
    Names = {n1}
    Passwords = {p1}
    Empty = Empty
    Asked <- MCAsked
    Quoted = {}
    MaxCalls = 6
SYMMETRY ThreadSymmetry
INVARIANTS ExclusiveUse
CHECK_DEADLOCK FALSE
