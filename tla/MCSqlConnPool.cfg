SPECIFICATION Spec
CONSTANTS
    Threads = {t1, t2}
    Conns = {c1, c2}
    NullConn = NullConn
    Names = {n1, q}
    Passwords = {p1, p2}
    Quoted = {q}
    Empty = Empty
    Asked <- MCAsked
    MaxCalls = 3
INVARIANTS
    TypeOK
    PoolExact
    NeverBusy
    AccountsAreSound
PROPERTIES
    CallsReturn
CHECK_DEADLOCK FALSE
