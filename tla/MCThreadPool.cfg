\* Three workers, two threads adding tasks in every order; no symmetry, two of
\* the properties are temporal.
SPECIFICATION Spec
CONSTANTS
    Workers = {w1, w2, w3}
    Callers = {c1, c2}
    Tasks = {t1, t2, t3, t4}
    NoTask = NoTask
INVARIANTS
    TypeOK
    WorkConserving
PROPERTIES
    ShutdownCompletes
    ImplementsTaskPool
\* The pool ends: every task has run and every worker has left its loop.
CHECK_DEADLOCK FALSE
