------------------------------- MODULE TaskPool -------------------------------
(***************************************************************************)
(* What a thread pool of N threads promises to the code that hands it      *)
(* tasks, with no mutex, no condition variable and no thread in sight:     *)
(* a task handed over is started exactly once, tasks start in the order    *)
(* they were handed over, at most N of them run at a time, and a pool that *)
(* has been shut takes no new task but runs the ones it has.               *)
(*                                                                         *)
(* ThreadPool (code/pool/thread_pool.h) is shown to implement this.        *)
(***************************************************************************)
EXTENDS Naturals, Sequences, FiniteSets

CONSTANTS
    Tasks,      \* the closures that may be handed to the pool, each once
    N           \* the number of threads

VARIABLES
    queue,      \* tasks handed over and not started, oldest first
    active,     \* tasks started and not finished
    finished,   \* tasks that have returned
    open        \* does the pool still take tasks?

avars == <<queue, active, finished, open>>

InQueue == {queue[i] : i \in DOMAIN queue}

Init ==
    /\ queue = <<>>
    /\ active = {}
    /\ finished = {}
    /\ open = TRUE

Submit(t) ==
    /\ open
    /\ t \notin InQueue \cup active \cup finished
    /\ queue' = Append(queue, t)
    /\ UNCHANGED <<active, finished, open>>

Start ==
    /\ queue # <<>>
    /\ Cardinality(active) < N
    /\ active' = active \cup {Head(queue)}
    /\ queue' = Tail(queue)
    /\ UNCHANGED <<finished, open>>

Finish(t) ==
    /\ t \in active
    /\ active' = active \ {t}
    /\ finished' = finished \cup {t}
    /\ UNCHANGED <<queue, open>>

Shut ==
    /\ open
    /\ open' = FALSE
    /\ UNCHANGED <<queue, active, finished>>

Next ==
    \/ \E t \in Tasks : Submit(t) \/ Finish(t)
    \/ Start
    \/ Shut

SafeSpec == Init /\ [][Next]_avars

Spec ==
    /\ SafeSpec
    /\ WF_avars(Start)
    /\ \A t \in Tasks : WF_avars(Finish(t))
===============================================================================
