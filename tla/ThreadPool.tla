------------------------------ MODULE ThreadPool ------------------------------
(***************************************************************************)
(* code/pool/thread_pool.h: a queue of closures, a mutex, a condition      *)
(* variable and a fixed set of detached threads.                           *)
(*                                                                         *)
(* Every access to Pool::tasks and Pool::isClosed is made under p_mutex,   *)
(* so a critical section is one step; what happens outside of it, running  *)
(* the task and the two notifications, is a step of its own.  A wait on    *)
(* the condition variable may end without a notification.                  *)
(***************************************************************************)
EXTENDS Naturals, Sequences, FiniteSets

CONSTANTS
    Workers,    \* the threads the constructor starts
    Callers,    \* the threads that call AddTask
    Tasks,      \* the closures handed to AddTask, each of them once
    NoTask      \* "this worker runs nothing"

ASSUME PoolAssumption ==
    /\ IsFiniteSet(Workers)
    /\ Workers # {}
    /\ IsFiniteSet(Callers)
    /\ NoTask \notin Tasks

VARIABLES
    tasks,      \* Pool::tasks
    isClosed,   \* Pool::isClosed
    thread,     \* where each worker is in its loop
    job,        \* the closure each worker is running
    caller,     \* "notify": AddTask has pushed and not yet notified
    owner,      \* progress of the destructor: "alive", "notify", "gone"
    done        \* the closures that have returned (history)

vars == <<tasks, isClosed, thread, job, caller, owner, done>>

Queued == {tasks[i] : i \in DOMAIN tasks}
Running == {job[w] : w \in Workers} \ {NoTask}

Awake == {w \in Workers : thread[w] = "awake"}
Waiting == {w \in Workers : thread[w] = "waiting"}
Notifying == {c \in Callers : caller[c] = "notify"}

TypeOK ==
    /\ tasks \in Seq(Tasks)
    /\ isClosed \in BOOLEAN
    /\ thread \in [Workers -> {"awake", "running", "waiting", "exited"}]
    /\ job \in [Workers -> Tasks \cup {NoTask}]
    /\ caller \in [Callers -> {"idle", "notify"}]
    /\ owner \in {"alive", "notify", "gone"}
    /\ done \in SUBSET Tasks

Init ==
    /\ tasks = <<>>
    /\ isClosed = FALSE
    /\ thread = [w \in Workers |-> "awake"]
    /\ job = [w \in Workers |-> NoTask]
    /\ caller = [c \in Callers |-> "idle"]
    /\ owner = "alive"
    /\ done = {}

-------------------------------------------------------------------------------
(* The loop of a worker.  "awake": about to look at the queue under the mutex. *)

\* Mutant: the newest task is taken (a stack instead of a queue).
TakeNewest(w) ==
    /\ thread[w] = "awake"
    /\ tasks # <<>>
    /\ job' = [job EXCEPT ![w] = tasks[Len(tasks)]]
    /\ tasks' = SubSeq(tasks, 1, Len(tasks) - 1)
    /\ thread' = [thread EXCEPT ![w] = "running"]
    /\ UNCHANGED <<isClosed, caller, owner, done>>

Take(w) ==
    /\ thread[w] = "awake"
    /\ tasks # <<>>
    /\ job' = [job EXCEPT ![w] = Head(tasks)]
    /\ tasks' = Tail(tasks)
    /\ thread' = [thread EXCEPT ![w] = "running"]
    /\ UNCHANGED <<isClosed, caller, owner, done>>

Leave(w) ==
    /\ thread[w] = "awake"
    /\ tasks = <<>>
    /\ isClosed
    /\ thread' = [thread EXCEPT ![w] = "exited"]
    /\ UNCHANGED <<tasks, isClosed, job, caller, owner, done>>

Wait(w) ==
    /\ thread[w] = "awake"
    /\ tasks = <<>>
    /\ ~isClosed
    /\ thread' = [thread EXCEPT ![w] = "waiting"]
    /\ UNCHANGED <<tasks, isClosed, job, caller, owner, done>>

\* Mutant: the closure is dropped before the return is recorded.
ReturnNothing(w) ==
    /\ thread[w] = "running"
    /\ job' = [job EXCEPT ![w] = NoTask]
    /\ done' = done \cup {job'[w]}
    /\ thread' = [thread EXCEPT ![w] = "awake"]
    /\ UNCHANGED <<tasks, isClosed, caller, owner>>

\* task() returns and the loop takes the mutex again.
Return(w) ==
    /\ thread[w] = "running"
    /\ done' = done \cup {job[w]}
    /\ job' = [job EXCEPT ![w] = NoTask]
    /\ thread' = [thread EXCEPT ![w] = "awake"]
    /\ UNCHANGED <<tasks, isClosed, caller, owner>>

SpuriousWake(w) ==
    /\ thread[w] = "waiting"
    /\ thread' = [thread EXCEPT ![w] = "awake"]
    /\ UNCHANGED <<tasks, isClosed, job, caller, owner, done>>

-------------------------------------------------------------------------------
(* AddTask pushes under the mutex and notifies one waiter after releasing it. *)

\* Mutant: AddTask without notify_one.
PushSilently(c, t) ==
    /\ owner = "alive"
    /\ caller[c] = "idle"
    /\ t \notin Queued \cup Running \cup done
    /\ tasks' = Append(tasks, t)
    /\ UNCHANGED <<isClosed, thread, job, caller, owner, done>>

Push(c, t) ==
    /\ owner = "alive"
    /\ caller[c] = "idle"
    /\ t \notin Queued \cup Running \cup done
    /\ tasks' = Append(tasks, t)
    /\ caller' = [caller EXCEPT ![c] = "notify"]
    /\ UNCHANGED <<isClosed, thread, job, owner, done>>

NotifyOne(c) ==
    /\ caller[c] = "notify"
    /\ caller' = [caller EXCEPT ![c] = "idle"]
    /\ IF Waiting = {}
         THEN thread' = thread
         ELSE \E w \in Waiting : thread' = [thread EXCEPT ![w] = "awake"]
    /\ UNCHANGED <<tasks, isClosed, job, owner, done>>

(* The destructor: no call of AddTask is in progress when an object dies. *)

Close ==
    /\ owner = "alive"
    /\ Notifying = {}
    /\ isClosed' = TRUE
    /\ owner' = "notify"
    /\ UNCHANGED <<tasks, thread, job, caller, done>>

\* Mutant: the destructor calls notify_one.
NotifyOnlyOne ==
    /\ owner = "notify"
    /\ IF Waiting = {}
         THEN thread' = thread
         ELSE \E w \in Waiting : thread' = [thread EXCEPT ![w] = "awake"]
    /\ owner' = "gone"
    /\ UNCHANGED <<tasks, isClosed, job, caller, done>>

NotifyAll ==
    /\ owner = "notify"
    /\ thread' = [w \in Workers |->
                    IF thread[w] = "waiting" THEN "awake" ELSE thread[w]]
    /\ owner' = "gone"
    /\ UNCHANGED <<tasks, isClosed, job, caller, done>>

-------------------------------------------------------------------------------
Worker(w) == Take(w) \/ Leave(w) \/ Wait(w) \/ Return(w)

Next ==
    \/ \E w \in Workers : Worker(w) \/ SpuriousWake(w)
    \/ \E c \in Callers : NotifyOne(c) \/ \E t \in Tasks : Push(c, t)
    \/ Close
    \/ NotifyAll

SafeSpec == Init /\ [][Next]_vars

\* A runnable thread is eventually scheduled and a task returns: every
\* handler of the server is a bounded number of non-blocking calls.
Fairness ==
    /\ \A w \in Workers : WF_vars(Worker(w))
    /\ \A c \in Callers : WF_vars(NotifyOne(c))
    /\ WF_vars(NotifyAll)

Spec == SafeSpec /\ Fairness

-------------------------------------------------------------------------------
(* Properties *)

\* No worker sleeps while a task it could run has nobody coming for it: as
\* long as a worker waits, each queued task has a worker about to look at the
\* queue or a notification under way.  (Notifying outside of the mutex and
\* testing before waiting in the worker's loop must fit together.)
WorkConserving ==
    Waiting # {} =>
        Len(tasks) <= Cardinality(Awake) + Cardinality(Notifying)

\* A closure is in one place only: queued once, or run by one worker, or done.
ExactlyOnce ==
    /\ \A i, j \in DOMAIN tasks : tasks[i] = tasks[j] => i = j
    /\ \A v, w \in Workers : job[v] = job[w] /\ job[v] # NoTask => v = w
    /\ Queued \cap Running = {}
    /\ (Queued \cup Running) \cap done = {}

\* The destructor does not drop work: a worker leaves its loop only when no
\* task is left, and none arrives later.
NothingAbandoned ==
    (\E w \in Workers : thread[w] = "exited") => isClosed /\ tasks = <<>>

\* After the destructor every worker ends, having run everything that was queued.
ShutdownCompletes ==
    isClosed ~> /\ \A w \in Workers : thread[w] = "exited"
                /\ tasks = <<>>

\* The threads, the mutex and the condition variable implement the promise of
\* TaskPool: FIFO starts, exactly-once execution, at most one task a worker,
\* and every task handed over is eventually run.
Promise == INSTANCE TaskPool WITH
    N <- Cardinality(Workers),
    queue <- tasks,
    active <- Running,
    finished <- done,
    open <- ~isClosed

ImplementsTaskPool == Promise!Spec
===============================================================================
