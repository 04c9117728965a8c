--------------------------- MODULE ThreadPoolProofs ---------------------------
(***************************************************************************)
(* Theorems about ThreadPool, for any number of workers, callers and tasks *)
(***************************************************************************)
EXTENDS ThreadPool, FiniteSetTheorems, FunctionTheorems, SequenceTheorems, TLAPS

\* A worker holds a closure exactly while it runs it.
JobWhileRunning ==
    \A w \in Workers : job[w] # NoTask <=> thread[w] = "running"

\* The flag is raised by the destructor, before it notifies.
ClosedByOwner == isClosed <=> owner # "alive"

IInv ==
    /\ TypeOK
    /\ JobWhileRunning
    /\ ClosedByOwner
    /\ ExactlyOnce
    /\ NothingAbandoned
    /\ WorkConserving

-------------------------------------------------------------------------------
(* Lemmas on the queue. *)

\* Appending a task queues that task and nothing else.
LEMMA PushQueue ==
    ASSUME TypeOK, NEW t \in Tasks, tasks' = Append(tasks, t)
    PROVE  /\ tasks' \in Seq(Tasks)
           /\ Len(tasks') = Len(tasks) + 1
           /\ Queued' = Queued \cup {t}
           /\ \A i \in DOMAIN tasks : i \in DOMAIN tasks' /\ tasks'[i] = tasks[i]
           /\ DOMAIN tasks' = DOMAIN tasks \cup {Len(tasks) + 1}
           /\ tasks'[Len(tasks) + 1] = t
           /\ Len(tasks) + 1 \notin DOMAIN tasks
  <1>1. tasks \in Seq(Tasks)
    BY DEF TypeOK
  <1>2. /\ tasks' \in Seq(Tasks)
        /\ Len(tasks') = Len(tasks) + 1
        /\ \A i \in 1..Len(tasks) : tasks'[i] = tasks[i]
        /\ tasks'[Len(tasks) + 1] = t
    BY <1>1, AppendProperties
  <1>3. /\ DOMAIN tasks = 1..Len(tasks)
        /\ DOMAIN tasks' = 1..Len(tasks')
        /\ Len(tasks) \in Nat
    BY <1>1, <1>2, LenProperties
  <1>4. DOMAIN tasks' = DOMAIN tasks \cup {Len(tasks) + 1}
    BY <1>2, <1>3
  <1>5. Queued' = Queued \cup {t}
    BY <1>2, <1>3, <1>4 DEF Queued
  <1> QED
    BY <1>2, <1>3, <1>4, <1>5

\* Taking the head of a queue without repetition removes that task from it.
LEMMA PopQueue ==
    ASSUME TypeOK, ExactlyOnce, tasks # <<>>, tasks' = Tail(tasks)
    PROVE  /\ tasks' \in Seq(Tasks)
           /\ Len(tasks') = Len(tasks) - 1
           /\ Len(tasks) \in Nat \ {0}
           /\ Head(tasks) \in Queued
           /\ Head(tasks) \in Tasks
           /\ Queued' = Queued \ {Head(tasks)}
           /\ \A i, j \in DOMAIN tasks' : tasks'[i] = tasks'[j] => i = j
  <1>1. tasks \in Seq(Tasks)
    BY DEF TypeOK
  <1>2. /\ Head(tasks) \in Tasks
        /\ tasks' \in Seq(Tasks)
        /\ Len(tasks') = Len(tasks) - 1
        /\ \A i \in 1..Len(tasks') : tasks'[i] = tasks[i + 1]
    BY <1>1, HeadTailProperties
  <1>3. /\ DOMAIN tasks = 1..Len(tasks)
        /\ DOMAIN tasks' = 1..Len(tasks')
        /\ Len(tasks) \in Nat \ {0}
    BY <1>1, <1>2, LenProperties, EmptySeq
  <1>4. Head(tasks) = tasks[1] /\ 1 \in DOMAIN tasks
    BY <1>1, <1>3
  <1>5. \A i \in DOMAIN tasks' : i + 1 \in DOMAIN tasks /\ i + 1 # 1
    BY <1>2, <1>3
  <1>6. \A i \in DOMAIN tasks : i # 1 => i - 1 \in DOMAIN tasks' /\ tasks'[i - 1] = tasks[i]
    BY <1>2, <1>3
  <1>7. \A i, j \in DOMAIN tasks : tasks[i] = tasks[j] => i = j
    BY DEF ExactlyOnce
  <1>8. Queued' \subseteq Queued \ {Head(tasks)}
    BY <1>2, <1>3, <1>4, <1>5, <1>7 DEF Queued
  <1>9. ASSUME NEW t \in Queued, t # Head(tasks)
        PROVE  t \in Queued'
    <2>1. PICK i \in DOMAIN tasks : tasks[i] = t
      BY DEF Queued
    <2>2. i - 1 \in DOMAIN tasks' /\ tasks'[i - 1] = t
      BY <1>4, <1>6, <1>9, <2>1
    <2> QED
      BY <2>2 DEF Queued
  <1>10. \A i, j \in DOMAIN tasks' : tasks'[i] = tasks'[j] => i = j
    BY <1>2, <1>3, <1>5, <1>7
  <1> QED
    BY <1>2, <1>3, <1>4, <1>8, <1>9, <1>10 DEF Queued
-------------------------------------------------------------------------------
(* Lemmas on the sets of workers and callers that WorkConserving counts. *)

\* The workers and the callers, and the parts of them that are counted, are finite.
LEMMA FiniteSides ==
    PoolAssumption => /\ IsFiniteSet(Awake)
                      /\ IsFiniteSet(Notifying)
                      /\ Cardinality(Awake) \in Nat
                      /\ Cardinality(Notifying) \in Nat
  <1> SUFFICES ASSUME PoolAssumption
               PROVE  /\ IsFiniteSet(Awake)
                      /\ IsFiniteSet(Notifying)
                      /\ Cardinality(Awake) \in Nat
                      /\ Cardinality(Notifying) \in Nat
    OBVIOUS
  <1>1. Awake \in SUBSET Workers /\ Notifying \in SUBSET Callers
    BY DEF Awake, Notifying
  <1>2. IsFiniteSet(Awake) /\ IsFiniteSet(Notifying)
    BY <1>1, FS_Subset, PoolAssumption DEF PoolAssumption
  <1> QED
    BY <1>2, FS_CardinalityType

-------------------------------------------------------------------------------
\* A pool that has just been built satisfies the invariant.
THEOREM InitInvariant == Init => IInv
  <1> SUFFICES ASSUME Init PROVE IInv
    OBVIOUS
  <1>1. Queued = {} /\ Running = {} /\ Waiting = {}
    BY DEF Init, Queued, Running, Waiting
  <1>2. TypeOK
    <2>1. tasks \in Seq(Tasks)
      BY EmptySeq DEF Init
    <2> QED
      BY <2>1 DEF Init, TypeOK
  <1>3. JobWhileRunning /\ ClosedByOwner /\ NothingAbandoned
    BY DEF Init, JobWhileRunning, ClosedByOwner, NothingAbandoned
  <1>4. ExactlyOnce
    BY <1>1 DEF Init, ExactlyOnce
  <1>5. WorkConserving
    BY <1>1 DEF WorkConserving
  <1> QED
    BY <1>2, <1>3, <1>4, <1>5 DEF IInv

\* Everything but the counting: one step per action.
LEMMA StepBasics ==
    ASSUME IInv, [Next]_vars
    PROVE  /\ TypeOK' /\ JobWhileRunning' /\ ClosedByOwner'
           /\ ExactlyOnce' /\ NothingAbandoned'
  <1> USE PoolAssumption DEF PoolAssumption
  <1> DEFINE Goal == /\ TypeOK /\ JobWhileRunning /\ ClosedByOwner
                     /\ ExactlyOnce /\ NothingAbandoned
  <1> USE DEF IInv, JobWhileRunning, ClosedByOwner, NothingAbandoned
  <1>1. ASSUME NEW w \in Workers, Take(w)
        PROVE  Goal'
    <2>1. /\ tasks' \in Seq(Tasks)
          /\ Head(tasks) \in Queued
          /\ Head(tasks) \in Tasks
          /\ Queued' = Queued \ {Head(tasks)}
          /\ \A i, j \in DOMAIN tasks' : tasks'[i] = tasks'[j] => i = j
      BY <1>1, PopQueue DEF Take
    <2>2. TypeOK'
      BY <1>1, <2>1 DEF Take, TypeOK
    <2>3. Running' = Running \cup {Head(tasks)}
      BY <1>1, <2>1 DEF Take, TypeOK, Running
    <2>4. Head(tasks) \notin Running
      BY <2>1 DEF ExactlyOnce
    <2>5. \A u, v \in Workers : job'[u] = job'[v] /\ job'[u] # NoTask => u = v
      BY <1>1, <2>1, <2>4 DEF Take, TypeOK, ExactlyOnce, Running
    <2>6. ExactlyOnce'
      BY <1>1, <2>1, <2>3, <2>5 DEF Take, ExactlyOnce
    <2> QED
      BY <1>1, <2>1, <2>2, <2>6 DEF Take, TypeOK
  <1>2. ASSUME NEW w \in Workers, Leave(w) \/ Wait(w) \/ SpuriousWake(w)
        PROVE  Goal'
    <2>1. TypeOK' /\ UNCHANGED <<tasks, job, done>>
      BY <1>2 DEF Leave, Wait, SpuriousWake, TypeOK
    <2>2. ExactlyOnce'
      BY <2>1 DEF ExactlyOnce, Queued, Running
    <2> QED
      BY <1>2, <2>1, <2>2 DEF Leave, Wait, SpuriousWake, TypeOK
  <1>3. ASSUME NEW w \in Workers, Return(w)
        PROVE  Goal'
    <2>1. job[w] \in Tasks /\ job[w] \in Running
      BY <1>3 DEF Return, TypeOK, Running
    <2>2. TypeOK'
      BY <1>3, <2>1 DEF Return, TypeOK
    <2>3. Running' = Running \ {job[w]}
      BY <1>3, <2>1 DEF Return, TypeOK, Running, ExactlyOnce
    <2>4. Queued' = Queued
      BY <1>3 DEF Return, Queued
    <2>5. ExactlyOnce'
      BY <1>3, <2>1, <2>3, <2>4 DEF Return, TypeOK, ExactlyOnce
    <2> QED
      BY <1>3, <2>2, <2>5 DEF Return, TypeOK
  <1>4. ASSUME NEW c \in Callers, NEW t \in Tasks, Push(c, t)
        PROVE  Goal'
    <2>1. /\ tasks' \in Seq(Tasks)
          /\ Queued' = Queued \cup {t}
          /\ \A i \in DOMAIN tasks : i \in DOMAIN tasks' /\ tasks'[i] = tasks[i]
          /\ DOMAIN tasks' = DOMAIN tasks \cup {Len(tasks) + 1}
          /\ tasks'[Len(tasks) + 1] = t
      BY <1>4, PushQueue DEF Push
    <2>2. TypeOK'
      BY <1>4, <2>1 DEF Push, TypeOK
    <2>3. Running' = Running /\ t \notin Queued \cup Running \cup done
      BY <1>4 DEF Push, Running
    <2>4. \A i \in DOMAIN tasks : tasks[i] # t
      BY <2>3 DEF Queued
    <2>5. \A i, j \in DOMAIN tasks' : tasks'[i] = tasks'[j] => i = j
      BY <2>1, <2>4 DEF ExactlyOnce
    <2>6. ExactlyOnce'
      BY <1>4, <2>1, <2>3, <2>5 DEF Push, ExactlyOnce
    <2> QED
      BY <1>4, <2>2, <2>6 DEF Push, TypeOK
  <1>5. ASSUME NEW c \in Callers, NotifyOne(c)
        PROVE  Goal'
    <2>1. TypeOK' /\ UNCHANGED <<tasks, job, done>>
      BY <1>5 DEF NotifyOne, TypeOK, Waiting
    <2>2. ExactlyOnce'
      BY <2>1 DEF ExactlyOnce, Queued, Running
    <2> QED
      BY <1>5, <2>1, <2>2 DEF NotifyOne, TypeOK, Waiting
  <1>6. ASSUME Close \/ NotifyAll
        PROVE  Goal'
    <2>1. TypeOK' /\ UNCHANGED <<tasks, job, done>>
      BY <1>6 DEF Close, NotifyAll, TypeOK
    <2>2. ExactlyOnce'
      BY <2>1 DEF ExactlyOnce, Queued, Running
    <2> QED
      BY <1>6, <2>1, <2>2 DEF Close, NotifyAll, TypeOK
  <1>7. ASSUME UNCHANGED vars
        PROVE  Goal'
    <2>1. TypeOK' /\ UNCHANGED <<tasks, job, done>>
      BY <1>7 DEF vars, TypeOK
    <2>2. ExactlyOnce'
      BY <2>1 DEF ExactlyOnce, Queued, Running
    <2> QED
      BY <1>7, <2>1, <2>2 DEF vars
  <1> QED
    BY <1>1, <1>2, <1>3, <1>4, <1>5, <1>6, <1>7 DEF Next, Worker
\* The counting: a step that queues a task or takes a worker away from the
\* queue pays for it with a notification or with the task itself.
LEMMA StepCounting ==
    ASSUME IInv, [Next]_vars
    PROVE  WorkConserving'
  <1> USE PoolAssumption DEF PoolAssumption
  <1>1. /\ TypeOK /\ ExactlyOnce /\ WorkConserving
        /\ tasks \in Seq(Tasks) /\ Len(tasks) \in Nat
    BY LenProperties DEF IInv, TypeOK
  <1>2. /\ IsFiniteSet(Awake) /\ IsFiniteSet(Notifying)
        /\ Cardinality(Awake) \in Nat /\ Cardinality(Notifying) \in Nat
    BY FiniteSides
  <1>3. ASSUME NEW w \in Workers, Take(w)
        PROVE  WorkConserving'
    <2>1. Len(tasks') = Len(tasks) - 1
      BY <1>1, <1>3, PopQueue DEF Take
    <2>2. Awake' = Awake \ {w} /\ w \in Awake /\ Waiting' = Waiting
      BY <1>1, <1>3 DEF Take, TypeOK, Awake, Waiting
    <2>3. Cardinality(Awake') = Cardinality(Awake) - 1
      BY <1>2, <2>2, FS_RemoveElement
    <2>4. Notifying' = Notifying
      BY <1>3 DEF Take, Notifying
    <2> QED
      BY <1>1, <1>2, <2>1, <2>2, <2>3, <2>4 DEF WorkConserving
  <1>4. ASSUME NEW w \in Workers, Leave(w) \/ Wait(w)
        PROVE  WorkConserving'
    <2>1. tasks' = <<>>
      BY <1>4 DEF Leave, Wait
    <2>2. Len(tasks') = 0
      BY <2>1
    <2>3. Cardinality(Awake') \in Nat /\ Cardinality(Notifying') \in Nat
      <3>1. Awake' \in SUBSET Workers /\ Notifying' \in SUBSET Callers
        BY DEF Awake, Notifying
      <3> QED
        BY <3>1, FS_Subset, FS_CardinalityType
    <2> QED
      BY <2>2, <2>3 DEF WorkConserving
  <1>5. ASSUME NEW w \in Workers, Return(w) \/ SpuriousWake(w)
        PROVE  WorkConserving'
    <2>1. Awake' = Awake \cup {w} /\ w \notin Awake /\ Waiting' \subseteq Waiting
      BY <1>1, <1>5 DEF Return, SpuriousWake, TypeOK, Awake, Waiting
    <2>2. Cardinality(Awake') = Cardinality(Awake) + 1
      BY <1>2, <2>1, FS_AddElement
    <2>3. Notifying' = Notifying /\ tasks' = tasks
      BY <1>5 DEF Return, SpuriousWake, Notifying
    <2> QED
      BY <1>1, <1>2, <2>1, <2>2, <2>3 DEF WorkConserving
  <1>6. ASSUME NEW c \in Callers, NEW t \in Tasks, Push(c, t)
        PROVE  WorkConserving'
    <2>1. Len(tasks') = Len(tasks) + 1
      BY <1>1, <1>6, PushQueue DEF Push
    <2>2. Notifying' = Notifying \cup {c} /\ c \notin Notifying
      BY <1>1, <1>6 DEF Push, TypeOK, Notifying
    <2>3. Cardinality(Notifying') = Cardinality(Notifying) + 1
      BY <1>2, <2>2, FS_AddElement
    <2>4. Awake' = Awake /\ Waiting' = Waiting
      BY <1>6 DEF Push, Awake, Waiting
    <2> QED
      BY <1>1, <1>2, <2>1, <2>3, <2>4 DEF WorkConserving
  <1>7. ASSUME NEW c \in Callers, NotifyOne(c)
        PROVE  WorkConserving'
    <2>1. Notifying' = Notifying \ {c} /\ c \in Notifying /\ tasks' = tasks
      BY <1>1, <1>7 DEF NotifyOne, TypeOK, Notifying
    <2>2. Cardinality(Notifying') = Cardinality(Notifying) - 1
      BY <1>2, <2>1, FS_RemoveElement
    <2>3. CASE Waiting = {}
      <3>1. Waiting' = {}
        BY <1>7, <2>3 DEF NotifyOne, Waiting
      <3> QED
        BY <3>1 DEF WorkConserving
    <2>4. CASE Waiting # {}
      <3>1. PICK w \in Waiting : thread' = [thread EXCEPT ![w] = "awake"]
        BY <1>7, <2>4 DEF NotifyOne
      <3>2. Awake' = Awake \cup {w} /\ w \notin Awake
        BY <1>1, <3>1 DEF TypeOK, Awake, Waiting
      <3>3. Cardinality(Awake') = Cardinality(Awake) + 1
        BY <1>2, <3>2, FS_AddElement
      <3> QED
        BY <1>1, <1>2, <2>1, <2>2, <2>4, <3>3 DEF WorkConserving
    <2> QED
      BY <2>3, <2>4
  <1>8. ASSUME Close \/ UNCHANGED vars
        PROVE  WorkConserving'
    <2>1. Awake' = Awake /\ Waiting' = Waiting /\ Notifying' = Notifying /\ tasks' = tasks
      BY <1>8 DEF Close, vars, Awake, Waiting, Notifying
    <2> QED
      BY <1>1, <2>1 DEF WorkConserving
  <1>9. ASSUME NotifyAll
        PROVE  WorkConserving'
    <2>1. Waiting' = {}
      BY <1>1, <1>9 DEF NotifyAll, TypeOK, Waiting
    <2> QED
      BY <2>1 DEF WorkConserving
  <1> QED
    BY <1>3, <1>4, <1>5, <1>6, <1>7, <1>8, <1>9 DEF Next, Worker

\* The strengthened invariant holds in every behaviour of the pool.
THEOREM Invariance == SafeSpec => []IInv
  <1>1. Init => IInv
    BY InitInvariant
  <1>2. IInv /\ [Next]_vars => IInv'
    BY StepBasics, StepCounting DEF IInv
  <1> QED
    BY <1>1, <1>2, PTL DEF SafeSpec

\* The variables of the pool keep their types.
THEOREM TypeCorrect == SafeSpec => []TypeOK
  <1>1. IInv => TypeOK
    BY DEF IInv
  <1> QED
    BY <1>1, Invariance, PTL

\* No wakeup is lost, whatever the number of workers and of calling threads.
THEOREM NoLostWakeup == SafeSpec => []WorkConserving
  <1>1. IInv => WorkConserving
    BY DEF IInv
  <1> QED
    BY <1>1, Invariance, PTL

\* Each closure is queued, running or done, in one place and once.
THEOREM RunsOnce == SafeSpec => []ExactlyOnce
  <1>1. IInv => ExactlyOnce
    BY DEF IInv
  <1> QED
    BY <1>1, Invariance, PTL

\* Closing the pool abandons no queued closure.
THEOREM DrainsOnClose == SafeSpec => []NothingAbandoned
  <1>1. IInv => NothingAbandoned
    BY DEF IInv
  <1> QED
    BY <1>1, Invariance, PTL
-------------------------------------------------------------------------------
(* Refinement of TaskPool. *)

\* A worker that looks at the queue leaves room for one more running task.
LEMMA RoomToRun ==
    ASSUME IInv, NEW w \in Workers, thread[w] = "awake"
    PROVE  Cardinality(Running) < Cardinality(Workers)
  <1> USE PoolAssumption DEF PoolAssumption
  <1> DEFINE Runners == {v \in Workers : thread[v] = "running"}
  <1>1. Runners \in SUBSET (Workers \ {w})
    OBVIOUS
  <1>2. /\ IsFiniteSet(Workers \ {w})
        /\ Cardinality(Workers \ {w}) = Cardinality(Workers) - 1
        /\ Cardinality(Workers) \in Nat
    BY FS_RemoveElement, FS_CardinalityType
  <1>3. /\ IsFiniteSet(Runners)
        /\ Cardinality(Runners) <= Cardinality(Workers) - 1
        /\ Cardinality(Runners) \in Nat
    BY <1>1, <1>2, FS_Subset, FS_CardinalityType
  <1> DEFINE f == [v \in Runners |-> job[v]]
  <1>4. f \in Surjection(Runners, Running)
    <2>1. \A v \in Workers : job[v] # NoTask <=> thread[v] = "running"
      BY DEF IInv, JobWhileRunning
    <2>2. \A v \in Runners : f[v] \in Running
      BY <2>1 DEF Running
    <2>3. \A t \in Running : \E v \in Runners : f[v] = t
      BY <2>1 DEF Running
    <2>4. f \in [Runners -> Running]
      BY <2>2
    <2> HIDE DEF f, Runners
    <2> QED
      BY <2>3, <2>4 DEF Surjection
  <1>5. IsFiniteSet(Running) /\ Cardinality(Running) <= Cardinality(Runners)
    <2> HIDE DEF f, Runners
    <2> QED
      BY <1>3, <1>4, FS_Surjection
  <1>6. Cardinality(Running) \in Nat
    BY <1>5, FS_CardinalityType
  <1> QED
    BY <1>2, <1>3, <1>5, <1>6

\* Each step of the pool is a step of its promise, or changes nothing it speaks of.
LEMMA StepRefines ==
    ASSUME IInv, [Next]_vars
    PROVE  [Promise!Next]_(Promise!avars)
  <1> USE DEF Promise!avars
  <1>1. TypeOK /\ ExactlyOnce /\ JobWhileRunning /\ ClosedByOwner
    BY DEF IInv
  <1>2. ASSUME NEW w \in Workers, Take(w)
        PROVE  Promise!Start
    <2>1. Cardinality(Running) < Cardinality(Workers)
      BY <1>2, RoomToRun DEF Take
    <2>2. Head(tasks) \in Tasks
      BY <1>1, <1>2, PopQueue DEF Take
    <2>3. Running' = Running \cup {Head(tasks)}
      <3>1. job[w] = NoTask /\ Head(tasks) # NoTask
        BY <1>1, <1>2, <2>2, PoolAssumption DEF Take, JobWhileRunning, PoolAssumption
      <3> QED
        BY <1>1, <1>2, <3>1 DEF Take, TypeOK, Running
    <2>4. Promise!Cardinality(Running) = Cardinality(Running)
      BY DEF Cardinality, Promise!Cardinality
    <2> QED
      BY <1>2, <2>1, <2>3, <2>4 DEF Take, Promise!Start
  <1>3. ASSUME NEW w \in Workers, Return(w)
        PROVE  \E t \in Tasks : Promise!Finish(t)
    <2>1. job[w] \in Tasks /\ job[w] \in Running
      BY <1>1, <1>3 DEF Return, TypeOK, JobWhileRunning, Running
    <2>2. Running' = Running \ {job[w]}
      BY <1>1, <1>3, <2>1 DEF Return, TypeOK, Running, ExactlyOnce
    <2>3. Promise!Finish(job[w])
      BY <1>3, <2>1, <2>2 DEF Return, Promise!Finish
    <2> QED
      BY <2>1, <2>3
  <1>4. ASSUME NEW c \in Callers, NEW t \in Tasks, Push(c, t)
        PROVE  Promise!Submit(t)
    <2>1. Running' = Running
      BY <1>4 DEF Push, Running
    <2>2. Promise!InQueue = Queued
      BY DEF Promise!InQueue, Queued
    <2> QED
      BY <1>1, <1>4, <2>1, <2>2 DEF Push, Promise!Submit, ClosedByOwner
  <1>5. ASSUME Close
        PROVE  Promise!Shut
    <2>1. Running' = Running
      BY <1>5 DEF Close, Running
    <2> QED
      BY <1>1, <1>5, <2>1 DEF Close, Promise!Shut, ClosedByOwner
  <1>6. ASSUME \/ \E w \in Workers : Leave(w) \/ Wait(w) \/ SpuriousWake(w)
               \/ \E c \in Callers : NotifyOne(c)
               \/ NotifyAll
               \/ UNCHANGED vars
        PROVE  UNCHANGED <<tasks, Running, done, ~isClosed>>
    <2>1. UNCHANGED <<tasks, job, done, isClosed>>
      BY <1>6 DEF Leave, Wait, SpuriousWake, NotifyOne, NotifyAll, vars
    <2> QED
      BY <2>1 DEF Running
  <1> QED
    BY <1>2, <1>3, <1>4, <1>5, <1>6 DEF Next, Worker, Promise!Next

\* The pool implements the safety part of what TaskPool promises: closures
\* start in the order they were added, once each, at most one a worker.
THEOREM Refinement == SafeSpec => Promise!SafeSpec
  <1>1. Init => Promise!Init
    BY PoolAssumption DEF Init, Promise!Init, Running, PoolAssumption
  <1>2. IInv /\ [Next]_vars => [Promise!Next]_(Promise!avars)
    BY StepRefines
  <1> QED
    BY <1>1, <1>2, Invariance, PTL DEF SafeSpec, Promise!SafeSpec
===============================================================================
