---------------------------- MODULE WebServerProofs ----------------------------
(***************************************************************************)
(* Theorems about the reactor, for every number of workers, descriptors    *)
(* and clients, every trigger mode, and timers on or off.                  *)
(***************************************************************************)
EXTENDS WebServer, FiniteSetTheorems, SequenceTheorems, TLAPS

\* Where the threads can be, and when they have a descriptor; a batch is
\* empty outside of the loop over the events, and has one event for each
\* descriptor.
Placed ==
    /\ \A w \in Workers : pc[w] \in WorkerPcs /\ (pc[w] = "idle" <=> on[w] = NoFd)
    /\ pc[Main] \in LoopPcs \cup HoldingPcs
    /\ pc[Main] \in LoopPcs <=> on[Main] = NoFd
    /\ inCallback => pc[Main] \in ClosingPcs \cup {"pop"}
    /\ pc[Main] = "pop" => inCallback
    /\ inCallback \/ pc[Main] \in {"tick", "timeout", "wait"} => batch = {}
    /\ \A e, f \in batch : e.fd = f.fd => e = f

\* The queue operations of the code, on sequences of tasks.
LEMMA TaskQueue ==
    ASSUME NEW S, NEW q \in Seq(S)
    PROVE  /\ \A x \in S : Append(q, x) \in Seq(S)
           /\ q # <<>> => Head(q) \in S /\ Tail(q) \in Seq(S)
  OBVIOUS

\* Replacing a value of a function by one of its range.
LEMMA Update ==
    ASSUME NEW S, NEW T, NEW f \in [S -> T], NEW x, NEW v, x \in S => v \in T
    PROVE  [f EXCEPT ![x] = v] \in [S -> T]
  OBVIOUS

\* The initial state has the types of TypeOK.
THEOREM InitTypes == Init => TypeOK
  <1> SUFFICES ASSUME Init PROVE TypeOK
    OBVIOUS
  <1> USE ServerAssumption
  <1> USE DEF Init
  <1>1. backlog \in Seq(Conns) /\ tasks \in Seq(Task)
    BY EmptySeq
  <1>2. pc \in [Actors -> WorkerPcs \cup LoopPcs \cup HoldingPcs]
    BY DEF LoopTop, WorkerPcs, LoopPcs
  <1>3. /\ client \in [Conns -> {"new", "open", "closed"}]
        /\ interest \in [FDs -> {"none", "off", "in", "out"}]
        /\ sock \in [FDs -> Conns \cup {NoConn}]
        /\ on \in [Actors -> FDs \cup {NoFd}]
    OBVIOUS
  <1>4. /\ unread \in [Conns -> Nat] /\ rbuf \in [FDs -> Nat]
        /\ full \in [Conns -> BOOLEAN]
        /\ isClose \in [FDs -> BOOLEAN] /\ keep \in [FDs -> BOOLEAN]
    OBVIOUS
  <1>5. /\ {} \in SUBSET FDs /\ {} \in SUBSET {} /\ {} \in SUBSET Event
        /\ 0 \in Int /\ 0 \in Nat /\ TRUE \in BOOLEAN /\ FALSE \in BOOLEAN
        /\ "forever" \in {"forever", "timed", "zero"}
    OBVIOUS
  <1> QED
    BY <1>1, <1>2, <1>3, <1>4, <1>5, Zenon DEF TypeOK

\* A step of the clients or of the clock keeps the types.
LEMMA EnvironmentTypes == TypeOK /\ Environment => TypeOK'
  <1> SUFFICES ASSUME TypeOK, Environment PROVE TypeOK'
    OBVIOUS
  <1> USE ServerAssumption DEF TypeOK, network, sockets, users, timers, threads, history
  <1>1. ASSUME NEW c \in Conns, Connect(c) PROVE TypeOK'
    BY <1>1, TaskQueue DEF Connect
  <1>2. ASSUME NEW c \in Conns, Send(c) PROVE TypeOK'
    BY <1>2 DEF Send
  <1>3. ASSUME NEW c \in Conns, Drain(c) PROVE TypeOK'
    BY <1>3 DEF Drain
  <1>4. ASSUME NEW c \in Conns, HangUp(c) PROVE TypeOK'
    BY <1>4 DEF HangUp
  <1>5. ASSUME NEW fd \in FDs, Expire(fd) PROVE TypeOK'
    BY <1>5 DEF Expire
  <1> QED
    BY <1>1, <1>2, <1>3, <1>4, <1>5 DEF Environment

\* CloseConn keeps the types.
LEMMA CloseTypes ==
    ASSUME TypeOK, NEW a \in Actors, CloseConn(a)
    PROVE  TypeOK'
  <1> USE DEF TypeOK, network, sockets, users, timers, threads, history, Goto,
        WorkerPcs, ClosingPcs, LoopPcs, HoldingPcs
  <1>1. After(a) \in {"idle", "pop", "dispatch"}
    BY DEF After
  <1>2. Leave(a) => on' \in [Actors -> FDs \cup {NoFd}]
    BY DEF Leave
  <1>3. ASSUME DelFd(a) PROVE TypeOK'
    BY <1>3 DEF DelFd
  <1>4. ASSUME CheckClose(a) PROVE TypeOK'
    BY <1>1, <1>2, <1>4 DEF CheckClose
  <1>5. ASSUME MarkClosed(a) PROVE TypeOK'
    <2>1. isClose' \in [FDs -> BOOLEAN]
      BY <1>5, Zenon DEF MarkClosed
    <2> QED
      BY <1>5, <2>1 DEF MarkClosed
  <1>6. ASSUME CloseFd(a) PROVE TypeOK'
    <2>1. /\ sock' \in [FDs -> Conns \cup {NoConn}]
          /\ interest' \in [FDs -> {"none", "off", "in", "out"}]
      BY <1>6 DEF CloseFd, Release
    <2>2. client' \in [Conns -> {"new", "open", "closed"}] /\ unread' \in [Conns -> Nat]
      <3>1. CASE sock[on[a]] = NoConn
        BY <1>6, <3>1 DEF CloseFd, Release
      <3>2. CASE sock[on[a]] # NoConn
        <4>1. /\ client' = [client EXCEPT ![sock[on[a]]] = "new"]
              /\ unread' = [unread EXCEPT ![sock[on[a]]] = 0]
          BY <1>6, <3>2 DEF CloseFd, Release
        <4> QED
          BY <4>1, Update
      <3> QED
        BY <3>1, <3>2
    <2>3. full' \in [Conns -> BOOLEAN]
      BY <1>6, Zenon DEF CloseFd, Release
    <2>4. /\ pc' = [pc EXCEPT ![a] = After(a)]
          /\ UNCHANGED <<backlog, listenEdge, users, timers, inCallback, batch, tasks,
                         alive, history>>
          /\ on' \in [Actors -> FDs \cup {NoFd}]
      BY <1>2, <1>6 DEF CloseFd
    <2> HIDE DEF Goto
    <2> QED
      BY <1>1, <2>1, <2>2, <2>3, <2>4
  <1> QED
    BY <1>3, <1>4, <1>5, <1>6 DEF CloseConn

\* A step of the main thread keeps the types.
LEMMA MainTypes == TypeOK /\ Placed /\ MainStep => TypeOK'
  <1> SUFFICES ASSUME TypeOK, Placed, MainStep PROVE TypeOK'
    OBVIOUS
  <1> USE ServerAssumption DEF TypeOK, network, sockets, users, timers, threads, history, Goto,
        WorkerPcs, ClosingPcs, LoopPcs, HoldingPcs
  <1>0. Main \in Actors
    BY DEF Actors
  <1>1. ASSUME NEW fd \in FDs, Fire(fd) PROVE TypeOK'
    BY <1>0, <1>1 DEF Fire
  <1>2. ASSUME Pop PROVE TypeOK'
    BY <1>0, <1>2 DEF Pop
  <1>3. ASSUME TickDone PROVE TypeOK'
    BY <1>0, <1>3 DEF TickDone
  <1>4. ASSUME GetNextTick PROVE TypeOK'
    BY <1>0, <1>4 DEF GetNextTick
  <1>5. ASSUME Wait PROVE TypeOK'
    <2>1. Ready \cup ListenReady \in SUBSET Event
      BY DEF Ready, ListenReady, Event
    <2> QED
      BY <1>0, <1>5, <2>1 DEF Wait
  <1>6. ASSUME EndOfBatch PROVE TypeOK'
    BY <1>0, <1>6 DEF EndOfBatch, LoopTop
  <1>7. ASSUME NEW e \in batch, Dispatch(e) PROVE TypeOK'
    <2>1. e.ev \in {"hup", "in", "out"} => e.fd \in FDs
      BY DEF Event, ConnEvent, ListenEvent
    <2>2. batch' \in SUBSET Event
      BY <1>7 DEF Dispatch
    <2>3. ASSUME DispatchHup(e) PROVE TypeOK'
      BY <1>0, <2>1, <2>2, <2>3 DEF DispatchHup
    <2>4. ASSUME DispatchTask(e) PROVE TypeOK'
      <3>1. [fd |-> e.fd, op |-> IF e.ev = "in" THEN "read" ELSE "write"] \in Task
        BY <2>1, <2>4 DEF DispatchTask, Task
      <3>2. tasks' \in Seq(Task)
        BY <2>4, <3>1, TaskQueue DEF DispatchTask
      <3> QED
        BY <1>0, <2>2, <2>4, <3>2 DEF DispatchTask
    <2>5. ASSUME DispatchListen(e) PROVE TypeOK'
      BY <1>0, <2>2, <2>5 DEF DispatchListen
    <2> QED
      BY <1>7, <2>3, <2>4, <2>5 DEF Dispatch
  <1>8. ASSUME AcceptFails PROVE TypeOK'
    BY <1>0, <1>8 DEF AcceptFails
  <1>9. ASSUME RefuseBusy PROVE TypeOK'
    BY <1>0, <1>9, TaskQueue DEF RefuseBusy, TooMany
  <1>10. ASSUME NEW fd \in FDs, Accept(fd) PROVE TypeOK'
    BY <1>0, <1>10, TaskQueue DEF Accept
  <1>11. ASSUME InitUser PROVE TypeOK'
    <2>1. isClose' \in [FDs -> BOOLEAN]
      BY <1>11, Zenon DEF InitUser
    <2> QED
      BY <1>0, <1>11, <2>1 DEF InitUser
  <1>12. ASSUME Register PROVE TypeOK'
    <2>1. interest' \in [FDs -> {"none", "off", "in", "out"}]
      BY <1>12 DEF Register
    <2>2. on[Main] \in FDs
      BY <1>0, <1>12 DEF Register, Placed, LoopPcs
    <2>3. timer' \in SUBSET FDs /\ due' \in SUBSET timer'
      BY <1>12, <2>2 DEF Register
    <2> QED
      BY <1>0, <1>12, <2>1, <2>3 DEF Register
  <1>13. ASSUME CloseConn(Main) PROVE TypeOK'
    BY <1>0, <1>13, CloseTypes
  <1>14. ASSUME AcceptError PROVE TypeOK'
    BY <1>0, <1>14 DEF AcceptError
  <1>15. ASSUME RefuseKilled PROVE TypeOK'
    BY <1>0, <1>15 DEF RefuseKilled
  <1> QED
    BY <1>1, <1>2, <1>3, <1>4, <1>5, <1>6, <1>7, <1>8, <1>9, <1>10, <1>11, <1>12,
       <1>13, <1>14, <1>15 DEF MainStep

\* A step of a worker keeps the types.
LEMMA WorkerTypes ==
    ASSUME TypeOK, Placed, NEW w \in Workers, WorkerStep(w)
    PROVE  TypeOK'
  <1> USE ServerAssumption DEF TypeOK, network, sockets, users, timers, threads, history, Goto,
        WorkerPcs, ClosingPcs, LoopPcs, HoldingPcs
  <1>0. w \in Actors
    BY DEF Actors
  <1>1. ASSUME TakeTask(w) PROVE TypeOK'
    <2>1. Head(tasks) \in Task /\ tasks' \in Seq(Task)
      BY <1>1, TaskQueue DEF TakeTask
    <2>2. Head(tasks).fd \in FDs /\ Head(tasks).op \in {"read", "write"}
      BY <2>1 DEF Task
    <2> QED
      BY <1>0, <1>1, <2>1, <2>2 DEF TakeTask
  <1>2. ASSUME NEW n \in Nat, Receive(on[w], n), sock[on[w]] \in Conns => n <= unread[sock[on[w]]]
        PROVE  /\ unread' \in [Conns -> Nat]
               /\ rbuf' \in [FDs -> Nat]
    <2> DEFINE u == unread[sock[on[w]]] - n
               r == IF rbuf[on[w]] + n > MaxUnread THEN MaxUnread ELSE rbuf[on[w]] + n
    <2>1. unread' = [unread EXCEPT ![sock[on[w]]] = u] /\ rbuf' = [rbuf EXCEPT ![on[w]] = r]
      BY <1>2 DEF Receive
    <2>2. sock[on[w]] \in Conns => u \in Nat
      BY <1>2
    <2>3. on[w] \in FDs => r \in Nat
      OBVIOUS
    <2> HIDE DEF u, r
    <2> QED
      BY <2>1, <2>2, <2>3, Update
  <1>3. ASSUME ReadFails(w) PROVE TypeOK'
    BY <1>0, <1>3 DEF ReadFails
  <1>4. ASSUME NEW n \in Nat, Receive(on[w], n), sock[on[w]] \in Conns => n <= unread[sock[on[w]]],
               Goto(w, "read", "process")
        PROVE  TypeOK'
    <2>1. unread' \in [Conns -> Nat] /\ rbuf' \in [FDs -> Nat]
      BY <1>2, <1>4
    <2> QED
      BY <1>0, <1>4, <2>1 DEF Receive
  <1>5. ASSUME ReadAll(w) PROVE TypeOK'
    <2>1. on[w] \in FDs
      BY <1>0, <1>5 DEF ReadAll, Placed
    <2>2. unread[sock[on[w]]] \in Nat
      BY <1>5, <2>1 DEF ReadAll
    <2> QED
      BY <1>4, <1>5, <2>2 DEF ReadAll
  <1>6. ASSUME ReadSome(w) PROVE TypeOK'
    BY <1>4, <1>6 DEF ReadSome
  <1>7. ASSUME ProcessNothing(w) PROVE TypeOK'
    <2>1. keep' \in [FDs -> BOOLEAN]
      BY <1>7, Zenon DEF ProcessNothing
    <2> QED
      BY <1>0, <1>7, <2>1 DEF ProcessNothing
  <1>8. ASSUME Process(w) PROVE TypeOK'
    <2>1. PICK n \in 0..rbuf[on[w]], k \in BOOLEAN :
            /\ rbuf' = [rbuf EXCEPT ![on[w]] = @ - n]
            /\ keep' = [keep EXCEPT ![on[w]] = k]
      BY <1>8, Zenon DEF Process
    <2>2. keep' \in [FDs -> BOOLEAN]
      BY <2>1, Zenon
    <2>3. rbuf' \in [FDs -> Nat]
      <3> DEFINE r == rbuf[on[w]] - n
      <3>1. rbuf' = [rbuf EXCEPT ![on[w]] = r]
        BY <2>1
      <3>2. on[w] \in FDs => r \in Nat
        BY <2>1
      <3> HIDE DEF r
      <3> QED
        BY <3>1, <3>2, Update
    <2> QED
      BY <1>0, <1>8, <2>2, <2>3 DEF Process
  <1>9. ASSUME ModFd(w) PROVE TypeOK'
    BY <1>0, <1>9 DEF ModFd
  <1>10. ASSUME WriteDone(w) PROVE TypeOK'
    BY <1>0, <1>10 DEF WriteDone
  <1>11. ASSUME WriteBlocks(w) PROVE TypeOK'
    <2>1. full' \in [Conns -> BOOLEAN]
      BY <1>11, Zenon DEF WriteBlocks
    <2> QED
      BY <1>0, <1>11, <2>1 DEF WriteBlocks
  <1>12. ASSUME WriteGivesUp(w) PROVE TypeOK'
    BY <1>0, <1>12 DEF WriteGivesUp
  <1>13. ASSUME Killed(w) PROVE TypeOK'
    BY <1>0, <1>13 DEF Killed
  <1>14. ASSUME CloseConn(w) PROVE TypeOK'
    BY <1>0, <1>14, CloseTypes
  <1> QED
    BY <1>1, <1>3, <1>5, <1>6, <1>7, <1>8, <1>9, <1>10, <1>11, <1>12, <1>13, <1>14
       DEF WorkerStep

\* No step takes a thread out of its place.
LEMMA KeepPlaced == TypeOK /\ Placed /\ [Next]_vars => Placed'
  <1> SUFFICES ASSUME TypeOK, Placed, [Next]_vars PROVE Placed'
    OBVIOUS
  <1> USE ServerAssumption DEF Placed, network, sockets, users, timers, threads, history, Goto,
        WorkerPcs, ClosingPcs, LoopPcs, HoldingPcs
  <1>0. Main \in Actors /\ Workers \subseteq Actors
    BY DEF Actors
  <1>a. pc \in [Actors -> WorkerPcs \cup LoopPcs \cup HoldingPcs] /\ on \in [Actors -> FDs \cup {NoFd}]
    BY DEF TypeOK
  <1>1. CASE Environment
    BY <1>1 DEF Environment, Connect, Send, Drain, HangUp, Expire
  <1>2. ASSUME NEW w \in Workers, CloseConn(w) PROVE Placed'
    <2>1. After(w) = "idle"
      BY <1>2 DEF After
    <2>2. on[w] \in FDs /\ w # Main
      BY <1>0, <1>a, <1>2 DEF CloseConn, DelFd, CheckClose, MarkClosed, CloseFd
    <2>3. CASE DelFd(w) \/ MarkClosed(w)
      BY <1>0, <1>a, <2>2, <2>3 DEF DelFd, MarkClosed
    <2>4. CASE CheckClose(w)
      BY <1>0, <1>a, <2>1, <2>2, <2>4 DEF CheckClose, Leave
    <2>5. CASE CloseFd(w)
      BY <1>0, <1>a, <2>1, <2>2, <2>5 DEF CloseFd, Leave
    <2> QED
      BY <1>2, <2>3, <2>4, <2>5 DEF CloseConn
  <1>3. CASE CloseConn(Main)
    <2>1. After(Main) = IF inCallback THEN "pop" ELSE "dispatch"
      BY DEF After
    <2>3. CASE DelFd(Main) \/ MarkClosed(Main)
      BY <1>0, <1>a, <2>3 DEF DelFd, MarkClosed
    <2>4. CASE CheckClose(Main)
      BY <1>0, <1>a, <2>1, <2>4 DEF CheckClose, Leave
    <2>5. CASE CloseFd(Main)
      BY <1>0, <1>a, <2>1, <2>5 DEF CloseFd, Leave
    <2> QED
      BY <1>3, <2>3, <2>4, <2>5 DEF CloseConn
  <1>4. ASSUME NEW fd \in FDs, Fire(fd) PROVE Placed'
    BY <1>0, <1>a, <1>4 DEF Fire
  <1>5. CASE Pop \/ TickDone \/ GetNextTick
    BY <1>0, <1>a, <1>5 DEF Pop, TickDone, GetNextTick
  <1>6. CASE Wait
    <2>1. \A e, f \in Ready : e.fd = f.fd => e.ev = f.ev
      BY DEF Ready, ReadyAs
    <2>2. \A e, f \in Ready : e.fd = f.fd => e = f
      BY <2>1 DEF Ready, ConnEvent
    <2>3. \A e \in Ready : e.fd \in FDs
      BY DEF Ready, ConnEvent
    <2>4. \A e \in ListenReady : e = ListenEvent
      BY DEF ListenReady
    <2>5. \A e, f \in batch' : e.fd = f.fd => e = f
      BY <1>6, <2>2, <2>3, <2>4 DEF Wait, ListenEvent
    <2> QED
      BY <1>0, <1>a, <1>6, <2>5 DEF Wait
  <1>7. CASE EndOfBatch
    BY <1>0, <1>a, <1>7 DEF EndOfBatch, LoopTop
  <1>8. ASSUME NEW e \in batch, Dispatch(e) PROVE Placed'
    <2>1. e.ev = "hup" => e.fd \in FDs
      BY DEF TypeOK, Event, ConnEvent, ListenEvent
    <2>2. batch' \subseteq batch
      BY <1>8 DEF Dispatch
    <2>3. CASE DispatchHup(e)
      BY <1>0, <1>a, <2>1, <2>2, <2>3 DEF DispatchHup
    <2>4. CASE DispatchTask(e)
      BY <1>0, <1>a, <2>2, <2>4 DEF DispatchTask
    <2>5. CASE DispatchListen(e)
      BY <1>0, <1>a, <2>2, <2>5 DEF DispatchListen
    <2> QED
      BY <1>8, <2>3, <2>4, <2>5 DEF Dispatch
  <1>9. CASE AcceptFails \/ AcceptError \/ RefuseBusy \/ RefuseKilled \/ InitUser
    BY <1>0, <1>a, <1>9 DEF AcceptFails, AcceptError, RefuseBusy, RefuseKilled, TooMany, InitUser
  <1>10. ASSUME NEW fd \in FDs, Accept(fd) PROVE Placed'
    BY <1>0, <1>a, <1>10 DEF Accept
  <1>11. CASE Register
    BY <1>0, <1>a, <1>11 DEF Register
  <1>12. ASSUME NEW w \in Workers, TakeTask(w) PROVE Placed'
    <2>1. Head(tasks) \in Task
      BY <1>12, TaskQueue DEF TakeTask, TypeOK
    <2>2. Head(tasks).fd \in FDs /\ Head(tasks).op \in {"read", "write"}
      BY <2>1 DEF Task
    <2> QED
      BY <1>0, <1>a, <1>12, <2>2 DEF TakeTask
  <1>13. ASSUME NEW w \in Workers, ReadFails(w) \/ ReadAll(w) \/ ReadSome(w) PROVE Placed'
    BY <1>0, <1>a, <1>13 DEF ReadFails, ReadAll, ReadSome, Receive
  <1>14. ASSUME NEW w \in Workers, ProcessNothing(w) \/ Process(w) PROVE Placed'
    BY <1>0, <1>a, <1>14 DEF ProcessNothing, Process
  <1>15. ASSUME NEW w \in Workers, ModFd(w) PROVE Placed'
    BY <1>0, <1>a, <1>15 DEF ModFd
  <1>16. ASSUME NEW w \in Workers, WriteDone(w) \/ WriteBlocks(w) \/ WriteGivesUp(w) \/ Killed(w)
         PROVE  Placed'
    BY <1>0, <1>a, <1>16 DEF WriteDone, WriteBlocks, WriteGivesUp, Killed
  <1>17. CASE UNCHANGED vars
    BY <1>17 DEF vars
  <1> QED
    BY <1>1, <1>2, <1>3, <1>4, <1>5, <1>6, <1>7, <1>8, <1>9, <1>10, <1>11, <1>12, <1>13,
       <1>14, <1>15, <1>16, <1>17 DEF Next, MainStep, WorkerStep

-------------------------------------------------------------------------------
(* The timer: every descriptor in the epoll set has a node *)

\* What is in the epoll set is open and has a node, and so has what is in the
\* batch; a callback has taken its descriptor out of the set before Pop takes
\* the node.
Noded ==
    /\ \A fd \in FDs : interest[fd] # "none" => sock[fd] # NoConn
    /\ inCallback /\ pc[Main] # "del" => interest[on[Main]] = "none"
    /\ TimeoutOn => \A fd \in FDs : interest[fd] # "none" => fd \in timer
    /\ TimeoutOn => \A e \in batch : e.ev \in {"hup", "in", "out"} => e.fd \in timer

\* CloseConn never puts a descriptor into the epoll set.
LEMMA CloseNoded ==
    ASSUME TypeOK, Placed, Placed', Noded, NEW a \in Actors, CloseConn(a)
    PROVE  Noded'
  <1> USE ServerAssumption DEF Noded, network, sockets, users, timers, threads, history, Goto
  <1>a. /\ pc \in [Actors -> WorkerPcs \cup LoopPcs \cup HoldingPcs]
        /\ on \in [Actors -> FDs \cup {NoFd}]
        /\ interest \in [FDs -> {"none", "off", "in", "out"}]
        /\ sock \in [FDs -> Conns \cup {NoConn}]
        /\ Main \in Actors
    BY DEF TypeOK, Actors
  <1>b. on[Main] \in FDs \/ ~inCallback
    BY <1>a DEF Placed, LoopPcs, ClosingPcs
  <1>1. CASE DelFd(a)
    BY <1>a, <1>b, <1>1 DEF DelFd
  <1>2. CASE CheckClose(a)
    BY <1>a, <1>b, <1>2 DEF CheckClose, Leave, After, Actors
  <1>3. CASE MarkClosed(a)
    BY <1>a, <1>b, <1>3 DEF MarkClosed
  <1>4. CASE CloseFd(a)
    <2>1. /\ sock' = [sock EXCEPT ![on[a]] = NoConn]
          /\ interest' = [interest EXCEPT ![on[a]] = "none"]
          /\ UNCHANGED <<timer, batch, inCallback>>
      BY <1>4 DEF CloseFd, Release
    <2>2. inCallback => on'[Main] = on[Main] /\ (pc[Main] # "del" \/ pc'[Main] = "del")
      BY <1>a, <1>4 DEF CloseFd, Leave, After, Actors
    <2>3. inCallback /\ pc'[Main] # "del" => pc[Main] # "del"
      BY <1>a, <1>4 DEF CloseFd
    <2> QED
      BY <1>a, <1>b, <2>1, <2>2, <2>3
  <1> QED
    BY <1>1, <1>2, <1>3, <1>4 DEF CloseConn

\* No step arms a descriptor, or puts an event of it into the batch, without a
\* timer node, and no step removes the node of such a descriptor.
LEMMA KeepNoded == TypeOK /\ Placed /\ Placed' /\ Noded /\ [Next]_vars => Noded'
  <1> SUFFICES ASSUME TypeOK, Placed, Placed', Noded, [Next]_vars PROVE Noded'
    OBVIOUS
  <1> USE ServerAssumption DEF Noded, network, sockets, users, timers, threads, history, Goto
  <1>a. /\ pc \in [Actors -> WorkerPcs \cup LoopPcs \cup HoldingPcs]
        /\ on \in [Actors -> FDs \cup {NoFd}]
        /\ interest \in [FDs -> {"none", "off", "in", "out"}]
        /\ sock \in [FDs -> Conns \cup {NoConn}]
        /\ Main \in Actors /\ Workers \subseteq Actors
        /\ batch \in SUBSET Event
    BY DEF TypeOK, Actors
  <1>b. /\ on[Main] \in FDs <=> pc[Main] \notin LoopPcs
        /\ inCallback => pc[Main] \in ClosingPcs \cup {"pop"}
        /\ \A w \in Workers : on[w] \in FDs <=> pc[w] # "idle"
    BY <1>a DEF Placed
  <1>1. CASE Environment
    BY <1>1 DEF Environment, Connect, Send, Drain, HangUp, Expire
  <1>2. ASSUME NEW fd \in FDs, Fire(fd) PROVE Noded'
    BY <1>a, <1>b, <1>2 DEF Fire
  <1>3. CASE Pop
    <2>1. pc[Main] = "pop" /\ inCallback /\ batch = {}
      BY <1>3 DEF Pop, Placed
    <2> QED
      BY <1>a, <1>b, <1>3, <2>1 DEF Pop
  <1>4. CASE TickDone \/ GetNextTick \/ EndOfBatch \/ AcceptFails \/ AcceptError \/ RefuseBusy \/ RefuseKilled \/ InitUser
    BY <1>a, <1>b, <1>4 DEF TickDone, GetNextTick, EndOfBatch, AcceptFails, AcceptError, RefuseBusy, RefuseKilled, TooMany, InitUser,
      LoopTop, LoopPcs, ClosingPcs
  <1>5. CASE Wait
    <2>1. \A e \in Ready : e.fd \in FDs /\ interest[e.fd] # "none" /\ sock[e.fd] # NoConn
      BY DEF Ready, ConnEvent, Armed
    <2>2. \A e \in ListenReady : e.fd \notin FDs /\ e.ev = "listen"
      BY DEF ListenReady, ListenEvent
    <2>3. \A fd \in FDs : interest'[fd] # "none" => interest[fd] # "none"
      BY <1>5, <2>1, <2>2 DEF Wait
    <2>4. ~inCallback'
      BY <1>b, <1>5 DEF Wait, ClosingPcs
    <2> QED
      BY <1>5, <2>1, <2>2, <2>3, <2>4 DEF Wait
  <1>6. ASSUME NEW e \in batch, Dispatch(e) PROVE Noded'
    <2>1. ~inCallback /\ pc[Main] = "dispatch"
      BY <1>b, <1>6 DEF Dispatch, DispatchHup, DispatchTask, DispatchListen, ClosingPcs
    <2> QED
      BY <1>6, <2>1 DEF Dispatch, DispatchHup, DispatchTask, DispatchListen
  <1>7. ASSUME NEW fd \in FDs, Accept(fd) PROVE Noded'
    <2>1. /\ pc[Main] = "accept" /\ ~inCallback'
          /\ sock' = [sock EXCEPT ![fd] = Head(backlog)]
          /\ UNCHANGED <<interest, timer, batch>>
      BY <1>b, <1>7 DEF Accept, ClosingPcs
    <2>2. sock[fd] = NoConn
      BY <1>7 DEF Accept, FreeFds
    <2> QED
      BY <1>a, <2>1, <2>2
  <1>8. CASE Register
    <2>1. on[Main] \in FDs /\ ~inCallback'
      BY <1>b, <1>8 DEF Register, LoopPcs, ClosingPcs
    <2> QED
      BY <1>a, <1>8, <2>1 DEF Register
  <1>9. ASSUME NEW a \in Actors, CloseConn(a) PROVE Noded'
    BY <1>9, CloseNoded
  <1>10. ASSUME NEW w \in Workers, ModFd(w) PROVE Noded'
    <2>1. /\ on[w] \in FDs /\ on'[Main] = on[Main] /\ pc'[Main] = pc[Main]
      BY <1>a, <1>b, <1>10 DEF ModFd
    <2> QED
      BY <1>a, <1>b, <1>10, <2>1 DEF ModFd
  <1>11. ASSUME NEW w \in Workers, WorkerStep(w), ~ModFd(w), ~CloseConn(w) PROVE Noded'
    <2>1. /\ pc'[Main] = pc[Main] /\ on'[Main] = on[Main]
          /\ UNCHANGED <<sock, interest, timer, batch, inCallback>>
      BY <1>a, <1>11 DEF WorkerStep, TakeTask, ReadFails, ReadAll, ReadSome, Receive,
        ProcessNothing, Process, WriteDone, WriteBlocks, WriteGivesUp, Killed
    <2> QED
      BY <2>1
  <1>12. CASE UNCHANGED vars
    BY <1>12 DEF vars
  <1> QED
    BY <1>a, <1>1, <1>2, <1>3, <1>4, <1>5, <1>6, <1>7, <1>8, <1>9, <1>10, <1>11, <1>12
       DEF Next, MainStep

-------------------------------------------------------------------------------
(* An open descriptor always has a node, or somebody about to close it *)

AtClose(fd) == \E a \in Actors : pc[a] = "close" /\ on[a] = fd

\* isClose is set before the descriptor is closed, and cleared after it has been
\* accepted again; a node is removed only when its descriptor is closed, or is
\* about to be by a thread that has passed the test of isClose.
Reaped ==
    /\ \A fd \in FDs : isClose[fd] =>
          sock[fd] = NoConn \/ (InMain(fd) /\ pc[Main] = "init") \/ AtClose(fd)
    /\ pc[Main] = "pop" => sock[on[Main]] = NoConn \/ AtClose(on[Main])
    /\ AlwaysReapable

\* What the invariants about descriptors read of the types.
Shape ==
    /\ pc \in [Actors -> WorkerPcs \cup LoopPcs \cup HoldingPcs]
    /\ on \in [Actors -> FDs \cup {NoFd}]
    /\ interest \in [FDs -> {"none", "off", "in", "out"}]
    /\ sock \in [FDs -> Conns \cup {NoConn}]
    /\ isClose \in [FDs -> BOOLEAN]
    /\ Main \in Actors /\ Workers \subseteq Actors
    /\ \A a \in Actors : a \in Workers \/ a = Main
    /\ \A w \in Workers : w # Main /\ (on[w] \in FDs <=> pc[w] # "idle")
    /\ on[Main] \in FDs <=> pc[Main] \notin LoopPcs
    /\ pc[Main] \in LoopPcs \cup HoldingPcs
    /\ inCallback => pc[Main] \in ClosingPcs \cup {"pop"}
    /\ pc[Main] = "pop" => inCallback
    /\ \A w \in Workers : pc[w] \in WorkerPcs

\* What the steps need of the types and places of the threads.
LEMMA ShapeFacts == TypeOK /\ Placed => Shape
  <1> USE ServerAssumption
  <1> SUFFICES ASSUME TypeOK, Placed PROVE Shape
    OBVIOUS
  <1>1. /\ pc \in [Actors -> WorkerPcs \cup LoopPcs \cup HoldingPcs]
        /\ on \in [Actors -> FDs \cup {NoFd}]
        /\ interest \in [FDs -> {"none", "off", "in", "out"}]
        /\ sock \in [FDs -> Conns \cup {NoConn}]
        /\ isClose \in [FDs -> BOOLEAN]
    BY DEF TypeOK
  <1>2. /\ Main \in Actors /\ Workers \subseteq Actors
        /\ \A a \in Actors : a \in Workers \/ a = Main
        /\ \A w \in Workers : w # Main
    BY DEF Actors
  <1> QED
    BY <1>1, <1>2 DEF Shape, Placed

\* No step leaves an open descriptor without a node, without AddClient about to
\* add one, and without a thread about to close it.
LEMMA KeepReaped == TypeOK /\ Placed /\ Placed' /\ Noded /\ Reaped /\ [Next]_vars => Reaped'
  <1> SUFFICES ASSUME TypeOK, Placed, Placed', Noded, Reaped, [Next]_vars PROVE Reaped'
    OBVIOUS
  <1> USE ServerAssumption DEF Reaped, AlwaysReapable, AtClose, InMain, history, network, sockets,
        users, timers, threads, Goto
  <1>a. Shape
    BY ShapeFacts
  <1>1. ASSUME UNCHANGED <<sock, isClose, timer, on>>,
               \A a \in Actors : pc[a] \in {"close", "init", "register"} => pc'[a] = pc[a],
               pc'[Main] = "pop" => pc[Main] = "pop"
        PROVE  Reaped'
    BY <1>1, <1>a DEF Shape
  <1>2. CASE Environment
    BY <1>1, <1>2 DEF Environment, Connect, Send, Drain, HangUp, Expire
  <1>3. ASSUME NEW fd \in FDs, Fire(fd) PROVE Reaped'
    BY <1>a, <1>3 DEF Fire, Shape, LoopPcs
  <1>4. CASE Pop
    BY <1>a, <1>4 DEF Pop, Shape, LoopPcs
  <1>5. CASE TickDone \/ GetNextTick \/ Wait \/ EndOfBatch \/ AcceptFails \/ AcceptError \/ RefuseBusy \/ RefuseKilled
    <2>1. UNCHANGED <<sock, isClose, timer, on>>
      BY <1>5 DEF TickDone, GetNextTick, Wait, EndOfBatch, AcceptFails, AcceptError, RefuseBusy, RefuseKilled, TooMany
    <2>2. PICK to \in LoopPcs : pc[Main] \in LoopPcs /\ pc' = [pc EXCEPT ![Main] = to]
      BY <1>5 DEF TickDone, GetNextTick, Wait, EndOfBatch, AcceptFails, AcceptError, RefuseBusy, RefuseKilled, TooMany,
        LoopTop, LoopPcs
    <2>3. \A a \in Actors : a = Main \/ pc'[a] = pc[a]
      BY <1>a, <2>2 DEF Shape
    <2>4. pc'[Main] \in LoopPcs
      BY <1>a, <2>2 DEF Shape
    <2> QED
      BY <1>1, <2>1, <2>2, <2>3, <2>4 DEF LoopPcs
  <1>6. ASSUME NEW e \in batch, Dispatch(e) PROVE Reaped'
    <2>1. pc[Main] = "dispatch" /\ UNCHANGED <<sock, isClose, timer>>
      BY <1>6 DEF Dispatch, DispatchHup, DispatchTask, DispatchListen
    <2>2. \A a \in Actors : a # Main => pc'[a] = pc[a] /\ on'[a] = on[a]
      BY <1>a, <1>6 DEF Dispatch, DispatchHup, DispatchTask, DispatchListen, Shape
    <2>3. pc'[Main] \in {"del", "dispatch", "accept"}
      BY <1>a, <1>6 DEF Dispatch, DispatchHup, DispatchTask, DispatchListen, Shape
    <2> QED
      BY <1>a, <2>1, <2>2, <2>3 DEF Shape
  <1>7. ASSUME NEW fd \in FDs, Accept(fd) PROVE Reaped'
    BY <1>a, <1>7 DEF Accept, FreeFds, Shape, LoopPcs
  <1>8. CASE InitUser
    BY <1>a, <1>8 DEF InitUser, Shape, LoopPcs
  <1>9. CASE Register
    BY <1>a, <1>9 DEF Register, Shape, LoopPcs
  <1>10. ASSUME NEW a \in Actors, DelFd(a) PROVE Reaped'
    BY <1>a, <1>1, <1>10 DEF DelFd, Shape
  <1>11. ASSUME NEW a \in Actors, CheckClose(a) PROVE Reaped'
    <2>1. CASE ~isClose[on[a]]
      BY <1>a, <1>1, <1>11, <2>1 DEF CheckClose, Shape
    <2>2. CASE isClose[on[a]]
      <3>1. on[a] \in FDs
        BY <1>a, <1>11 DEF CheckClose, Shape, LoopPcs
      <3>2. sock[on[a]] = NoConn \/ (InMain(on[a]) /\ pc[Main] = "init") \/ AtClose(on[a])
        BY <2>2, <3>1
      <3> QED
        BY <1>a, <1>11, <2>2, <3>1, <3>2 DEF CheckClose, Leave, After, Shape
    <2> QED
      BY <2>1, <2>2
  <1>12. ASSUME NEW a \in Actors, MarkClosed(a) PROVE Reaped'
    BY <1>a, <1>12 DEF MarkClosed, Shape, LoopPcs
  <1>13. ASSUME NEW a \in Actors, CloseFd(a) PROVE Reaped'
    <2>1. /\ sock' = [sock EXCEPT ![on[a]] = NoConn]
          /\ UNCHANGED <<timer, isClose, inCallback>>
      BY <1>13 DEF CloseFd, Release
    <2>2. on[a] \in FDs
      BY <1>a, <1>13 DEF CloseFd, Shape, LoopPcs
    <2> QED
      BY <1>a, <1>13, <2>1, <2>2 DEF CloseFd, Leave, After, Shape
  <1>14. ASSUME NEW w \in Workers, TakeTask(w) PROVE Reaped'
    BY <1>a, <1>14 DEF TakeTask, Shape
  <1>15. ASSUME NEW w \in Workers, ModFd(w) PROVE Reaped'
    BY <1>a, <1>15 DEF ModFd, Shape
  <1>16. ASSUME NEW w \in Workers, WorkerStep(w), ~TakeTask(w), ~ModFd(w), ~CloseConn(w)
         PROVE  Reaped'
    <2>1. UNCHANGED <<sock, isClose, timer, on>>
      BY <1>16 DEF WorkerStep, ReadFails, ReadAll, ReadSome, Receive,
        ProcessNothing, Process, WriteDone, WriteBlocks, WriteGivesUp, Killed
    <2>2. /\ pc[w] \in {"read", "process", "write"}
          /\ pc' = [pc EXCEPT ![w] = pc'[w]]
      BY <1>a, <1>16 DEF WorkerStep, ReadFails, ReadAll, ReadSome, Receive,
        ProcessNothing, Process, WriteDone, WriteBlocks, WriteGivesUp, Killed, Shape
    <2> QED
      BY <1>a, <1>1, <2>1, <2>2 DEF Shape
  <1>17. CASE UNCHANGED vars
    BY <1>17 DEF vars
  <1> QED
    BY <1>a, <1>2, <1>3, <1>4, <1>5, <1>6, <1>7, <1>8, <1>9, <1>10, <1>11, <1>12, <1>13,
       <1>14, <1>15, <1>16, <1>17 DEF Next, MainStep, WorkerStep, CloseConn, Shape

-------------------------------------------------------------------------------
(* Ownership *)

\* One owner at most, one at least while the connection is open, and none for a
\* descriptor that is closed.
OwnedFd(fd) ==
    /\ Armed(fd) => ~InUse(fd) /\ (InMain(fd) => pc[Main] = "del")
    /\ InMain(fd) => ~InUse(fd)
    /\ InBatch(fd) => ~Queued(fd) /\ ~Working(fd)
    /\ Queued(fd) => ~Working(fd)
    /\ \A i, j \in DOMAIN tasks : tasks[i].fd = fd /\ tasks[j].fd = fd => i = j
    /\ \A v, w \in Workers : on[v] = fd /\ on[w] = fd => v = w
    /\ sock[fd] # NoConn => Armed(fd) \/ InUse(fd) \/ InMain(fd)
    /\ InUse(fd) => sock[fd] # NoConn

\* Whoever has a descriptor from the epoll set finds it still in the set, until
\* he takes it out himself: ModFd does not fail.
RegisteredFd(fd) ==
    /\ InBatch(fd) \/ Queued(fd) => interest[fd] # "none"
    /\ \A w \in Workers :
          on[w] = fd /\ pc[w] \notin {"check", "mark", "close"} => interest[fd] # "none"

Owned == races = 0 => \A fd \in FDs : OwnedFd(fd) /\ RegisteredFd(fd)

\* The descriptors of the queue after AddTask.
LEMMA PushTask ==
    ASSUME NEW t \in Task, tasks \in Seq(Task), tasks' = Append(tasks, t), NEW fd
    PROVE  /\ Queued(fd)' <=> Queued(fd) \/ t.fd = fd
           /\ (~Queued(fd) \/ t.fd # fd) /\
              (\A i, j \in DOMAIN tasks : tasks[i].fd = fd /\ tasks[j].fd = fd => i = j)
              => \A i, j \in DOMAIN tasks' : tasks'[i].fd = fd /\ tasks'[j].fd = fd => i = j
  <1>1. DOMAIN tasks = 1..Len(tasks) /\ DOMAIN tasks' = 1..(Len(tasks) + 1)
    OBVIOUS
  <1>2. /\ \A i \in DOMAIN tasks : tasks'[i] = tasks[i]
        /\ tasks'[Len(tasks) + 1] = t
        /\ Len(tasks) \in Nat
    OBVIOUS
  <1>3. \A i \in DOMAIN tasks' : i \in DOMAIN tasks \/ i = Len(tasks) + 1
    BY <1>1, <1>2
  <1>4. DOMAIN tasks \subseteq DOMAIN tasks' /\ Len(tasks) + 1 \in DOMAIN tasks'
    BY <1>1, <1>2
  <1> QED
    BY <1>2, <1>3, <1>4 DEF Queued

\* The descriptors of the queue after a worker has taken the head.
LEMMA PopTask ==
    ASSUME tasks \in Seq(Task), tasks # <<>>, tasks' = Tail(tasks), NEW fd
    PROVE  /\ Queued(fd) <=> Queued(fd)' \/ Head(tasks).fd = fd
           /\ (\A i, j \in DOMAIN tasks : tasks[i].fd = fd /\ tasks[j].fd = fd => i = j)
              => /\ \A i, j \in DOMAIN tasks' : tasks'[i].fd = fd /\ tasks'[j].fd = fd => i = j
                 /\ Head(tasks).fd = fd => ~Queued(fd)'
  <1>1. /\ DOMAIN tasks = 1..Len(tasks) /\ DOMAIN tasks' = 1..(Len(tasks) - 1)
        /\ Len(tasks) \in Nat /\ Len(tasks) >= 1
        /\ Head(tasks) = tasks[1]
    OBVIOUS
  <1>2. \A i \in DOMAIN tasks' : tasks'[i] = tasks[i + 1]
    BY <1>1
  <1>3. \A i \in DOMAIN tasks' : i + 1 \in DOMAIN tasks /\ i + 1 # 1 /\ i \in Int
    BY <1>1
  <1>4. \A i \in DOMAIN tasks : i = 1 \/ (i - 1 \in DOMAIN tasks' /\ (i - 1) + 1 = i)
    BY <1>1
  <1>5. 1 \in DOMAIN tasks
    BY <1>1
  <1>6. Queued(fd) <=> Queued(fd)' \/ Head(tasks).fd = fd
    BY <1>1, <1>2, <1>3, <1>4, <1>5 DEF Queued
  <1>7. ASSUME \A i, j \in DOMAIN tasks : tasks[i].fd = fd /\ tasks[j].fd = fd => i = j
        PROVE  \A i, j \in DOMAIN tasks' : tasks'[i].fd = fd /\ tasks'[j].fd = fd => i = j
    <2> SUFFICES ASSUME NEW i \in DOMAIN tasks', NEW j \in DOMAIN tasks',
                        tasks'[i].fd = fd, tasks'[j].fd = fd
                 PROVE  i = j
      OBVIOUS
    <2>1. i + 1 = j + 1
      BY <1>2, <1>3, <1>7
    <2> QED
      BY <1>3, <2>1
  <1>8. ASSUME \A i, j \in DOMAIN tasks : tasks[i].fd = fd /\ tasks[j].fd = fd => i = j,
               Head(tasks).fd = fd, NEW i \in DOMAIN tasks', tasks'[i].fd = fd
        PROVE  FALSE
    BY <1>1, <1>2, <1>3, <1>5, <1>8
  <1> QED
    BY <1>6, <1>7, <1>8 DEF Queued

\* A worker has a descriptor exactly while it is not idle.
LEMMA WorkingOn ==
    ASSUME Shape, NEW fd \in FDs
    PROVE  Working(fd) <=> \E w \in Workers : on[w] = fd
  BY DEF Working, Shape

\* Races are never uncounted.
LEMMA RacesGrow == TypeOK /\ [Next]_vars /\ races' = 0 => races = 0
  <1> SUFFICES ASSUME TypeOK, [Next]_vars, races' = 0 PROVE races = 0
    OBVIOUS
  <1> USE DEF history
  <1>1. races \in Nat
    BY DEF TypeOK
  <1>2. ASSUME NEW fd \in FDs, Fire(fd) PROVE races = 0
    BY <1>1, <1>2 DEF Fire
  <1>3. CASE Environment
    BY <1>3 DEF Environment, Connect, Send, Drain, HangUp, Expire
  <1>4. ASSUME NEW a \in Actors, CloseConn(a) PROVE races = 0
    BY <1>4 DEF CloseConn, DelFd, CheckClose, MarkClosed, CloseFd
  <1>5. CASE MainStep /\ ~CloseConn(Main) /\ ~(\E fd \in FDs : Fire(fd))
    BY <1>5 DEF MainStep, Pop, TickDone, GetNextTick, Wait, EndOfBatch, Dispatch,
      DispatchHup, DispatchTask, DispatchListen, AcceptFails, AcceptError, RefuseBusy, RefuseKilled, TooMany, Accept,
      InitUser, Register
  <1>6. ASSUME NEW w \in Workers, WorkerStep(w), ~CloseConn(w) PROVE races = 0
    BY <1>6 DEF WorkerStep, TakeTask, ReadFails, ReadAll, ReadSome, Receive,
      ProcessNothing, Process, ModFd, WriteDone, WriteBlocks, WriteGivesUp, Killed
  <1>7. CASE UNCHANGED vars
    BY <1>7 DEF vars
  <1> QED
    BY <1>2, <1>3, <1>4, <1>5, <1>6, <1>7 DEF Next, Actors, MainStep

\* The errors of accept are counted up, and by AcceptError alone.
LEMMA AcceptErrorsGrow ==
    TypeOK /\ [Next]_vars /\ acceptErrors' = 0 => acceptErrors = 0 /\ ~AcceptError
  <1> SUFFICES ASSUME TypeOK, [Next]_vars, acceptErrors' = 0
               PROVE  acceptErrors = 0 /\ ~AcceptError
    OBVIOUS
  <1> USE DEF history
  <1>1. acceptErrors \in Nat
    BY DEF TypeOK
  <1>2. ~AcceptError
    BY <1>1 DEF AcceptError
  <1>3. CASE Environment
    BY <1>2, <1>3 DEF Environment, Connect, Send, Drain, HangUp, Expire
  <1>4. ASSUME NEW a \in Actors, CloseConn(a) PROVE acceptErrors = 0
    BY <1>4 DEF CloseConn, DelFd, CheckClose, MarkClosed, CloseFd
  <1>5. CASE MainStep /\ ~CloseConn(Main)
    BY <1>2, <1>5 DEF MainStep, Fire, Pop, TickDone, GetNextTick, Wait, EndOfBatch, Dispatch,
      DispatchHup, DispatchTask, DispatchListen, AcceptFails, RefuseBusy, RefuseKilled, Accept,
      InitUser, Register
  <1>6. ASSUME NEW w \in Workers, WorkerStep(w), ~CloseConn(w) PROVE acceptErrors = 0
    BY <1>6 DEF WorkerStep, TakeTask, ReadFails, ReadAll, ReadSome, Receive,
      ProcessNothing, Process, ModFd, WriteDone, WriteBlocks, WriteGivesUp, Killed
  <1>7. CASE UNCHANGED vars
    BY <1>2, <1>7 DEF vars
  <1>8. CASE MainStep
    BY <1>2, <1>4, <1>5, <1>8 DEF Actors
  <1>9. ASSUME NEW w \in Workers, WorkerStep(w) PROVE acceptErrors = 0
    BY <1>4, <1>6, <1>9 DEF Actors
  <1> QED
    BY <1>2, <1>3, <1>7, <1>8, <1>9 DEF Next

\* A step that leaves the owners alone.
LEMMA OwnersStay ==
    ASSUME Shape, Shape', NEW fd \in FDs, OwnedFd(fd),
           UNCHANGED <<sock, interest, on, tasks>>,
           InBatch(fd)' <=> InBatch(fd),
           pc[Main] = "del" => pc'[Main] = "del"
    PROVE  OwnedFd(fd)'
  <1>1. Working(fd)' <=> Working(fd)
    BY WorkingOn DEF Working, Shape
  <1> QED
    BY <1>1 DEF OwnedFd, Armed, InUse, InMain, Queued, Shape

\* The main thread keeps every descriptor with one owner.
LEMMA MainOwned ==
    ASSUME TypeOK, Shape, Shape', Placed, Noded, Reaped, MainStep, ~CloseConn(Main),
           NEW fd \in FDs, OwnedFd(fd), races' = 0
    PROVE  OwnedFd(fd)'
  <1> USE ServerAssumption DEF network, sockets, users, timers, threads, history, Goto
  <1>0. Working(fd) <=> \E w \in Workers : on[w] = fd
    BY WorkingOn
  <1>1. ASSUME NEW f \in FDs, Fire(f) PROVE OwnedFd(fd)'
    <2>1. ~InUse(f) /\ \A w \in Workers : on'[w] = on[w] /\ pc'[w] = pc[w]
      BY <1>1 DEF Fire, TypeOK, Shape
    <2>2. on'[Main] = f /\ pc'[Main] = "del" /\ on[Main] \notin FDs
      BY <1>1 DEF Fire, Shape, LoopPcs
    <2>3. UNCHANGED <<sock, interest, batch, tasks>>
      BY <1>1 DEF Fire
    <2> QED
      BY <2>1, <2>2, <2>3 DEF OwnedFd, Armed, InUse, InMain, InBatch, Queued, Working, Shape
  <1>2. CASE Pop
    <2>1. on'[Main] = NoFd /\ \A w \in Workers : on'[w] = on[w] /\ pc'[w] = pc[w]
      BY <1>2 DEF Pop, Shape
    <2>2. UNCHANGED <<sock, interest, batch, tasks>> /\ pc[Main] = "pop"
      BY <1>2 DEF Pop
    <2>3. InMain(fd) => sock[fd] = NoConn
      BY <1>0, <2>2 DEF Reaped, AtClose, OwnedFd, InMain, InUse, Shape
    <2> QED
      BY <2>1, <2>2, <2>3 DEF OwnedFd, Armed, InUse, InMain, InBatch, Queued, Working, Shape
  <1>3. CASE TickDone \/ GetNextTick \/ EndOfBatch \/ AcceptFails \/ AcceptError \/ RefuseBusy \/ RefuseKilled \/ InitUser
    <2>1. UNCHANGED <<sock, interest, on, tasks, batch>> /\ pc[Main] # "del"
      BY <1>3 DEF TickDone, GetNextTick, EndOfBatch, AcceptFails, AcceptError, RefuseBusy, RefuseKilled, TooMany, InitUser
    <2> QED
      BY <2>1, OwnersStay DEF InBatch
  <1>4. CASE Wait
    <2>1. batch = {} /\ pc[Main] = "wait"
      BY <1>4 DEF Wait, Placed
    <2>2. \A e \in Ready : e.fd \in FDs /\ Armed(e.fd) /\ sock[e.fd] # NoConn
      BY DEF Ready, ConnEvent
    <2>3. \A e \in ListenReady : e.fd \notin FDs
      BY DEF ListenReady, ListenEvent
    <2>4. InBatch(fd)' => Armed(fd) /\ sock[fd] # NoConn
      BY <1>4, <2>2, <2>3 DEF Wait, InBatch
    <2>5. interest'[fd] = IF InBatch(fd)' THEN "off" ELSE interest[fd]
      BY <1>4 DEF Wait, InBatch
    <2>6. UNCHANGED <<sock, on, tasks>> /\ \A w \in Workers : pc'[w] = pc[w]
      BY <1>4 DEF Wait, Shape
    <2>7. ~InMain(fd) /\ ~InBatch(fd)
      BY <2>1 DEF InMain, InBatch, Shape, LoopPcs
    <2> QED
      BY <2>4, <2>5, <2>6, <2>7 DEF OwnedFd, Armed, InUse, InMain, Queued, Working
  <1>5. ASSUME NEW e \in batch, Dispatch(e) PROVE OwnedFd(fd)'
    <2>1. /\ UNCHANGED <<sock, interest>> /\ pc[Main] = "dispatch"
          /\ \A w \in Workers : on'[w] = on[w] /\ pc'[w] = pc[w]
      BY <1>5 DEF Dispatch, DispatchHup, DispatchTask, DispatchListen, Shape
    <2>2. on[Main] \notin FDs
      BY <2>1 DEF Shape, LoopPcs
    <2>3. InBatch(fd)' <=> InBatch(fd) /\ e.fd # fd
      BY <1>5 DEF Dispatch, InBatch, Placed
    <2>4. Working(fd)' <=> Working(fd)
      BY <2>1 DEF Working
    <2>5. e.fd = fd => InBatch(fd)
      BY DEF InBatch
    <2>6. CASE DispatchHup(e)
      <3>1. on'[Main] = e.fd /\ pc'[Main] = "del" /\ UNCHANGED tasks
        BY <2>6 DEF DispatchHup, Shape
      <3> QED
        BY <2>1, <2>2, <2>3, <2>4, <2>5, <3>1 DEF OwnedFd, Armed, InUse, InMain, Queued, Shape
    <2>7. CASE DispatchTask(e)
      <3> DEFINE t == [fd |-> e.fd, op |-> IF e.ev = "in" THEN "read" ELSE "write"]
      <3>1. tasks' = Append(tasks, t) /\ UNCHANGED on
        BY <2>7 DEF DispatchTask
      <3>2. t \in Task /\ t.fd = e.fd /\ tasks \in Seq(Task)
        BY <2>7 DEF DispatchTask, TypeOK, Task, Event, ConnEvent, ListenEvent
      <3> HIDE DEF t
      <3>3. /\ Queued(fd)' <=> Queued(fd) \/ e.fd = fd
            /\ (~Queued(fd) \/ e.fd # fd) =>
               \A i, j \in DOMAIN tasks' : tasks'[i].fd = fd /\ tasks'[j].fd = fd => i = j
        BY <3>1, <3>2, PushTask DEF OwnedFd
      <3>4. \A i, j \in DOMAIN tasks' : tasks'[i].fd = fd /\ tasks'[j].fd = fd => i = j
        BY <2>5, <3>3 DEF OwnedFd
      <3>5. ~InMain(fd) /\ ~InMain(fd)' /\ (Armed(fd)' <=> Armed(fd))
        BY <2>1, <2>2, <3>1 DEF InMain, Armed
      <3>6. InUse(fd)' <=> InUse(fd)
        BY <2>3, <2>4, <2>5, <3>3 DEF InUse
      <3>7. Queued(fd)' => ~Working(fd)'
        BY <2>4, <2>5, <3>3 DEF OwnedFd
      <3>8. InBatch(fd)' => ~Queued(fd)' /\ ~Working(fd)'
        BY <2>3, <2>4, <3>3 DEF OwnedFd
      <3>9. \A v, w \in Workers : on'[v] = fd /\ on'[w] = fd => v = w
        BY <3>1 DEF OwnedFd
      <3> QED
        BY <2>1, <3>4, <3>5, <3>6, <3>7, <3>8, <3>9, Zenon DEF OwnedFd
    <2>8. CASE DispatchListen(e)
      <3>1. UNCHANGED <<on, tasks>> /\ e.ev = "listen"
        BY <2>8 DEF DispatchListen
      <3>2. e \in ConnEvent \/ e = ListenEvent
        BY DEF TypeOK, Event
      <3>3. e.fd \notin FDs
        BY <3>1, <3>2 DEF ConnEvent, ListenEvent
      <3> QED
        BY <2>1, <2>3, <3>1, <3>3, OwnersStay
    <2> QED
      BY <1>5, <2>6, <2>7, <2>8 DEF Dispatch
  <1>6. ASSUME NEW f \in FDs, Accept(f) PROVE OwnedFd(fd)'
    <2>1. /\ sock[f] = NoConn /\ pc[Main] = "accept" /\ on[Main] \notin FDs
          /\ UNCHANGED <<interest, batch, tasks>>
      BY <1>6 DEF Accept, FreeFds, Shape, LoopPcs
    <2>2. /\ on'[Main] = f
          /\ sock' = [sock EXCEPT ![f] = Head(backlog)]
          /\ \A w \in Workers : on'[w] = on[w] /\ pc'[w] = pc[w]
      BY <1>6 DEF Accept, Shape
    <2>3. ~Armed(f)
      BY <2>1 DEF Noded, Armed
    <2> QED
      BY <2>1, <2>2, <2>3 DEF OwnedFd, Armed, InUse, InMain, InBatch, Queued, Working, Shape
  <1>7. CASE Register
    <2>1. /\ pc[Main] = "register" /\ on[Main] \in FDs /\ on'[Main] = NoFd
          /\ \A w \in Workers : on'[w] = on[w] /\ pc'[w] = pc[w]
          /\ UNCHANGED <<sock, batch, tasks>>
      BY <1>7 DEF Register, Shape, LoopPcs
    <2>2. \A g \in FDs : interest'[g] = IF g = on[Main] /\ sock[g] # NoConn THEN "in"
                                         ELSE interest[g]
      BY <1>7, <2>1 DEF Register, Shape
    <2> QED
      BY <2>1, <2>2 DEF OwnedFd, Armed, InUse, InMain, InBatch, Queued, Working, Shape
  <1> QED
    BY <1>1, <1>2, <1>3, <1>4, <1>5, <1>6, <1>7 DEF MainStep

\* CloseConn keeps every descriptor with one owner.
LEMMA CloseOwned ==
    ASSUME TypeOK, Shape, Shape', Noded, Reaped, NEW a \in Actors, CloseConn(a),
           NEW fd \in FDs, \A g \in FDs : OwnedFd(g)
    PROVE  OwnedFd(fd)'
  <1> USE ServerAssumption DEF network, sockets, users, timers, threads, history, Goto
  <1>0. OwnedFd(fd)
    OBVIOUS
  <1>1. CASE DelFd(a)
    <2>1. /\ UNCHANGED <<sock, on, batch, tasks>>
          /\ on[a] \in FDs
          /\ interest' = [interest EXCEPT ![on[a]] = "none"]
          /\ pc[a] = "del" /\ pc' = [pc EXCEPT ![a] = "check"]
      BY <1>1 DEF DelFd, Shape, LoopPcs
    <2>2. Working(fd)' <=> Working(fd)
      BY <2>1, WorkingOn DEF Working, Shape
    <2>3. Armed(fd)' => Armed(fd) /\ fd # on[a]
      BY <2>1 DEF Armed, Shape
    <2>4. fd = on[a] => InMain(fd) \/ Working(fd)
      BY <2>1 DEF InMain, Working, Shape
    <2>5. a # Main => pc'[Main] = pc[Main]
      BY <2>1 DEF Shape
    <2>6. fd # on[a] => (Armed(fd)' <=> Armed(fd))
      BY <2>1 DEF Armed, Shape
    <2> QED
      BY <1>0, <2>1, <2>2, <2>3, <2>4, <2>5, <2>6 DEF OwnedFd, InUse, InMain, InBatch, Queued
  <1>2. CASE CheckClose(a) /\ ~isClose[on[a]]
    <2>1. UNCHANGED <<sock, interest, on, tasks, batch>> /\ pc[a] = "check"
          /\ pc' = [pc EXCEPT ![a] = "mark"]
      BY <1>2 DEF CheckClose
    <2>2. pc[Main] = "del" => pc'[Main] = "del"
      BY <2>1 DEF Shape
    <2> QED
      BY <1>0, <2>1, <2>2, OwnersStay DEF InBatch
  <1>3. CASE MarkClosed(a)
    <2>1. UNCHANGED <<sock, interest, on, tasks, batch>> /\ pc[a] = "mark"
          /\ pc' = [pc EXCEPT ![a] = "close"]
      BY <1>3 DEF MarkClosed
    <2>2. pc[Main] = "del" => pc'[Main] = "del"
      BY <2>1 DEF Shape
    <2> QED
      BY <1>0, <2>1, <2>2, OwnersStay DEF InBatch
  <1>4. ASSUME on[a] \in FDs, pc[a] \in {"check", "close"},
               pc' = [pc EXCEPT ![a] = After(a)], Leave(a),
               UNCHANGED <<batch, tasks>>,
               sock'[on[a]] = NoConn, sock[fd] # NoConn /\ fd # on[a] => sock'[fd] # NoConn,
               sock[fd] = NoConn => sock'[fd] = NoConn,
               fd # on[a] => interest'[fd] = interest[fd],
               fd = on[a] => interest'[fd] = "none" \/ interest'[fd] = interest[fd]
        PROVE  OwnedFd(fd)'
    <2>1. CASE a = Main
      <3>1. /\ \A w \in Workers : on'[w] = on[w] /\ pc'[w] = pc[w]
            /\ on'[Main] \in {NoFd, on[Main]}
        BY <1>4, <2>1 DEF Leave, Shape
      <3>2. pc'[Main] # "del" /\ pc[Main] # "del"
        BY <1>4, <2>1 DEF After, Shape
      <3>3. fd = on[Main] => InMain(fd) /\ ~Armed(fd) /\ ~InUse(fd)
        BY <1>0, <3>2 DEF InMain, OwnedFd
      <3> QED
        BY <1>0, <1>4, <2>1, <3>1, <3>2, <3>3 DEF OwnedFd, Armed, InUse, InMain, InBatch,
          Queued, Working, Shape
    <2>2. CASE a \in Workers
      <3>1. /\ on'[a] = NoFd /\ \A b \in Actors : b # a => on'[b] = on[b] /\ pc'[b] = pc[b]
            /\ a # Main
        BY <1>4, <2>2 DEF Leave, After, Shape
      <3>2. Working(on[a])
        BY <1>4, <2>2 DEF Working
      <3>3. fd = on[a] => ~Armed(fd) /\ ~InMain(fd) /\ ~InBatch(fd) /\ ~Queued(fd)
        BY <1>0, <3>2 DEF OwnedFd, InUse
      <3>4. Working(fd)' <=> Working(fd) /\ fd # on[a]
        <4>1. Working(fd)' <=> \E w \in Workers : on'[w] = fd
          BY DEF Working, Shape
        <4>2. Working(fd) <=> \E w \in Workers : on[w] = fd
          BY DEF Working, Shape
        <4>3. \A w \in Workers : on[w] = fd /\ fd = on[a] => w = a
          BY <1>0, <2>2 DEF OwnedFd
        <4>4. \A w \in Workers : w # a => on'[w] = on[w]
          BY <3>1 DEF Shape
        <4>5. on'[a] # fd
          BY <3>1
        <4> QED
          BY <4>1, <4>2, <4>3, <4>4, <4>5
      <3>5. (InMain(fd)' <=> InMain(fd)) /\ pc'[Main] = pc[Main]
        BY <3>1 DEF InMain, Shape
      <3>6. (InBatch(fd)' <=> InBatch(fd)) /\ (Queued(fd)' <=> Queued(fd))
        BY <1>4 DEF InBatch, Queued
      <3>7. Armed(fd)' <=> Armed(fd)
        BY <1>4, <3>3 DEF Armed
      <3>8. \A v, w \in Workers : on'[v] = fd /\ on'[w] = fd => v = w
        BY <1>0, <3>1 DEF OwnedFd, Shape
      <3>9. /\ \A i, j \in DOMAIN tasks' : tasks'[i].fd = fd /\ tasks'[j].fd = fd => i = j
            /\ sock'[fd] # NoConn => sock[fd] # NoConn /\ fd # on[a]
            /\ sock[fd] # NoConn /\ fd # on[a] => sock'[fd] # NoConn
        BY <1>0, <1>4 DEF OwnedFd
      <3> QED
        BY <1>0, <3>3, <3>4, <3>5, <3>6, <3>7, <3>8, <3>9 DEF OwnedFd, InUse
    <2> QED
      BY <2>1, <2>2 DEF Shape
  <1>5. CASE CheckClose(a) /\ isClose[on[a]]
    <2>1. /\ on[a] \in FDs /\ pc[a] = "check"
          /\ pc' = [pc EXCEPT ![a] = After(a)] /\ Leave(a)
          /\ UNCHANGED <<sock, interest, batch, tasks>>
      BY <1>5 DEF CheckClose, Shape, LoopPcs
    <2>2. sock[on[a]] = NoConn \/ (InMain(on[a]) /\ pc[Main] = "init") \/ AtClose(on[a])
      BY <1>5, <2>1 DEF Reaped
    <2>3. OwnedFd(on[a])
      BY <2>1
    <2>4. a \in Workers => Working(on[a])
      BY <2>1 DEF Working
    <2>5. ~(InMain(on[a]) /\ pc[Main] = "init")
      BY <2>1, <2>3, <2>4 DEF OwnedFd, InUse, Shape
    <2>6. ~AtClose(on[a])
      <3> SUFFICES ASSUME NEW b \in Actors, pc[b] = "close", on[b] = on[a] PROVE FALSE
        BY DEF AtClose
      <3>1. b # a
        BY <2>1
      <3>2. b \in Workers => Working(on[a])
        BY DEF Working
      <3> QED
        BY <2>1, <2>3, <2>4, <3>1, <3>2 DEF OwnedFd, InUse, InMain, Shape
    <2> QED
      BY <1>4, <2>1, <2>2, <2>5, <2>6
  <1>6. CASE CloseFd(a)
    <2>1. /\ on[a] \in FDs /\ pc[a] = "close"
          /\ pc' = [pc EXCEPT ![a] = After(a)] /\ Leave(a)
          /\ UNCHANGED <<batch, tasks>>
      BY <1>6 DEF CloseFd, Shape, LoopPcs
    <2>2. /\ sock' = [sock EXCEPT ![on[a]] = NoConn]
          /\ interest' = [interest EXCEPT ![on[a]] = "none"]
      BY <1>6 DEF CloseFd, Release
    <2>3. /\ sock'[on[a]] = NoConn /\ interest'[on[a]] = "none"
          /\ fd # on[a] => sock'[fd] = sock[fd] /\ interest'[fd] = interest[fd]
      BY <2>1, <2>2 DEF Shape
    <2> QED
      BY <1>4, <2>1, <2>3
  <1> QED
    BY <1>1, <1>2, <1>3, <1>5, <1>6 DEF CloseConn

\* The workers keep every descriptor with one owner.
LEMMA WorkerOwned ==
    ASSUME TypeOK, Shape, Shape', NEW w \in Workers, WorkerStep(w), ~CloseConn(w),
           NEW fd \in FDs, OwnedFd(fd), RegisteredFd(fd)
    PROVE  OwnedFd(fd)'
  <1> USE ServerAssumption DEF network, sockets, users, timers, threads, history, Goto
  <1>1. CASE TakeTask(w)
    <2>1. /\ tasks # <<>> /\ tasks \in Seq(Task) /\ tasks' = Tail(tasks)
          /\ UNCHANGED <<sock, interest, batch>>
      BY <1>1 DEF TakeTask, TypeOK
    <2>2. /\ on'[w] = Head(tasks).fd /\ on[w] \notin FDs
          /\ \A b \in Actors : b # w => on'[b] = on[b] /\ pc'[b] = pc[b]
      BY <1>1 DEF TakeTask, Shape
    <2>3. /\ Queued(fd) <=> Queued(fd)' \/ Head(tasks).fd = fd
          /\ \A i, j \in DOMAIN tasks' : tasks'[i].fd = fd /\ tasks'[j].fd = fd => i = j
          /\ Head(tasks).fd = fd => ~Queued(fd)'
      BY <2>1, PopTask DEF OwnedFd
    <2>4. /\ Working(fd)' <=> \E v \in Workers : on'[v] = fd
          /\ Working(fd) <=> \E v \in Workers : on[v] = fd
      BY DEF Working, Shape
    <2>5. Working(fd)' <=> Working(fd) \/ Head(tasks).fd = fd
      BY <2>2, <2>4 DEF Shape
    <2>6. \A u, v \in Workers : on'[u] = fd /\ on'[v] = fd => u = v
      BY <2>2, <2>3, <2>4 DEF OwnedFd, Shape
    <2>7. InUse(fd)' <=> InUse(fd)
      BY <2>1, <2>3, <2>5 DEF InUse, InBatch
    <2>8. (InMain(fd)' <=> InMain(fd)) /\ pc'[Main] = pc[Main] /\ (Armed(fd)' <=> Armed(fd))
          /\ (InBatch(fd)' <=> InBatch(fd)) /\ sock'[fd] = sock[fd]
      BY <2>1, <2>2 DEF InMain, Armed, InBatch, Shape
    <2>9. (InBatch(fd)' => ~Queued(fd)' /\ ~Working(fd)') /\ (Queued(fd)' => ~Working(fd)')
      BY <2>3, <2>5, <2>8 DEF OwnedFd
    <2> QED
      BY <2>3, <2>6, <2>7, <2>8, <2>9 DEF OwnedFd
  <1>2. CASE ModFd(w)
    <2>1. /\ on[w] \in FDs /\ on'[w] = NoFd /\ NoFd \notin FDs
          /\ \A b \in Actors : b # w => on'[b] = on[b] /\ pc'[b] = pc[b]
          /\ UNCHANGED <<sock, batch, tasks>>
      BY <1>2, ServerAssumption DEF ModFd, Shape
    <2>2. /\ fd # on[w] => interest'[fd] = interest[fd]
          /\ fd = on[w] => interest'[fd] \in {"in", "out"}
      <3>1. fd = on[w] => interest[fd] # "none"
        BY <1>2 DEF ModFd, RegisteredFd
      <3> QED
        BY <1>2, <2>1, <3>1 DEF ModFd, Shape
    <2>3. Working(on[w])
      BY <1>2, <2>1 DEF ModFd, Working
    <2>4. /\ Working(fd)' <=> \E v \in Workers : on'[v] = fd
          /\ Working(fd) <=> \E v \in Workers : on[v] = fd
      BY DEF Working, Shape
    <2>5. CASE fd # on[w]
      <3>1. /\ Working(fd)' <=> Working(fd)
            /\ InMain(fd)' <=> InMain(fd)
            /\ pc'[Main] = pc[Main]
        BY <2>1, <2>4, <2>5 DEF InMain, Shape
      <3>2. \A u, v \in Workers : on'[u] = fd /\ on'[v] = fd => u = v
        BY <2>1, <2>5 DEF OwnedFd, Shape
      <3> QED
        BY <2>1, <2>2, <2>5, <3>1, <3>2 DEF OwnedFd, InUse, InBatch, Queued, Armed
    <2>6. CASE fd = on[w]
      <3>1. ~InBatch(fd) /\ ~Queued(fd) /\ ~InMain(fd) /\ sock[fd] # NoConn
        BY <2>3, <2>6 DEF OwnedFd, InUse
      <3>2. ~Working(fd)' /\ ~InMain(fd)' /\ ~InBatch(fd)' /\ ~Queued(fd)'
        BY <2>1, <2>4, <2>6, <3>1 DEF OwnedFd, InMain, InBatch, Queued, Shape
      <3>3. \A u, v \in Workers : on'[u] = fd /\ on'[v] = fd => u = v
        BY <2>4, <3>2
      <3> QED
        BY <2>1, <2>2, <2>6, <3>2, <3>3 DEF OwnedFd, InUse, Armed
    <2> QED
      BY <2>5, <2>6
  <1>3. CASE ~TakeTask(w) /\ ~ModFd(w)
    <2>1. UNCHANGED <<sock, interest, on, tasks, batch>>
      BY <1>3 DEF WorkerStep, ReadFails, ReadAll, ReadSome, Receive,
        ProcessNothing, Process, WriteDone, WriteBlocks, WriteGivesUp, Killed
    <2>2. pc'[Main] = pc[Main]
      BY <1>3 DEF WorkerStep, ReadFails, ReadAll, ReadSome, Receive,
        ProcessNothing, Process, WriteDone, WriteBlocks, WriteGivesUp, Killed, Shape
    <2> QED
      BY <2>1, <2>2, OwnersStay DEF InBatch
  <1> QED
    BY <1>1, <1>2, <1>3

\* A step of the reactor takes a descriptor out of the epoll set only when its
\* owner does.
LEMMA KeepRegistered ==
    ASSUME TypeOK, Shape, Shape', [Next]_vars, NEW fd \in FDs, OwnedFd(fd), RegisteredFd(fd)
    PROVE  RegisteredFd(fd)'
  <1> USE ServerAssumption DEF network, sockets, users, timers, threads, history, Goto
  <1> DEFINE Past == {"check", "mark", "close"}
  <1>1. ASSUME interest'[fd] = "none" => interest[fd] = "none",
               InBatch(fd)' \/ Queued(fd)' => InBatch(fd) \/ Queued(fd),
               \A w \in Workers : on'[w] = fd /\ pc'[w] \notin Past =>
                  on[w] = fd /\ pc[w] \notin Past
        PROVE  RegisteredFd(fd)'
    BY <1>1 DEF RegisteredFd
  <1>2. ASSUME UNCHANGED <<interest, batch, tasks>>,
               \A w \in Workers : on'[w] = fd /\ pc'[w] \notin Past =>
                  on[w] = fd /\ pc[w] \notin Past
        PROVE  RegisteredFd(fd)'
    BY <1>1, <1>2 DEF InBatch, Queued
  <1>3. CASE Environment
    <2>1. UNCHANGED <<interest, batch, tasks, on, pc>>
      BY <1>3 DEF Environment, Connect, Send, Drain, HangUp, Expire
    <2> QED
      BY <1>2, <2>1
  <1>4. CASE MainStep /\ ~CloseConn(Main)
    <2>1. \A w \in Workers : on'[w] = on[w] /\ pc'[w] = pc[w]
      BY <1>4 DEF MainStep, Fire, Pop, TickDone, GetNextTick, Wait, EndOfBatch, Dispatch,
        DispatchHup, DispatchTask, DispatchListen, AcceptFails, AcceptError, RefuseBusy, RefuseKilled, TooMany, Accept,
        InitUser, Register, Shape
    <2>2. CASE Wait
      <3>1. interest'[fd] = IF InBatch(fd)' THEN "off" ELSE interest[fd]
        BY <2>2 DEF Wait, InBatch
      <3>2. Queued(fd)' => Queued(fd)
        BY <2>2 DEF Wait, Queued
      <3> QED
        BY <2>1, <3>1, <3>2 DEF RegisteredFd
    <2>3. ASSUME NEW e \in batch, Dispatch(e) PROVE RegisteredFd(fd)'
      <3>1. UNCHANGED interest /\ batch' \subseteq batch
        BY <2>3 DEF Dispatch, DispatchHup, DispatchTask, DispatchListen
      <3>2. InBatch(fd)' => InBatch(fd)
        BY <3>1 DEF InBatch
      <3>3. Queued(fd)' => Queued(fd) \/ InBatch(fd)
        <4>1. CASE DispatchTask(e)
          <5> DEFINE t == [fd |-> e.fd, op |-> IF e.ev = "in" THEN "read" ELSE "write"]
          <5>1. tasks' = Append(tasks, t) /\ tasks \in Seq(Task) /\ t.fd = e.fd
            BY <4>1 DEF DispatchTask, TypeOK
          <5>2. t \in Task
            BY <4>1 DEF DispatchTask, TypeOK, Task, Event, ConnEvent, ListenEvent
          <5> HIDE DEF t
          <5>3. Queued(fd)' <=> Queued(fd) \/ t.fd = fd
            BY <5>1, <5>2, PushTask
          <5> QED
            BY <5>1, <5>3 DEF InBatch
        <4>2. CASE DispatchHup(e) \/ DispatchListen(e)
          BY <4>2 DEF DispatchHup, DispatchListen, Queued
        <4> QED
          BY <2>3, <4>1, <4>2 DEF Dispatch
      <3> QED
        BY <1>1, <2>1, <3>1, <3>2, <3>3
    <2>4. CASE Register
      <3>1. UNCHANGED <<batch, tasks>> /\ (interest'[fd] = "none" => interest[fd] = "none")
        BY <2>4 DEF Register, Shape
      <3> QED
        BY <1>1, <2>1, <3>1 DEF InBatch, Queued
    <2>5. CASE ~Wait /\ ~(\E e \in batch : Dispatch(e)) /\ ~Register
      <3>1. UNCHANGED <<interest, batch, tasks>>
        BY <1>4, <2>5 DEF MainStep, Fire, Pop, TickDone, GetNextTick, EndOfBatch,
          AcceptFails, AcceptError, RefuseBusy, RefuseKilled, TooMany, Accept, InitUser
      <3> QED
        BY <1>2, <2>1, <3>1
    <2> QED
      BY <2>2, <2>3, <2>4, <2>5
  <1>5. ASSUME NEW a \in Actors, CloseConn(a) PROVE RegisteredFd(fd)'
    <2>1. /\ UNCHANGED <<batch, tasks>> /\ on[a] \in FDs
          /\ \A w \in Workers : w # a => on'[w] = on[w] /\ pc'[w] = pc[w]
      BY <1>5 DEF CloseConn, DelFd, CheckClose, MarkClosed, CloseFd, Leave, Shape, LoopPcs
    <2>2. a \in Workers => on'[a] # fd \/ pc'[a] \in Past
      BY <1>5 DEF CloseConn, DelFd, CheckClose, MarkClosed, CloseFd, Leave, After, Shape
    <2>3. fd # on[a] => interest'[fd] = interest[fd]
      BY <1>5 DEF CloseConn, DelFd, CheckClose, MarkClosed, CloseFd, Release, Shape
    <2>4. fd = on[a] => /\ ~InBatch(fd) /\ ~Queued(fd)
                        /\ \A w \in Workers : on[w] = fd => w = a
      <3>1. CASE a = Main
        <4>1. fd = on[a] => InMain(fd)
          BY <3>1 DEF InMain
        <4>2. Working(fd) <=> \E w \in Workers : on[w] = fd
          BY WorkingOn
        <4> QED
          BY <4>1, <4>2 DEF OwnedFd, InUse
      <3>2. CASE a \in Workers
        <4>1. fd = on[a] => Working(fd)
          BY <3>2, WorkingOn
        <4> QED
          BY <3>2, <4>1 DEF OwnedFd
      <3> QED
        BY <3>1, <3>2 DEF Shape
    <2>5. CASE fd # on[a]
      BY <1>1, <2>1, <2>2, <2>3, <2>5 DEF InBatch, Queued, Shape
    <2>6. CASE fd = on[a]
      <3>1. ~InBatch(fd)' /\ ~Queued(fd)'
        BY <2>1, <2>4, <2>6 DEF InBatch, Queued
      <3>2. \A w \in Workers : on'[w] = fd => pc'[w] \in Past
        BY <2>1, <2>2, <2>4, <2>6
      <3> QED
        BY <3>1, <3>2 DEF RegisteredFd
    <2> QED
      BY <2>5, <2>6
  <1>6. ASSUME NEW w \in Workers, WorkerStep(w), ~CloseConn(w) PROVE RegisteredFd(fd)'
    <2>1. \A v \in Workers : v # w => on'[v] = on[v] /\ pc'[v] = pc[v]
      BY <1>6 DEF WorkerStep, TakeTask, ReadFails, ReadAll, ReadSome, Receive,
        ProcessNothing, Process, ModFd, WriteDone, WriteBlocks, WriteGivesUp, Killed, Shape
    <2>2. CASE TakeTask(w)
      <3>1. /\ tasks # <<>> /\ tasks \in Seq(Task) /\ tasks' = Tail(tasks)
            /\ UNCHANGED <<interest, batch>> /\ on'[w] = Head(tasks).fd
        BY <2>2 DEF TakeTask, TypeOK, Shape
      <3>2. Queued(fd) <=> Queued(fd)' \/ Head(tasks).fd = fd
        BY <3>1, PopTask
      <3>3. InBatch(fd)' <=> InBatch(fd)
        BY <3>1 DEF InBatch
      <3> QED
        BY <2>1, <3>1, <3>2, <3>3 DEF RegisteredFd
    <2>3. CASE ModFd(w)
      <3>1. /\ on'[w] = NoFd /\ UNCHANGED <<batch, tasks>>
            /\ interest'[fd] = "none" => interest[fd] = "none"
        BY <2>3 DEF ModFd, Shape
      <3> QED
        BY <1>1, <2>1, <3>1 DEF InBatch, Queued
    <2>4. CASE ~TakeTask(w) /\ ~ModFd(w)
      <3>1. UNCHANGED <<interest, on, tasks, batch>>
        BY <1>6, <2>4 DEF WorkerStep, ReadFails, ReadAll, ReadSome, Receive,
          ProcessNothing, Process, WriteDone, WriteBlocks, WriteGivesUp, Killed
      <3>2. pc[w] \notin Past
        BY <1>6, <2>4 DEF WorkerStep, ReadFails, ReadAll, ReadSome, Receive,
          ProcessNothing, Process, WriteDone, WriteBlocks, WriteGivesUp, Killed
      <3> QED
        BY <1>2, <2>1, <3>1, <3>2
    <2> QED
      BY <2>2, <2>3, <2>4
  <1>7. CASE UNCHANGED vars
    BY <1>2, <1>7 DEF vars
  <1> QED
    BY <1>3, <1>4, <1>5, <1>6, <1>7 DEF Next, MainStep, Shape

\* While no timer has fired on a connection in use, no step takes a second owner
\* for a descriptor or leaves an open one without an owner.
LEMMA KeepOwned ==
    TypeOK /\ Placed /\ Shape /\ Shape' /\ Noded /\ Reaped /\ Owned /\ [Next]_vars => Owned'
  <1> SUFFICES ASSUME TypeOK, Placed, Shape, Shape', Noded, Reaped, Owned, [Next]_vars,
                      races' = 0, NEW fd \in FDs
               PROVE  OwnedFd(fd)' /\ RegisteredFd(fd)'
    BY DEF Owned
  <1>1. races = 0 /\ \A g \in FDs : OwnedFd(g) /\ RegisteredFd(g)
    BY RacesGrow DEF Owned
  <1>2. RegisteredFd(fd)'
    BY <1>1, KeepRegistered
  <1>3. CASE Environment
    <2>1. UNCHANGED <<interest, batch, tasks, on, pc, sock>>
      BY <1>3 DEF Environment, Connect, Send, Drain, HangUp, Expire, threads, sockets
    <2> QED
      BY <1>1, <1>2, <2>1, OwnersStay DEF InBatch
  <1>4. CASE MainStep /\ ~CloseConn(Main)
    BY <1>1, <1>2, <1>4, MainOwned
  <1>5. ASSUME NEW a \in Actors, CloseConn(a) PROVE OwnedFd(fd)'
    BY <1>1, <1>5, CloseOwned
  <1>6. ASSUME NEW w \in Workers, WorkerStep(w), ~CloseConn(w) PROVE OwnedFd(fd)'
    BY <1>1, <1>6, WorkerOwned
  <1>7. CASE UNCHANGED vars
    <2>1. UNCHANGED <<interest, batch, tasks, on, pc, sock>>
      BY <1>7 DEF vars, threads, sockets
    <2> QED
      BY <1>1, <1>2, <2>1, OwnersStay DEF InBatch
  <1> QED
    BY <1>2, <1>3, <1>4, <1>5, <1>6, <1>7 DEF Next, Shape

-------------------------------------------------------------------------------
(* userCount *)

OpenUsers == {fd \in FDs : ~isClose[fd]}

\* A closed descriptor has a closed user, and whoever has passed the test of
\* isClose in HttpConn::Close finds the user open until he marks it himself.
Tally ==
    /\ \A fd \in FDs : sock[fd] = NoConn => isClose[fd]
    /\ \A a \in Actors : pc[a] = "mark" => ~isClose[on[a]]
    /\ \A a \in Actors : pc[a] = "close" => isClose[on[a]]
    /\ pc[Main] = "init" => isClose[on[Main]] /\ sock[on[Main]] # NoConn
    /\ userCount = Cardinality(OpenUsers)

Counted == races = 0 => Tally

\* Two threads never hold the same descriptor.
LEMMA OneHolder ==
    ASSUME Shape, NEW fd \in FDs, OwnedFd(fd), NEW a \in Actors, NEW b \in Actors,
           on[a] = fd, on[b] = fd
    PROVE  a = b
  <1>1. Working(fd) <=> \E w \in Workers : on[w] = fd
    BY WorkingOn
  <1>2. CASE a \in Workers /\ b \in Workers
    BY <1>2 DEF OwnedFd
  <1>3. CASE a = Main /\ b = Main
    BY <1>3
  <1>4. CASE (a = Main /\ b \in Workers) \/ (b = Main /\ a \in Workers)
    BY <1>1, <1>4 DEF OwnedFd, InUse, InMain
  <1>5. (a \in Workers \/ a = Main) /\ (b \in Workers \/ b = Main)
    BY DEF Shape
  <1> QED
    BY <1>2, <1>3, <1>4, <1>5

\* Marking a user closed takes one from the open users, Init adds one.
LEMMA OpenUsersChange ==
    ASSUME isClose \in [FDs -> BOOLEAN], NEW f \in FDs
    PROVE  /\ isClose' = [isClose EXCEPT ![f] = TRUE] /\ ~isClose[f]
              => Cardinality(OpenUsers') = Cardinality(OpenUsers) - 1
           /\ isClose' = [isClose EXCEPT ![f] = FALSE] /\ isClose[f]
              => Cardinality(OpenUsers') = Cardinality(OpenUsers) + 1
  <1>1. IsFiniteSet(OpenUsers)
    BY ServerAssumption, FS_Subset DEF OpenUsers
  <1>2. ASSUME isClose' = [isClose EXCEPT ![f] = TRUE], ~isClose[f]
        PROVE  Cardinality(OpenUsers') = Cardinality(OpenUsers) - 1
    <2>1. OpenUsers' = OpenUsers \ {f} /\ f \in OpenUsers
      BY <1>2 DEF OpenUsers
    <2> QED
      BY <1>1, <2>1, FS_RemoveElement
  <1>3. ASSUME isClose' = [isClose EXCEPT ![f] = FALSE], isClose[f]
        PROVE  Cardinality(OpenUsers') = Cardinality(OpenUsers) + 1
    <2>1. OpenUsers' = OpenUsers \cup {f} /\ f \notin OpenUsers
      BY <1>3 DEF OpenUsers
    <2> QED
      BY <1>1, <2>1, FS_AddElement
  <1> QED
    BY <1>2, <1>3

\* No step makes userCount disagree with the open users.
LEMMA KeepCounted ==
    TypeOK /\ Placed /\ Shape /\ Shape' /\ Owned /\ Counted /\ [Next]_vars => Counted'
  <1> SUFFICES ASSUME TypeOK, Placed, Shape, Shape', Owned, Counted, [Next]_vars, races' = 0
               PROVE  Tally'
    BY DEF Counted
  <1> USE ServerAssumption DEF network, sockets, users, timers, threads, history, Goto
  <1>0. races = 0 /\ \A fd \in FDs : OwnedFd(fd)
    BY RacesGrow DEF Owned
  <1>a. /\ \A fd \in FDs : sock[fd] = NoConn => isClose[fd]
        /\ \A a \in Actors : pc[a] = "mark" => ~isClose[on[a]]
        /\ \A a \in Actors : pc[a] = "close" => isClose[on[a]]
        /\ pc[Main] = "init" => isClose[on[Main]] /\ sock[on[Main]] # NoConn
        /\ userCount = Cardinality(OpenUsers)
    BY <1>0 DEF Counted, Tally
  <1> USE DEF Tally
  <1>b. \A a \in Actors : pc[a] \notin LoopPcs \cup {"idle"} => on[a] \in FDs
    BY DEF Shape
  <1>1. ASSUME UNCHANGED <<sock, isClose, userCount>>,
               \A a \in Actors : pc'[a] \in {"mark", "close", "init"} =>
                  pc'[a] = pc[a] /\ on'[a] = on[a]
        PROVE  Tally'
    <2>1. OpenUsers' = OpenUsers
      BY <1>1 DEF OpenUsers
    <2> QED
      BY <1>a, <1>1, <2>1 DEF Shape
  <1>2. CASE Environment
    <2>1. UNCHANGED <<sock, isClose, userCount, pc, on>>
      BY <1>2 DEF Environment, Connect, Send, Drain, HangUp, Expire
    <2> QED
      BY <1>1, <2>1
  <1>3. ASSUME NEW a \in Actors, CheckClose(a) PROVE Tally'
    <2>1. UNCHANGED <<sock, isClose, userCount>>
      BY <1>3 DEF CheckClose
    <2>2. /\ \A b \in Actors : b # a => pc'[b] = pc[b] /\ on'[b] = on[b]
          /\ pc'[a] \in {After(a), "mark"}
          /\ pc'[a] = "mark" => ~isClose[on[a]] /\ on'[a] = on[a]
          /\ pc'[a] # "close" /\ pc'[a] # "init"
      BY <1>3 DEF CheckClose, Leave, Shape, After
    <2>3. OpenUsers' = OpenUsers
      BY <2>1 DEF OpenUsers
    <2> QED
      BY <1>a, <2>1, <2>2, <2>3 DEF Shape
  <1>4. ASSUME NEW a \in Actors, MarkClosed(a) PROVE Tally'
    <2>1. /\ UNCHANGED <<sock, on>> /\ pc[a] = "mark" /\ on[a] \in FDs
          /\ isClose' = [isClose EXCEPT ![on[a]] = TRUE]
          /\ userCount' = userCount - 1
          /\ pc' = [pc EXCEPT ![a] = "close"]
      BY <1>4, <1>b DEF MarkClosed, LoopPcs
    <2>2. \A b \in Actors : b # a => on[b] # on[a]
      BY <1>0, <2>1, OneHolder
    <2>3. ~isClose[on[a]]
      BY <1>a, <2>1
    <2>4. userCount' = Cardinality(OpenUsers')
      BY <1>a, <2>1, <2>3, OpenUsersChange DEF Shape
    <2>5. \A fd \in FDs : isClose'[fd] = IF fd = on[a] THEN TRUE ELSE isClose[fd]
      BY <2>1 DEF Shape
    <2>6. \A b \in Actors : pc'[b] = IF b = a THEN "close" ELSE pc[b]
      BY <2>1 DEF Shape
    <2>7. \A b \in Actors : pc[b] \in {"mark", "close", "init"} => on[b] \in FDs
      BY <1>b DEF LoopPcs
    <2>8. \A fd \in FDs : sock'[fd] = NoConn => isClose'[fd]
      BY <1>a, <2>1, <2>5
    <2>9. \A b \in Actors : b # a /\ pc'[b] \in {"mark", "close"} =>
            pc'[b] = pc[b] /\ (isClose'[on'[b]] <=> isClose[on[b]])
      BY <2>1, <2>2, <2>5, <2>6, <2>7
    <2>10. pc'[a] = "close" /\ isClose'[on'[a]]
      BY <2>1, <2>5, <2>6
    <2>11. \A b \in Actors : pc'[b] = "mark" => ~isClose'[on'[b]]
      BY <1>a, <2>9, <2>10
    <2>12. \A b \in Actors : pc'[b] = "close" => isClose'[on'[b]]
      BY <1>a, <2>9, <2>10
    <2>13. pc'[Main] = "init" => isClose'[on'[Main]] /\ sock'[on'[Main]] # NoConn
      BY <1>a, <2>1, <2>5, <2>6, <2>7 DEF Shape
    <2> QED
      BY <2>4, <2>8, <2>11, <2>12, <2>13
  <1>5. ASSUME NEW a \in Actors, CloseFd(a) PROVE Tally'
    <2>1. /\ UNCHANGED <<isClose, userCount>> /\ pc[a] = "close" /\ on[a] \in FDs
          /\ sock' = [sock EXCEPT ![on[a]] = NoConn]
          /\ pc' = [pc EXCEPT ![a] = After(a)]
          /\ \A b \in Actors : b # a => on'[b] = on[b] /\ pc'[b] = pc[b]
      BY <1>5, <1>b DEF CloseFd, Release, Leave, Shape, LoopPcs
    <2>2. isClose[on[a]]
      BY <1>a, <2>1
    <2>3. pc'[a] \notin {"mark", "close", "init"}
      BY <2>1 DEF Shape, After
    <2>4. OpenUsers' = OpenUsers
      BY <2>1 DEF OpenUsers
    <2>5. \A fd \in FDs : sock'[fd] = NoConn => isClose'[fd]
      BY <1>a, <2>1, <2>2 DEF Shape
    <2>6. pc'[Main] = "init" => a # Main /\ on[Main] \in FDs /\ on[Main] # on[a]
      <3>1. pc'[Main] = "init" => a # Main /\ pc[Main] = "init"
        BY <2>1, <2>3 DEF Shape
      <3>2. pc[Main] = "init" => on[Main] \in FDs
        BY <1>b DEF Shape, LoopPcs
      <3> QED
        BY <1>0, <2>1, <3>1, <3>2, OneHolder DEF Shape
    <2>7. pc'[Main] = "init" => isClose'[on'[Main]] /\ sock'[on'[Main]] # NoConn
      BY <1>a, <2>1, <2>6 DEF Shape
    <2>8. \A b \in Actors : pc'[b] \in {"mark", "close"} =>
            pc'[b] = pc[b] /\ isClose'[on'[b]] = isClose[on[b]]
      BY <2>1, <2>3
    <2> QED
      BY <1>a, <2>1, <2>4, <2>5, <2>7, <2>8
  <1>6. ASSUME NEW fd \in FDs, Accept(fd) PROVE Tally'
    <2>1. /\ UNCHANGED <<isClose, userCount>> /\ sock[fd] = NoConn
          /\ sock' = [sock EXCEPT ![fd] = Head(backlog)]
          /\ backlog # <<>> /\ backlog \in Seq(Conns)
          /\ on'[Main] = fd /\ pc'[Main] = "init"
          /\ \A b \in Actors : b # Main => on'[b] = on[b] /\ pc'[b] = pc[b]
      BY <1>6 DEF Accept, FreeFds, Shape, TypeOK
    <2>2. OpenUsers' = OpenUsers
      BY <2>1 DEF OpenUsers
    <2>3. Head(backlog) # NoConn
      BY <2>1, TaskQueue
    <2>4. \A g \in FDs : sock'[g] = NoConn => isClose'[g]
      BY <1>a, <2>1, <2>3 DEF Shape
    <2> QED
      BY <1>a, <2>1, <2>2, <2>4 DEF Shape
  <1>7. CASE InitUser
    <2>1. /\ UNCHANGED <<sock, on>> /\ pc[Main] = "init" /\ on[Main] \in FDs
          /\ isClose' = [isClose EXCEPT ![on[Main]] = FALSE]
          /\ userCount' = userCount + 1
          /\ pc' = [pc EXCEPT ![Main] = "register"]
      BY <1>7, <1>b DEF InitUser, LoopPcs, Shape
    <2>2. \A b \in Actors : b # Main => on[b] # on[Main]
      BY <1>0, <2>1, OneHolder DEF Shape
    <2>3. isClose[on[Main]]
      BY <1>a, <2>1
    <2>4. userCount' = Cardinality(OpenUsers')
      BY <1>a, <2>1, <2>3, OpenUsersChange DEF Shape
    <2>5. \A fd \in FDs : isClose'[fd] = IF fd = on[Main] THEN FALSE ELSE isClose[fd]
      BY <2>1 DEF Shape
    <2>6. \A b \in Actors : pc'[b] = IF b = Main THEN "register" ELSE pc[b]
      BY <2>1 DEF Shape
    <2>7. \A b \in Actors : pc[b] \in {"mark", "close", "init"} => on[b] \in FDs
      BY <1>b DEF LoopPcs
    <2>8. sock[on[Main]] # NoConn
      BY <1>a, <2>1
    <2>9. /\ \A b \in Actors : pc'[b] = "mark" => ~isClose'[on'[b]]
          /\ \A b \in Actors : pc'[b] = "close" => isClose'[on'[b]]
      BY <1>a, <2>1, <2>2, <2>5, <2>6, <2>7
    <2>10. \A fd \in FDs : sock'[fd] = NoConn => isClose'[fd]
      BY <1>a, <2>1, <2>5, <2>8
    <2> QED
      BY <2>4, <2>6, <2>9, <2>10 DEF Shape
  <1>8. ASSUME NEW a \in Actors, DelFd(a) PROVE Tally'
    BY <1>1, <1>8 DEF DelFd, Shape
  <1>9. CASE MainStep /\ ~CloseConn(Main) /\ ~InitUser /\ ~(\E fd \in FDs : Accept(fd))
    <2>1. UNCHANGED <<sock, isClose, userCount>>
      BY <1>9 DEF MainStep, Fire, Pop, TickDone, GetNextTick, Wait, EndOfBatch, Dispatch,
        DispatchHup, DispatchTask, DispatchListen, AcceptFails, AcceptError, RefuseBusy, RefuseKilled, TooMany, Register
    <2>2. \A a \in Actors : a # Main => pc'[a] = pc[a] /\ on'[a] = on[a]
      BY <1>9 DEF MainStep, Fire, Pop, TickDone, GetNextTick, Wait, EndOfBatch, Dispatch,
        DispatchHup, DispatchTask, DispatchListen, AcceptFails, AcceptError, RefuseBusy, RefuseKilled, TooMany, Register, Shape
    <2>3. pc'[Main] \notin {"mark", "close", "init"}
      BY <1>9 DEF MainStep, Fire, Pop, TickDone, GetNextTick, Wait, EndOfBatch, Dispatch,
        DispatchHup, DispatchTask, DispatchListen, AcceptFails, AcceptError, RefuseBusy, RefuseKilled, TooMany, Register, Shape,
        LoopTop
    <2> QED
      BY <1>1, <2>1, <2>2, <2>3 DEF Shape
  <1>10. ASSUME NEW w \in Workers, WorkerStep(w), ~CloseConn(w) PROVE Tally'
    <2>1. UNCHANGED <<sock, isClose, userCount>>
      BY <1>10 DEF WorkerStep, TakeTask, ReadFails, ReadAll, ReadSome, Receive,
        ProcessNothing, Process, ModFd, WriteDone, WriteBlocks, WriteGivesUp, Killed
    <2>2. \A a \in Actors : a # w => pc'[a] = pc[a] /\ on'[a] = on[a]
      BY <1>10 DEF WorkerStep, TakeTask, ReadFails, ReadAll, ReadSome, Receive,
        ProcessNothing, Process, ModFd, WriteDone, WriteBlocks, WriteGivesUp, Killed, Shape
    <2>3. pc'[w] \notin {"mark", "close", "init"}
      <3>1. CASE TakeTask(w)
        <4>1. Head(tasks) \in Task
          BY <3>1, TaskQueue DEF TakeTask, TypeOK
        <4> QED
          BY <3>1, <4>1 DEF TakeTask, Task, Shape
      <3>2. CASE ~TakeTask(w)
        BY <1>10, <3>2 DEF WorkerStep, ReadFails, ReadAll, ReadSome, Receive,
          ProcessNothing, Process, ModFd, WriteDone, WriteBlocks, WriteGivesUp, Killed, Shape
      <3> QED
        BY <3>1, <3>2
    <2> QED
      BY <1>1, <2>1, <2>2, <2>3
  <1>11. CASE UNCHANGED vars
    BY <1>1, <1>11 DEF vars
  <1> HIDE DEF Tally
  <1>12. ASSUME NEW a \in Actors, CloseConn(a) PROVE Tally'
    BY <1>3, <1>4, <1>5, <1>8, <1>12 DEF CloseConn
  <1>13. CASE MainStep
    BY <1>6, <1>7, <1>9, <1>12, <1>13 DEF Shape
  <1>14. ASSUME NEW w \in Workers, WorkerStep(w) PROVE Tally'
    BY <1>10, <1>12, <1>14 DEF Shape
  <1> QED
    BY <1>2, <1>11, <1>13, <1>14 DEF Next

-------------------------------------------------------------------------------
(* The listening socket *)

\* A client is behind one descriptor, or once in the accept queue, or neither;
\* one that is there has not yet to come.
Apart ==
    /\ \A i, j \in DOMAIN backlog : backlog[i] = backlog[j] => i = j
    /\ \A i \in DOMAIN backlog : client[backlog[i]] # "new"
    /\ \A fd \in FDs : \A i \in DOMAIN backlog : backlog[i] # sock[fd]
    /\ \A fd \in FDs : sock[fd] # NoConn => client[sock[fd]] # "new"
    /\ \A f, g \in FDs : sock[f] = sock[g] /\ sock[f] # NoConn => f = g

\* What accept takes from the queue is no longer in it.
LEMMA TailKeeps ==
    ASSUME NEW S, NEW q \in Seq(S), q # <<>>
    PROVE  /\ 1 \in DOMAIN q /\ Head(q) = q[1]
           /\ \A i \in DOMAIN Tail(q) : i + 1 \in DOMAIN q /\ Tail(q)[i] = q[i + 1] /\ i + 1 # 1
           /\ \A i, j \in DOMAIN Tail(q) : i + 1 = j + 1 => i = j
  OBVIOUS

\* No step puts a client into two places.
LEMMA KeepApart == TypeOK /\ Placed /\ Apart /\ [Next]_vars => Apart'
  <1> SUFFICES ASSUME TypeOK, Placed, Apart, [Next]_vars PROVE Apart'
    OBVIOUS
  <1> USE ServerAssumption DEF Apart, network, sockets, users, timers, threads, history
  <1>a. /\ client \in [Conns -> {"new", "open", "closed"}]
        /\ backlog \in Seq(Conns)
        /\ sock \in [FDs -> Conns \cup {NoConn}]
    BY DEF TypeOK
  <1>b. \A i \in DOMAIN backlog : backlog[i] \in Conns
    BY <1>a
  <1>1. ASSUME UNCHANGED <<client, backlog, sock>> PROVE Apart'
    BY <1>1
  <1>2. ASSUME NEW c \in Conns, Connect(c) PROVE Apart'
    <2>1. /\ client[c] = "new" /\ client' = [client EXCEPT ![c] = "open"]
          /\ backlog' = Append(backlog, c) /\ sock' = sock
      BY <1>2 DEF Connect
    <2>2. \A i \in DOMAIN backlog' : \/ i \in DOMAIN backlog /\ backlog'[i] = backlog[i]
                                     \/ i = Len(backlog) + 1 /\ backlog'[i] = c
      BY <1>a, <2>1
    <2>3. \A i \in DOMAIN backlog : backlog[i] # c
      BY <2>1
    <2>4. \A fd \in FDs : sock[fd] # c
      BY <1>a, <2>1
    <2>5. \A i, j \in DOMAIN backlog' : backlog'[i] = backlog'[j] => i = j
      BY <2>2, <2>3
    <2>6. \A i \in DOMAIN backlog' : client'[backlog'[i]] # "new"
      BY <1>a, <1>b, <2>1, <2>2, <2>3
    <2>7. \A fd \in FDs : sock[fd] # NoConn => client'[sock[fd]] # "new"
      BY <1>a, <2>1
    <2>8. \A fd \in FDs : \A i \in DOMAIN backlog' : backlog'[i] # sock[fd]
      BY <2>2, <2>4
    <2> QED
      BY <2>1, <2>5, <2>6, <2>7, <2>8
  <1>3. ASSUME NEW c \in Conns, HangUp(c) PROVE Apart'
    <2>1. \A d \in Conns : client'[d] = "new" => client[d] = "new"
      BY <1>a, <1>3 DEF HangUp
    <2> QED
      BY <1>a, <1>b, <1>3, <2>1 DEF HangUp
  <1>4. ASSUME NEW a \in Actors, CloseFd(a) PROVE Apart'
    <2>0. backlog' = backlog /\ Release(on[a])
      BY <1>4 DEF CloseFd
    <2>1. \A fd \in FDs : sock'[fd] = NoConn \/ (fd # on[a] /\ sock'[fd] = sock[fd])
      BY <1>a, <2>0 DEF Release
    <2>2. CASE sock[on[a]] = NoConn
      <3>1. client' = client
        BY <2>0, <2>2 DEF Release
      <3> QED
        BY <1>b, <2>0, <2>1, <3>1
    <2>3. CASE sock[on[a]] # NoConn /\ on[a] \in FDs
      <3>1. client' = [client EXCEPT ![sock[on[a]]] = "new"]
        BY <2>0, <2>3 DEF Release
      <3>2. \A d \in Conns : d # sock[on[a]] => client'[d] = client[d]
        BY <1>a, <3>1
      <3>3. \A i \in DOMAIN backlog : client'[backlog[i]] # "new"
        BY <1>b, <2>3, <3>2
      <3>4. \A fd \in FDs : sock'[fd] # NoConn => client'[sock'[fd]] # "new"
        BY <1>a, <2>1, <2>3, <3>2
      <3>5. \A f, g \in FDs : sock'[f] = sock'[g] /\ sock'[f] # NoConn => f = g
        BY <2>1
      <3>6. \A fd \in FDs : \A i \in DOMAIN backlog : backlog[i] # sock'[fd]
        BY <1>b, <2>1
      <3> QED
        BY <2>0, <3>3, <3>4, <3>5, <3>6
    <2>4. on[a] \in FDs
      BY <1>4 DEF CloseFd, Goto, Placed, Actors, TypeOK, LoopPcs
    <2> QED
      BY <2>2, <2>3, <2>4
  <1>5. CASE RefuseBusy
    <2>1. /\ backlog # <<>> /\ backlog' = Tail(backlog) /\ sock' = sock
          /\ client' = [client EXCEPT ![Head(backlog)] = "new"]
      BY <1>5 DEF RefuseBusy, TooMany
    <2>2. \A i \in DOMAIN backlog' :
            /\ i + 1 \in DOMAIN backlog /\ backlog'[i] = backlog[i + 1]
            /\ backlog'[i] # Head(backlog)
      BY <1>a, <2>1, TailKeeps
    <2>3. \A fd \in FDs : sock[fd] # Head(backlog)
      BY <1>a, <2>1, TailKeeps
    <2>4. \A d \in Conns : d # Head(backlog) => client'[d] = client[d]
      BY <1>a, <2>1
    <2>5. \A i, j \in DOMAIN backlog' : backlog'[i] = backlog'[j] => i = j
      BY <1>a, <2>1, <2>2, TailKeeps
    <2>6. \A i \in DOMAIN backlog' : client'[backlog'[i]] # "new"
      BY <1>b, <2>2, <2>4
    <2>7. \A fd \in FDs : sock'[fd] # NoConn => client'[sock'[fd]] # "new"
      BY <1>a, <2>1, <2>3, <2>4
    <2>8. \A fd \in FDs : \A i \in DOMAIN backlog' : backlog'[i] # sock'[fd]
      BY <2>1, <2>2
    <2> QED
      BY <2>1, <2>5, <2>6, <2>7, <2>8
  <1>6. ASSUME NEW fd \in FDs, Accept(fd) PROVE Apart'
    <2>1. /\ backlog # <<>> /\ backlog' = Tail(backlog) /\ client' = client
          /\ sock' = [sock EXCEPT ![fd] = Head(backlog)]
      BY <1>6 DEF Accept
    <2>2. \A i \in DOMAIN backlog' :
            /\ i + 1 \in DOMAIN backlog /\ backlog'[i] = backlog[i + 1]
            /\ backlog'[i] # Head(backlog)
      BY <1>a, <2>1, TailKeeps
    <2>3. \A g \in FDs : sock[g] # Head(backlog)
      BY <1>a, <2>1, TailKeeps
    <2>4. client[Head(backlog)] # "new"
      BY <1>a, <2>1, TailKeeps
    <2>5. \A i, j \in DOMAIN backlog' : backlog'[i] = backlog'[j] => i = j
      BY <1>a, <2>1, <2>2, TailKeeps
    <2>6. \A g \in FDs : sock'[g] = IF g = fd THEN Head(backlog) ELSE sock[g]
      BY <1>a, <2>1
    <2>7. \A i \in DOMAIN backlog' : client'[backlog'[i]] # "new"
      BY <2>1, <2>2
    <2>8. \A g \in FDs : sock'[g] # NoConn => client'[sock'[g]] # "new"
      BY <2>1, <2>4, <2>6
    <2>9. \A g \in FDs : \A i \in DOMAIN backlog' : backlog'[i] # sock'[g]
      BY <2>2, <2>6
    <2>10. \A f, g \in FDs : sock'[f] = sock'[g] /\ sock'[f] # NoConn => f = g
      BY <2>3, <2>6
    <2> QED
      BY <2>5, <2>7, <2>8, <2>9, <2>10
  <1> HIDE DEF Apart
  <1>7. CASE Environment
    BY <1>1, <1>2, <1>3, <1>7 DEF Environment, Send, Drain, Expire
  <1>8. ASSUME NEW a \in Actors, CloseConn(a) PROVE Apart'
    BY <1>1, <1>4, <1>8 DEF CloseConn, DelFd, CheckClose, MarkClosed
  <1>9. CASE MainStep
    <2>1. Main \in Actors
      BY DEF Actors
    <2>2. ASSUME NEW e \in batch, Dispatch(e) PROVE Apart'
      BY <1>1, <2>2 DEF Dispatch, DispatchHup, DispatchTask, DispatchListen
    <2> QED
      BY <1>1, <1>5, <1>6, <1>8, <1>9, <2>1, <2>2 DEF MainStep, Fire, Pop, TickDone, GetNextTick,
        Wait, EndOfBatch, AcceptFails, AcceptError, RefuseKilled, InitUser, Register
  <1>10. ASSUME NEW w \in Workers, WorkerStep(w) PROVE Apart'
    BY <1>1, <1>8, <1>10 DEF WorkerStep, Actors, TakeTask, ReadFails, ReadAll, ReadSome, Receive,
      ProcessNothing, Process, ModFd, WriteDone, WriteBlocks, WriteGivesUp, Killed
  <1>11. CASE UNCHANGED vars
    BY <1>1, <1>11 DEF vars
  <1> QED
    BY <1>7, <1>9, <1>10, <1>11 DEF Next

\* While a client waits and there is room for all, a descriptor is free and
\* userCount is below MAX_FD: the clients behind descriptors are other ones.
LEMMA RoomForHead ==
    ASSUME TypeOK, Apart, Tally, HasRoom, backlog # <<>>
    PROVE  FreeFds # {} /\ userCount < MAX_FD
  <1> DEFINE Others == Conns \ {Head(backlog)}
             Taken == {fd \in FDs : sock[fd] # NoConn}
             behind == [fd \in Taken |-> sock[fd]]
  <1>1. Head(backlog) \in Conns /\ \A fd \in FDs : sock[fd] # Head(backlog)
    BY TailKeeps, TaskQueue DEF TypeOK, Apart
  <1>2. IsFiniteSet(Others) /\ Cardinality(Others) = Cardinality(Conns) - 1
    BY <1>1, FS_RemoveElement DEF HasRoom
  <1>3. behind \in Injection(Taken, Others)
    BY <1>1 DEF Injection, IsInjective, TypeOK, Apart
  <1>4. Cardinality(Taken) <= Cardinality(Others) /\ IsFiniteSet(Taken)
    BY <1>2, <1>3, FS_Injection
  <1>5. OpenUsers \subseteq Taken
    BY DEF OpenUsers, Tally
  <1>6. Cardinality(OpenUsers) <= Cardinality(Taken) /\ IsFiniteSet(OpenUsers)
    BY <1>4, <1>5, FS_Subset
  <1>7. /\ Cardinality(Conns) \in Nat /\ Cardinality(FDs) \in Nat
        /\ Cardinality(Taken) \in Nat /\ Cardinality(OpenUsers) \in Nat
    BY <1>4, <1>6, FS_CardinalityType, ServerAssumption DEF HasRoom
  <1>8. userCount < MAX_FD
    BY <1>2, <1>4, <1>6, <1>7, ServerAssumption DEF HasRoom, Tally
  <1>9. ASSUME FreeFds = {} PROVE Cardinality(Taken) = Cardinality(FDs)
    <2>1. Taken = FDs
      BY <1>9 DEF FreeFds
    <2> QED
      BY <2>1
  <1> HIDE DEF Others, Taken
  <1>10. FreeFds # {}
    BY <1>2, <1>4, <1>7, <1>9 DEF HasRoom
  <1> QED
    BY <1>8, <1>10

\* In ET mode a waiting client is news to epoll_wait, or an event to be handled,
\* or the loop of DealListen is still running.
Heard ==
    ListenET /\ HasRoom /\ races = 0 /\ acceptErrors = 0 /\ backlog # <<>> =>
        \/ listenEdge
        \/ ListenEvent \in batch
        \/ pc[Main] \in {"accept", "init", "register"}

\* No step leaves a client behind that nothing will report.
LEMMA KeepHeard ==
    TypeOK /\ Placed /\ Shape /\ Apart /\ Counted /\ Heard /\ [Next]_vars => Heard'
  <1> SUFFICES ASSUME TypeOK, Placed, Shape, Apart, Counted, Heard, [Next]_vars,
                      ListenET, HasRoom, races' = 0, acceptErrors' = 0, backlog' # <<>>
               PROVE  \/ listenEdge'
                      \/ (ListenEvent \in batch)'
                      \/ pc'[Main] \in {"accept", "init", "register"}
    BY DEF Heard, HasRoom
  <1> USE ServerAssumption DEF network, sockets, users, timers, threads, history, Goto
  <1> DEFINE Goal == \/ listenEdge'
                     \/ (ListenEvent \in batch)'
                     \/ pc'[Main] \in {"accept", "init", "register"}
             Same == UNCHANGED <<backlog, listenEdge, batch>>
             Busy == pc[Main] \in {"accept", "init", "register"}
  <1>0. races = 0 /\ acceptErrors = 0 /\ Tally /\ ~AcceptError
    BY RacesGrow, AcceptErrorsGrow DEF Counted
  <1>a. backlog # <<>> => listenEdge \/ ListenEvent \in batch \/ Busy
    BY <1>0 DEF Heard
  <1>b. backlog # <<>> => FreeFds # {} /\ userCount < MAX_FD
    BY <1>0, RoomForHead
  <1>c. ListenEvent' = ListenEvent
    BY DEF ListenEvent
  <1>1. ASSUME Same, Busy => pc'[Main] = pc[Main] PROVE Goal
    BY <1>a, <1>c, <1>1
  <1>2. CASE Environment
    <2>1. ASSUME NEW c \in Conns, Connect(c) PROVE Goal
      BY <2>1 DEF Connect
    <2>2. ASSUME NEW c \in Conns, Send(c) \/ Drain(c) \/ HangUp(c) PROVE Goal
      BY <1>1, <2>2 DEF Send, Drain, HangUp
    <2>3. ASSUME NEW fd \in FDs, Expire(fd) PROVE Goal
      BY <1>1, <2>3 DEF Expire
    <2> QED
      BY <1>2, <2>1, <2>2, <2>3 DEF Environment
  <1>3. ASSUME NEW a \in Actors, CloseConn(a) PROVE Goal
    <2>1. Same
      BY <1>3 DEF CloseConn, DelFd, CheckClose, MarkClosed, CloseFd
    <2>2. Busy => a # Main
      BY <1>3 DEF CloseConn, DelFd, CheckClose, MarkClosed, CloseFd
    <2>3. a # Main => pc'[Main] = pc[Main]
      BY <1>3 DEF CloseConn, DelFd, CheckClose, MarkClosed, CloseFd, Shape
    <2> QED
      BY <1>1, <2>1, <2>2, <2>3
  <1>4. CASE MainStep
    <2>1. CASE Pop \/ TickDone \/ GetNextTick \/ \E fd \in FDs : Fire(fd)
      <3>1. Same /\ ~Busy
        BY <2>1 DEF Pop, TickDone, GetNextTick, Fire
      <3> QED
        BY <1>1, <3>1
    <2>2. CASE Wait
      <3>1. pc[Main] = "wait" /\ batch = {} /\ backlog' = backlog
        BY <2>2 DEF Wait, Placed
      <3>2. listenEdge
        BY <1>a, <3>1
      <3>3. ListenReady = {ListenEvent}
        BY <3>1, <3>2 DEF ListenReady
      <3> QED
        BY <1>c, <2>2, <3>3 DEF Wait
    <2>3. CASE EndOfBatch
      <3>1. Same /\ ~Busy
        BY <2>3 DEF EndOfBatch
      <3> QED
        BY <1>1, <3>1
    <2>4. ASSUME NEW e \in batch, Dispatch(e) PROVE Goal
      <3>1. UNCHANGED <<backlog, listenEdge>> /\ batch' = batch \ {e} /\ ~Busy
        BY <2>4 DEF Dispatch, DispatchHup, DispatchTask, DispatchListen
      <3>2. CASE DispatchListen(e)
        BY <3>2 DEF DispatchListen, Shape
      <3>3. CASE DispatchHup(e) \/ DispatchTask(e)
        <4>1. e # ListenEvent
          BY <3>3 DEF DispatchHup, DispatchTask, ListenEvent
        <4> QED
          BY <1>a, <1>c, <3>1, <4>1
      <3> QED
        BY <2>4, <3>2, <3>3 DEF Dispatch
    <2>5. CASE AcceptFails \/ AcceptError \/ RefuseBusy \/ RefuseKilled
      <3>1. backlog' = backlog \/ backlog # <<>>
        BY <1>0, <2>5 DEF AcceptFails, RefuseBusy, RefuseKilled, TooMany
      <3>2. userCount \in Int /\ MAX_FD \in Nat
        BY DEF TypeOK
      <3> QED
        BY <1>0, <1>b, <2>5, <3>1, <3>2 DEF AcceptFails, RefuseBusy, RefuseKilled, TooMany
    <2>6. CASE InitUser \/ Register \/ \E fd \in FDs : Accept(fd)
      BY <2>6 DEF InitUser, Register, Accept, Shape
    <2>7. CASE CloseConn(Main)
      BY <1>3, <2>7 DEF Shape
    <2> QED
      BY <1>4, <2>1, <2>2, <2>3, <2>4, <2>5, <2>6, <2>7 DEF MainStep
  <1>5. ASSUME NEW w \in Workers, WorkerStep(w) PROVE Goal
    <2>1. CASE CloseConn(w)
      BY <1>3, <2>1 DEF Shape
    <2>2. CASE ~CloseConn(w)
      <3>1. Same
        BY <1>5, <2>2 DEF WorkerStep, TakeTask, ReadFails, ReadAll, ReadSome, Receive,
          ProcessNothing, Process, ModFd, WriteDone, WriteBlocks, WriteGivesUp, Killed
      <3>2. pc'[Main] = pc[Main]
        BY <1>5, <2>2 DEF WorkerStep, TakeTask, ReadFails, ReadAll, ReadSome, Receive,
          ProcessNothing, Process, ModFd, WriteDone, WriteBlocks, WriteGivesUp, Killed, Shape
      <3> QED
        BY <1>1, <3>1, <3>2
    <2> QED
      BY <2>1, <2>2
  <1>6. CASE UNCHANGED vars
    BY <1>1, <1>6 DEF vars
  <1> QED
    BY <1>2, <1>4, <1>5, <1>6 DEF Next

-------------------------------------------------------------------------------
(* The theorems *)

\* The inductive invariant.
Inv == TypeOK /\ Placed /\ Noded /\ Reaped /\ Owned /\ Counted /\ Apart /\ Heard

\* The server starts with every invariant: no descriptor is open or in anybody's
\* hands, and every HttpConn of w_users is closed.
LEMMA InitInv == Init => Inv
  <1> SUFFICES ASSUME Init PROVE Inv
    OBVIOUS
  <1>1. TypeOK
    BY InitTypes
  <1> USE ServerAssumption DEF Init
  <1>2. Placed
    BY DEF Placed, Actors, LoopTop, LoopPcs, HoldingPcs, WorkerPcs
  <1>3. Shape
    BY <1>1, <1>2, ShapeFacts
  <1>4. /\ pc[Main] = LoopTop /\ LoopTop \in {"tick", "wait"}
        /\ \A w \in Workers : pc[w] = "idle"
        /\ \A a \in Actors : on[a] = NoFd /\ pc[a] \in {"idle", "tick", "wait"}
    BY <1>3 DEF Shape, LoopTop
  <1>5. Noded
    BY <1>4 DEF Noded
  <1>6. Reaped
    BY <1>4 DEF Reaped, AlwaysReapable
  <1>7. \A fd \in FDs : ~InBatch(fd) /\ ~Queued(fd) /\ ~Working(fd) /\ ~InMain(fd) /\ ~Armed(fd)
    BY <1>3, <1>4 DEF InBatch, Queued, Working, InMain, Armed, Shape
  <1>8. Owned
    BY <1>3, <1>4, <1>7 DEF Owned, OwnedFd, RegisteredFd, InUse, Shape
  <1>9. OpenUsers = {} /\ Cardinality({}) = 0
    BY FS_EmptySet DEF OpenUsers
  <1>10. Counted
    BY <1>3, <1>4, <1>9 DEF Counted, Tally, Shape
  <1>11. Apart /\ Heard
    BY DEF Apart, Heard
  <1> QED
    BY <1>1, <1>2, <1>5, <1>6, <1>8, <1>10, <1>11 DEF Inv

\* Every step of the reactor keeps the invariant.
LEMMA StepInv == Inv /\ [Next]_vars => Inv'
  <1> SUFFICES ASSUME Inv, [Next]_vars PROVE Inv'
    OBVIOUS
  <1>1. TypeOK /\ Placed /\ Noded /\ Reaped /\ Owned /\ Counted /\ Apart /\ Heard /\ Shape
    BY ShapeFacts DEF Inv
  <1>2. Placed'
    BY <1>1, KeepPlaced
  <1>3. TypeOK'
    <2>1. CASE Environment
      BY <1>1, <2>1, EnvironmentTypes
    <2>2. CASE MainStep
      BY <1>1, <2>2, MainTypes
    <2>3. ASSUME NEW w \in Workers, WorkerStep(w) PROVE TypeOK'
      BY <1>1, <2>3, WorkerTypes
    <2>4. CASE UNCHANGED vars
      BY <1>1, <2>4 DEF vars, network, sockets, users, timers, threads, history, TypeOK
    <2> QED
      BY <2>1, <2>2, <2>3, <2>4 DEF Next
  <1>4. (TypeOK /\ Placed => Shape)'
    BY ShapeFacts, PTL
  <1>5. Shape'
    BY <1>2, <1>3, <1>4
  <1>6. Noded'
    BY <1>1, <1>2, KeepNoded
  <1>7. Reaped'
    BY <1>1, <1>2, KeepReaped
  <1>8. Owned'
    BY <1>1, <1>5, KeepOwned
  <1>9. Counted'
    BY <1>1, <1>5, KeepCounted
  <1>10. Apart' /\ Heard'
    BY <1>1, KeepApart, KeepHeard
  <1> QED
    BY <1>2, <1>3, <1>6, <1>7, <1>8, <1>9, <1>10 DEF Inv

\* The invariant holds of every behaviour of Start and its threads.
THEOREM Invariance == SafeSpec => []Inv
  BY InitInv, StepInv, PTL DEF SafeSpec

\* The types of TypeOK hold throughout; among them, that a node that has expired
\* is a node of the heap (Timer::Pop removes both).
THEOREM TypeCorrect == SafeSpec => []TypeOK
  <1>1. Inv => TypeOK
    BY DEF Inv
  <1> QED
    BY <1>1, Invariance, PTL

\* Timer::Adjust never fails its assertion in ExtentTime: the id of an event
\* that is dispatched has a node, even when timers close connections in use.
THEOREM EventsHaveNodes == SafeSpec => []NodeForEvent
  <1>1. Inv => NodeForEvent
    BY DEF Inv, Noded, NodeForEvent
  <1> QED
    BY <1>1, Invariance, PTL

\* With timers on, CloseConn or a timer reaches every open descriptor, even
\* after a timer has closed a connection in use.
THEOREM OpenIsReapable == SafeSpec => []AlwaysReapable
  <1>1. Inv => AlwaysReapable
    BY DEF Inv, Reaped
  <1> QED
    BY <1>1, Invariance, PTL

\* EPOLLONESHOT gives each connection one owner at a time, as long as no timer
\* fires on a connection in use.
THEOREM OneOwner == SafeSpec => []SingleOwner
  <1>1. Inv => SingleOwner
    BY DEF Inv, Owned, OwnedFd, SingleOwner
  <1> QED
    BY <1>1, Invariance, PTL

\* Under the same condition OnRead, OnProcess and OnWrite leave no connection
\* behind that is open, disarmed and in nobody's hands.
THEOREM NothingForgotten == SafeSpec => []NoneForgotten
  <1>1. Inv => NoneForgotten
    BY DEF Inv, Owned, OwnedFd, NoneForgotten
  <1> QED
    BY <1>1, Invariance, PTL

\* Under the same condition no handler runs on a descriptor that is closed, or
\* that accept has given to another client meanwhile.
THEOREM NoStaleHandler == SafeSpec => []NoStaleWork
  <1>1. Inv => NoStaleWork
    BY DEF Inv, Owned, OwnedFd, NoStaleWork
  <1> QED
    BY <1>1, Invariance, PTL

\* Under the same condition userCount is the number of open users, although
\* HttpConn::Close tests and sets isClose without a lock.
THEOREM CountIsExact == SafeSpec => []CountExact
  <1>1. Inv => CountExact
    BY DEF Inv, Counted, Tally, OpenUsers, CountExact
  <1> QED
    BY <1>1, Invariance, PTL

\* Under the same condition, with room for all the clients, and as long as accept
\* does not fail on a client that waits, epoll_wait never begins with a client in
\* the accept queue that it would not report: the loop of DealListen makes up for
\* the single event of an edge-triggered socket.
THEOREM WaitingClientIsSeen == SafeSpec => []BacklogSeen
  <1>1. Inv => BacklogSeen
    <2> SUFFICES ASSUME Inv, races = 0, acceptErrors = 0, HasRoom, pc[Main] = "wait", backlog # <<>>
                 PROVE  ListenReady # {}
      BY DEF BacklogSeen
    <2>1. batch = {}
      BY DEF Inv, Placed
    <2>2. ListenET => listenEdge
      BY <2>1 DEF Inv, Heard
    <2> QED
      BY <2>2 DEF ListenReady
  <1> QED
    BY <1>1, Invariance, PTL

\* Each step of the reactor uses the timer as ExpirySet allows, or not at all.
LEMMA TimerStep == Inv /\ [Next]_vars => [TimerPromise!Next]_<<timer, due, Firing, waitMode>>
  <1> SUFFICES ASSUME Inv, [Next]_vars
               PROVE  [TimerPromise!Next]_<<timer, due, Firing, waitMode>>
    OBVIOUS
  <1>1. TypeOK /\ Placed /\ Noded
    BY DEF Inv
  <1>2. timer \subseteq FDs /\ due \subseteq timer
    BY <1>1 DEF TypeOK
  <1> DEFINE Same == UNCHANGED <<timer, due, Firing, waitMode>>
  <1>3. ASSUME UNCHANGED <<timers, on, inCallback>> PROVE Same
    BY <1>3 DEF timers, Firing
  <1>4. ASSUME ~inCallback, UNCHANGED <<timers, inCallback>> PROVE Same
    BY <1>4 DEF timers, Firing
  <1>5. ASSUME NEW a \in Actors, CloseConn(a) PROVE Same
    <2>1. UNCHANGED <<timers, inCallback>>
      BY <1>5 DEF CloseConn, DelFd, CheckClose, MarkClosed, CloseFd
    <2>2. on'[Main] = on[Main] \/ ~inCallback
      <3>1. on' = on \/ Leave(a)
        BY <1>5 DEF CloseConn, DelFd, CheckClose, MarkClosed, CloseFd
      <3>2. CASE Leave(a)
        BY <3>2, <1>1, ServerAssumption DEF Leave, After, Actors, TypeOK
      <3> QED
        BY <3>1, <3>2
    <2> QED
      BY <2>1, <2>2 DEF timers, Firing
  <1>6. CASE UNCHANGED vars
    BY <1>6, <1>3 DEF vars, threads
  <1>7. CASE Environment
    <2>1. ASSUME NEW c \in Conns, Connect(c) \/ Send(c) \/ Drain(c) \/ HangUp(c)
          PROVE Same
      BY <2>1, <1>3 DEF Connect, Send, Drain, HangUp, threads
    <2>2. ASSUME NEW fd \in FDs, Expire(fd) PROVE TimerPromise!Expire
      BY <2>2, <1>2 DEF Expire, TimerPromise!Expire, threads, Firing
    <2> QED
      BY <2>1, <2>2, <1>7 DEF Environment, TimerPromise!Next
  <1>8. CASE MainStep
    <2>1. ASSUME NEW fd \in FDs, Fire(fd) PROVE TimerPromise!Fire(fd)
      BY <2>1, <1>1, ServerAssumption
      DEF Fire, TimerPromise!Fire, timers, Firing, TypeOK, Actors
    <2>2. CASE Pop
      <3>1. inCallback /\ ~inCallback'
        BY <2>2, <1>1 DEF Pop, Goto, Placed, LoopPcs, HoldingPcs, ClosingPcs
      <3>2. Firing = {on[Main]} /\ Firing' = {}
        BY <3>1 DEF Firing
      <3>3. TimerPromise!Pop
        BY <2>2, <3>2 DEF Pop, TimerPromise!Pop
      <3> QED
        BY <3>3 DEF TimerPromise!Next
    <2>3. CASE TickDone \/ EndOfBatch \/ AcceptFails \/ AcceptError \/ RefuseBusy \/ RefuseKilled
      BY <2>3, <1>3 DEF TickDone, EndOfBatch, AcceptFails, AcceptError, RefuseBusy, RefuseKilled, TooMany
    <2>4. CASE GetNextTick
      <3>1. UNCHANGED <<timer, due, Firing>>
        BY <2>4 DEF GetNextTick, Firing
      <3>2. waitMode' \in {"forever", "timed", "zero"}
        BY <2>4 DEF GetNextTick
      <3>3. TimerPromise!SleepMode(waitMode')
        BY <2>4, <3>1 DEF GetNextTick, TimerPromise!SleepMode
      <3> QED
        BY <3>2, <3>3 DEF TimerPromise!Next
    <2>5. CASE Wait
      BY <2>5, <1>3 DEF Wait
    <2>6. ASSUME NEW e \in batch, Dispatch(e)
          PROVE  Same \/ \E fd \in FDs : TimerPromise!Renew(fd)
      <3>1. ~inCallback
        BY <2>6, <1>1 DEF Placed
      <3>2. CASE DispatchHup(e)
        BY <3>1, <3>2, <1>4 DEF DispatchHup
      <3>3. CASE DispatchListen(e)
        BY <3>3, <1>3 DEF DispatchListen
      <3>4. CASE DispatchTask(e)
        <4>1. e \in Event
          BY <1>1 DEF TypeOK
        <4>2. e.fd \in FDs
          BY <4>1, <3>4 DEF Event, ConnEvent, ListenEvent, DispatchTask
        <4>3. UNCHANGED <<timer, waitMode, Firing>> /\ due' = due \ {e.fd}
          BY <3>4 DEF DispatchTask, Firing
        <4>4. CASE e.fd \in timer
          <5>1. TimerPromise!Renew(e.fd)
            BY <4>3, <4>4 DEF TimerPromise!Renew
          <5> QED
            BY <5>1, <4>2
        <4>5. CASE e.fd \notin timer
          BY <4>3, <4>5, <1>2
        <4> QED
          BY <4>4, <4>5
      <3> QED
        BY <2>6, <3>2, <3>3, <3>4 DEF Dispatch
    <2>7. ASSUME NEW fd \in FDs, Accept(fd) PROVE Same
      <3>1. ~inCallback
        BY <2>7, <1>1 DEF Accept, Goto, Placed, LoopPcs, ClosingPcs
      <3> QED
        BY <2>7, <3>1, <1>4 DEF Accept
    <2>8. CASE InitUser
      BY <2>8, <1>3 DEF InitUser
    <2>9. CASE Register
      <3>1. ~inCallback
        BY <2>9, <1>1 DEF Register, Goto, Placed, ClosingPcs
      <3>2. on[Main] \in FDs
        BY <2>9, <1>1, ServerAssumption
        DEF Register, Goto, Placed, TypeOK, Actors, LoopPcs
      <3>3. UNCHANGED <<waitMode, Firing>>
        BY <2>9, <3>1 DEF Register, Firing
      <3>4. CASE TimeoutOn
        <4>1. TimerPromise!Renew(on[Main])
          BY <2>9, <3>3, <3>4 DEF Register, TimerPromise!Renew
        <4> QED
          BY <4>1, <3>2 DEF TimerPromise!Next
      <3>5. CASE ~TimeoutOn
        BY <2>9, <3>3, <3>5 DEF Register
      <3> QED
        BY <3>4, <3>5
    <2>10. CASE CloseConn(Main)
      BY <2>10, <1>5 DEF Actors
    <2> QED
      BY <1>8, <2>1, <2>2, <2>3, <2>4, <2>5, <2>6, <2>7, <2>8, <2>9, <2>10
      DEF MainStep, TimerPromise!Next
  <1>9. ASSUME NEW w \in Workers, WorkerStep(w) PROVE Same
    <2>1. w # Main
      BY ServerAssumption
    <2>2. CASE CloseConn(w)
      BY <2>2, <1>5 DEF Actors
    <2>3. ASSUME UNCHANGED <<timers, inCallback>>, on'[Main] = on[Main] PROVE Same
      BY <2>3 DEF timers, Firing
    <2>4. CASE TakeTask(w) \/ ModFd(w)
      BY <2>1, <2>3, <2>4, <1>1 DEF TakeTask, ModFd, TypeOK, Actors
    <2>5. CASE ReadFails(w) \/ ReadAll(w) \/ ReadSome(w)
      BY <2>5, <1>3 DEF ReadFails, ReadAll, ReadSome, Receive
    <2>6. CASE ProcessNothing(w) \/ Process(w)
      BY <2>6, <1>3 DEF ProcessNothing, Process
    <2>7. CASE WriteDone(w) \/ WriteBlocks(w) \/ WriteGivesUp(w) \/ Killed(w)
      BY <2>7, <1>3 DEF WriteDone, WriteBlocks, WriteGivesUp, Killed
    <2> QED
      BY <1>9, <2>2, <2>4, <2>5, <2>6, <2>7 DEF WorkerStep
  <1> QED
    BY <1>6, <1>7, <1>8, <1>9 DEF Next

\* Start, the workers and the timer callback together implement the abstract
\* timer: a callback runs only for an expired node, only that node goes, and
\* epoll_wait is timed only when no node has expired.
THEOREM UsesTimerAsPromised == SafeSpec => ImplementsExpirySet
  <1>1. Init => TimerPromise!Init
    BY DEF Init, TimerPromise!Init, Firing
  <1>2. Inv /\ [Next]_vars => [TimerPromise!Next]_TimerPromise!vars
    BY TimerStep DEF TimerPromise!vars
  <1> QED
    BY <1>1, <1>2, Invariance, PTL DEF SafeSpec, ImplementsExpirySet, TimerPromise!Spec
===============================================================================
