------------------------------- MODULE WebServer -------------------------------
(***************************************************************************)
(* The reactor: code/server/web_server.cpp and epoller.cpp, with the parts *)
(* of HttpConn and Timer it calls (http_conn.cpp, timer.cpp).              *)
(*                                                                         *)
(* One thread runs Start: it fires expired timers, waits in epoll_wait and *)
(* dispatches the events.  Accepting and closing are done there; reading,  *)
(* parsing and writing are closures run by the worker threads, in the      *)
(* order they were queued (module TaskPool).  Nothing locks an HttpConn:   *)
(* what keeps two threads away from one connection is EPOLLONESHOT, which  *)
(* disarms a descriptor when its event is delivered.  The timer callback   *)
(* is the one piece of code that does not wait for that.                   *)
(*                                                                         *)
(* External, as the calls of the code see them: the kernel's table of      *)
(* descriptors, epoll, the accept queue, and the clients.                  *)
(*                                                                         *)
(* Bytes are counted in units.  Which request is answered by what is left  *)
(* to the modules of the HTTP layer.                                       *)
(***************************************************************************)
EXTENDS Integers, Sequences, FiniteSets

CONSTANTS
    Workers,    \* the threads of w_threadPool
    Main,       \* the thread that runs Start
    FDs,        \* the descriptors accept can return
    NoFd,
    Conns,      \* the clients' connections
    NoConn,
    TimeoutOn,  \* w_timeoutMs > 0
    ListenET,   \* EPOLLET in w_listenEvent
    ConnET,     \* EPOLLET in w_connEvent (HttpConn::isET)
    MAX_FD,     \* WebServer::MAX_FD
    MaxRaces,   \* bound: expired nodes fired while their connection is in use
    MaxAcceptErrors,  \* bound: errors of accept with a client waiting and room left
    MaxUnread   \* bound: units a client has sent and the server not read,
                \* and units in a read buffer

ASSUME ServerAssumption ==
    /\ IsFiniteSet(Workers)
    /\ IsFiniteSet(FDs)
    /\ Main \notin Workers
    /\ NoFd \notin FDs
    /\ NoConn \notin Conns
    /\ TimeoutOn \in BOOLEAN
    /\ ListenET \in BOOLEAN
    /\ ConnET \in BOOLEAN
    /\ MAX_FD \in Nat
    /\ MaxRaces \in Nat
    /\ MaxAcceptErrors \in Nat
    /\ MaxUnread \in Nat

VARIABLES
    \* the kernel and the clients
    client,     \* each client: "new", "open" or "closed" (it has hung up)
    backlog,    \* connections not yet accepted, oldest first
    listenEdge, \* a connection came in since epoll_wait last reported one
    sock,       \* the connection behind each descriptor
    interest,   \* "none": not in the epoll set; "off": disarmed; "in", "out"
    unread,     \* units waiting in each socket
    full,       \* is the send buffer of the connection full?
    \* the HttpConn objects of w_users
    isClose,
    rbuf,       \* units in h_readBuff
    keep,       \* IsKeepAlive()
    userCount,
    \* the timer: the ids with a node, and those of them that have expired
    timer,
    due,
    waitMode,   \* the timeout of the next epoll_wait: "forever", "timed", "zero"
    \* the threads
    pc,         \* where each thread is
    on,         \* the descriptor (and so the HttpConn) it works on
    inCallback, \* is the main thread inside a timer callback?
    batch,      \* e_events that are still to be handled
    tasks,      \* the queue of w_threadPool
    alive,      \* FALSE when SIGPIPE has killed the process
    races,      \* how often a timer has closed a connection in use (history)
    acceptErrors  \* how often accept has failed on a client that waits (history)

network == <<client, backlog, listenEdge>>
sockets == <<sock, unread, full>>
users == <<isClose, rbuf, keep, userCount>>
timers == <<timer, due, waitMode>>
threads == <<pc, on, inCallback>>
history == <<races, acceptErrors>>
vars == <<network, sockets, interest, users, timers, threads, batch, tasks, alive, history>>

Actors == Workers \cup {Main}
ListenEvent == [fd |-> NoFd, ev |-> "listen"]
ConnEvent == [fd : FDs, ev : {"hup", "in", "out"}]
Event == ConnEvent \cup {ListenEvent}
Task == [fd : FDs, op : {"read", "write"}]

\* Where the threads can be: a worker; the main thread without and with a
\* descriptor in its hands.
ClosingPcs == {"del", "check", "mark", "close"}
WorkerPcs == {"idle", "read", "process", "modIn", "modOut", "write"} \cup ClosingPcs
LoopPcs == {"tick", "timeout", "wait", "dispatch", "accept"}
HoldingPcs == {"pop", "init", "register"} \cup ClosingPcs

TypeOK ==
    /\ client \in [Conns -> {"new", "open", "closed"}]
    /\ backlog \in Seq(Conns)
    /\ listenEdge \in BOOLEAN
    /\ sock \in [FDs -> Conns \cup {NoConn}]
    /\ interest \in [FDs -> {"none", "off", "in", "out"}]
    /\ unread \in [Conns -> Nat]
    /\ full \in [Conns -> BOOLEAN]
    /\ isClose \in [FDs -> BOOLEAN]
    /\ rbuf \in [FDs -> Nat]
    /\ keep \in [FDs -> BOOLEAN]
    /\ userCount \in Int
    /\ timer \in SUBSET FDs
    /\ due \in SUBSET timer
    /\ waitMode \in {"forever", "timed", "zero"}
    /\ pc \in [Actors -> WorkerPcs \cup LoopPcs \cup HoldingPcs]
    /\ on \in [Actors -> FDs \cup {NoFd}]
    /\ inCallback \in BOOLEAN
    /\ batch \in SUBSET Event
    /\ tasks \in Seq(Task)
    /\ alive \in BOOLEAN
    /\ races \in Nat
    /\ acceptErrors \in Nat

LoopTop == IF TimeoutOn THEN "tick" ELSE "wait"

Init ==
    /\ client = [c \in Conns |-> "new"]
    /\ backlog = <<>>
    /\ listenEdge = FALSE
    /\ sock = [fd \in FDs |-> NoConn]
    /\ interest = [fd \in FDs |-> "none"]
    /\ unread = [c \in Conns |-> 0]
    /\ full = [c \in Conns |-> FALSE]
    /\ isClose = [fd \in FDs |-> TRUE]
    /\ rbuf = [fd \in FDs |-> 0]
    /\ keep = [fd \in FDs |-> FALSE]
    /\ userCount = 0
    /\ timer = {}
    /\ due = {}
    /\ waitMode = "forever"
    /\ pc = [a \in Actors |-> IF a = Main THEN LoopTop ELSE "idle"]
    /\ on = [a \in Actors |-> NoFd]
    /\ inCallback = FALSE
    /\ batch = {}
    /\ tasks = <<>>
    /\ alive = TRUE
    /\ races = 0
    /\ acceptErrors = 0

\* The threads move only while the process lives.
Goto(a, from, to) ==
    /\ alive
    /\ pc[a] = from
    /\ pc' = [pc EXCEPT ![a] = to]

-------------------------------------------------------------------------------
(* Who has a descriptor in its hands *)

Armed(fd) == interest[fd] \in {"in", "out"}
InBatch(fd) == \E e \in batch : e.fd = fd
Queued(fd) == \E i \in DOMAIN tasks : tasks[i].fd = fd
Working(fd) == \E w \in Workers : pc[w] # "idle" /\ on[w] = fd
InMain(fd) == on[Main] = fd

InUse(fd) == InBatch(fd) \/ Queued(fd) \/ Working(fd)

-------------------------------------------------------------------------------
(* The clients and time *)

Connect(c) ==
    /\ client[c] = "new"
    /\ client' = [client EXCEPT ![c] = "open"]
    /\ backlog' = Append(backlog, c)
    /\ listenEdge' = TRUE
    /\ UNCHANGED <<sockets, interest, users, timers, threads, batch, tasks, alive, history>>

Send(c) ==
    /\ client[c] = "open"
    /\ unread[c] < MaxUnread
    /\ unread' = [unread EXCEPT ![c] = @ + 1]
    /\ UNCHANGED <<network, sock, full, interest, users, timers, threads, batch,
                   tasks, alive, history>>

\* The client takes what was sent to it.
Drain(c) ==
    /\ full[c]
    /\ full' = [full EXCEPT ![c] = FALSE]
    /\ UNCHANGED <<network, sock, unread, interest, users, timers, threads, batch,
                   tasks, alive, history>>

HangUp(c) ==
    /\ client[c] = "open"
    /\ client' = [client EXCEPT ![c] = "closed"]
    /\ UNCHANGED <<backlog, listenEdge, sockets, interest, users, timers, threads,
                   batch, tasks, alive, history>>

Expire(fd) ==
    /\ fd \in timer \ due
    /\ due' = due \cup {fd}
    /\ UNCHANGED <<network, sockets, interest, users, timer, waitMode, threads, batch,
                   tasks, alive, history>>

Environment ==
    \/ \E c \in Conns : Connect(c) \/ Send(c) \/ Drain(c) \/ HangUp(c)
    \/ \E fd \in FDs : Expire(fd)

-------------------------------------------------------------------------------
(* WebServer::CloseConn, by any thread *)

After(a) ==
    IF a \in Workers THEN "idle" ELSE IF inCallback THEN "pop" ELSE "dispatch"

\* A thread that is done with its descriptor; Pop still needs it.
Leave(a) == on' = [on EXCEPT ![a] = IF After(a) = "pop" THEN @ ELSE NoFd]

DelFd(a) ==
    /\ Goto(a, "del", "check")
    /\ interest' = [interest EXCEPT ![on[a]] = "none"]
    /\ UNCHANGED <<network, sockets, users, timers, on, inCallback, batch, tasks,
                   alive, history>>

CheckClose(a) ==
    /\ Goto(a, "check", IF isClose[on[a]] THEN After(a) ELSE "mark")
    /\ IF isClose[on[a]] THEN Leave(a) ELSE UNCHANGED on
    /\ UNCHANGED <<network, sockets, interest, users, timers, inCallback, batch,
                   tasks, alive, history>>

MarkClosed(a) ==
    /\ Goto(a, "mark", "close")
    /\ isClose' = [isClose EXCEPT ![on[a]] = TRUE]
    /\ userCount' = userCount - 1
    /\ UNCHANGED <<network, sockets, interest, rbuf, keep, timers, on, inCallback,
                   batch, tasks, alive, history>>

\* close(2).  The connection is over: its client may come again.
Release(fd) ==
    LET c == sock[fd]
    IN  /\ sock' = [sock EXCEPT ![fd] = NoConn]
        /\ interest' = [interest EXCEPT ![fd] = "none"]
        /\ IF c = NoConn
             THEN UNCHANGED <<client, unread, full>>
             ELSE /\ client' = [client EXCEPT ![c] = "new"]
                  /\ unread' = [unread EXCEPT ![c] = 0]
                  /\ full' = [full EXCEPT ![c] = FALSE]

\* Mutant: closing a connection also removes its timer node.
CloseDropsNode(a) ==
    /\ Goto(a, "close", After(a))
    /\ Release(on[a])
    /\ Leave(a)
    /\ timer' = timer \ {on[a]}
    /\ due' = due \ {on[a]}
    /\ UNCHANGED <<backlog, listenEdge, users, waitMode, inCallback, batch, tasks,
                   alive, history>>

CloseFd(a) ==
    /\ Goto(a, "close", After(a))
    /\ Release(on[a])
    /\ Leave(a)
    /\ UNCHANGED <<backlog, listenEdge, users, timers, inCallback, batch, tasks,
                   alive, history>>

CloseConn(a) == DelFd(a) \/ CheckClose(a) \/ MarkClosed(a) \/ CloseFd(a)

-------------------------------------------------------------------------------
(* Start: timers *)

\* Mutant: Tick fires a node that has not expired.
FireAny(fd) ==
    /\ fd \in timer
    /\ Goto(Main, "tick", "del")
    /\ on' = [on EXCEPT ![Main] = fd]
    /\ inCallback' = TRUE
    /\ IF InUse(fd)
         THEN races < MaxRaces /\ races' = races + 1
         ELSE UNCHANGED races
    /\ UNCHANGED <<network, sockets, interest, users, timers, batch, tasks, alive,
                   acceptErrors>>

\* Tick fires an expired node: its callback is CloseConn of its descriptor.
Fire(fd) ==
    /\ fd \in due
    /\ Goto(Main, "tick", "del")
    /\ on' = [on EXCEPT ![Main] = fd]
    /\ inCallback' = TRUE
    /\ IF InUse(fd)
         THEN races < MaxRaces /\ races' = races + 1
         ELSE UNCHANGED races
    /\ UNCHANGED <<network, sockets, interest, users, timers, batch, tasks, alive,
                   acceptErrors>>

\* Mutant: the node is unlinked, its entry in t_ref stays behind.
PopHalf ==
    /\ Goto(Main, "pop", "tick")
    /\ timer' = timer \ {on[Main]}
    /\ on' = [on EXCEPT ![Main] = NoFd]
    /\ inCallback' = FALSE
    /\ UNCHANGED <<network, sockets, interest, users, due, waitMode, batch, tasks,
                   alive, history>>

\* Timer::Pop, after the callback.
Pop ==
    /\ Goto(Main, "pop", "tick")
    /\ timer' = timer \ {on[Main]}
    /\ due' = due \ {on[Main]}
    /\ on' = [on EXCEPT ![Main] = NoFd]
    /\ inCallback' = FALSE
    /\ UNCHANGED <<network, sockets, interest, users, waitMode, batch, tasks,
                   alive, history>>

\* Mutant: Tick leaves an expired node where it is.
TickSkips ==
    /\ Goto(Main, "tick", "timeout")
    /\ UNCHANGED <<network, sockets, interest, users, timers, on, inCallback, batch,
                   tasks, alive, history>>

\* Tick has found the front of the heap not expired, or the heap empty.
TickDone ==
    /\ due = {}
    /\ Goto(Main, "tick", "timeout")
    /\ UNCHANGED <<network, sockets, interest, users, timers, on, inCallback, batch,
                   tasks, alive, history>>

\* The rest of GetNextTick.  res is a size_t: a node that expired since Tick
\* looked gives 0 in the same millisecond and a negative int afterwards, which
\* epoll_wait takes for "no timeout".
GetNextTick ==
    /\ Goto(Main, "timeout", "wait")
    /\ waitMode' \in IF timer = {} THEN {"forever"}
                     ELSE IF due = {} THEN {"timed"} ELSE {"zero", "forever"}
    /\ UNCHANGED <<network, sockets, interest, users, timer, due, on, inCallback,
                   batch, tasks, alive, history>>

-------------------------------------------------------------------------------
(* Start: epoll_wait and the events *)

\* Mutant: EPOLLRDHUP is not asked for.
ReadyWithoutRdhup(fd) ==
    LET c == sock[fd]
    IN  CASE interest[fd] = "in" /\ (unread[c] > 0 \/ client[c] = "closed") -> {"in"}
          [] interest[fd] = "out" /\ ~full[c] -> {"out"}
          [] OTHER -> {}

\* The event a descriptor in the epoll set has, as Start sorts them: a hang-up
\* first, whatever else there is.
ReadyAs(fd) ==
    LET c == sock[fd]
    IN  CASE client[c] = "closed" -> {"hup"}
          [] client[c] # "closed" /\ interest[fd] = "in" /\ unread[c] > 0 -> {"in"}
          [] client[c] # "closed" /\ interest[fd] = "out" /\ ~full[c] -> {"out"}
          [] OTHER -> {}

Ready ==
    {e \in ConnEvent :
        Armed(e.fd) /\ sock[e.fd] # NoConn /\ e.ev \in ReadyAs(e.fd)}

\* Mutant: the listening socket is edge-triggered although accept runs once.
ListenByEdge ==
    IF backlog # <<>> /\ listenEdge
      THEN {ListenEvent} ELSE {}

\* An edge-triggered listening socket is reported once per arrival.
ListenReady ==
    IF backlog # <<>> /\ (ListenET => listenEdge)
      THEN {ListenEvent} ELSE {}

\* Mutant: epoll without EPOLLONESHOT.
WaitLeavesArmed ==
    LET events == Ready \cup ListenReady
    IN  /\ \/ events # {}
           \/ waitMode = "zero"
           \/ waitMode = "timed" /\ due # {}
        /\ Goto(Main, "wait", "dispatch")
        /\ batch' = events
        /\ listenEdge' = IF ListenReady = {} THEN listenEdge ELSE FALSE
        /\ UNCHANGED <<client, backlog, sockets, interest, users, timers, on,
                       inCallback, tasks, alive, history>>

\* Epoller::Wait.  EPOLLONESHOT: what is reported is disarmed.
Wait ==
    LET events == Ready \cup ListenReady
    IN  /\ \/ events # {}
           \/ waitMode = "zero"
           \/ waitMode = "timed" /\ due # {}
        /\ Goto(Main, "wait", "dispatch")
        /\ batch' = events
        /\ interest' = [fd \in FDs |->
                          IF \E e \in events : e.fd = fd THEN "off" ELSE interest[fd]]
        /\ listenEdge' = IF ListenReady = {} THEN listenEdge ELSE FALSE
        /\ UNCHANGED <<client, backlog, sockets, users, timers, on, inCallback, tasks,
                       alive, history>>

EndOfBatch ==
    /\ batch = {}
    /\ Goto(Main, "dispatch", LoopTop)
    /\ UNCHANGED <<network, sockets, interest, users, timers, on, inCallback, batch,
                   tasks, alive, history>>

DispatchHup(e) ==
    /\ e.ev = "hup"
    /\ Goto(Main, "dispatch", "del")
    /\ on' = [on EXCEPT ![Main] = e.fd]
    /\ UNCHANGED <<network, sockets, interest, users, timers, inCallback, tasks, alive,
                   history>>

\* Mutant: activity removes the timer node instead of renewing it.
DispatchDropsNode(e) ==
    /\ e.ev \in {"in", "out"}
    /\ Goto(Main, "dispatch", "dispatch")
    /\ timer' = timer \ {e.fd}
    /\ due' = due \ {e.fd}
    /\ tasks' = Append(tasks, [fd |-> e.fd, op |-> IF e.ev = "in" THEN "read" ELSE "write"])
    /\ UNCHANGED <<network, sockets, interest, users, waitMode, on, inCallback,
                   alive, history>>

\* DealRead and DealWrite: Timer::Adjust, then AddTask.
DispatchTask(e) ==
    /\ e.ev \in {"in", "out"}
    /\ Goto(Main, "dispatch", "dispatch")
    /\ due' = due \ {e.fd}
    /\ tasks' = Append(tasks, [fd |-> e.fd, op |-> IF e.ev = "in" THEN "read" ELSE "write"])
    /\ UNCHANGED <<network, sockets, interest, users, timer, waitMode, on, inCallback,
                   alive, history>>

DispatchListen(e) ==
    /\ e.ev = "listen"
    /\ Goto(Main, "dispatch", "accept")
    /\ UNCHANGED <<network, sockets, interest, users, timers, on, inCallback, tasks,
                   alive, history>>

Dispatch(e) ==
    /\ e \in batch
    /\ batch' = batch \ {e}
    /\ DispatchHup(e) \/ DispatchTask(e) \/ DispatchListen(e)

-------------------------------------------------------------------------------
(* DealListen and AddClient *)

FreeFds == {fd \in FDs : sock[fd] = NoConn}

\* accept fails: nobody is waiting, or no descriptor is left.
AcceptFails ==
    /\ backlog = <<>> \/ FreeFds = {}
    /\ Goto(Main, "accept", "dispatch")
    /\ UNCHANGED <<network, sockets, interest, users, timers, on, inCallback, batch,
                   tasks, alive, history>>

\* accept fails for another reason, though a client waits and there is room:
\* DealListen returns all the same.
AcceptError ==
    /\ backlog # <<>>
    /\ FreeFds # {}
    /\ acceptErrors < MaxAcceptErrors
    /\ acceptErrors' = acceptErrors + 1
    /\ Goto(Main, "accept", "dispatch")
    /\ UNCHANGED <<network, sockets, interest, users, timers, on, inCallback, batch,
                   tasks, alive, races>>

\* accept returns a descriptor, and there are too many clients.
TooMany ==
    /\ backlog # <<>>
    /\ FreeFds # {}
    /\ userCount >= MAX_FD

\* The connection is told so and closed, and DealListen returns.
RefuseBusy ==
    /\ TooMany
    /\ Goto(Main, "accept", "dispatch")
    /\ backlog' = Tail(backlog)
    /\ client' = [client EXCEPT ![Head(backlog)] = "new"]
    /\ unread' = [unread EXCEPT ![Head(backlog)] = 0]
    /\ UNCHANGED <<listenEdge, sock, full, interest, users, timers, on, inCallback,
                   batch, tasks, alive, history>>

\* The send of SendError may raise SIGPIPE, as that of an answer may.
RefuseKilled ==
    /\ TooMany
    /\ client[Head(backlog)] = "closed"
    /\ Goto(Main, "accept", "accept")
    /\ alive' = FALSE
    /\ UNCHANGED <<network, sockets, interest, users, timers, on, inCallback, batch,
                   tasks, history>>

Accept(fd) ==
    /\ backlog # <<>>
    /\ fd \in FreeFds
    /\ userCount < MAX_FD
    /\ Goto(Main, "accept", "init")
    /\ backlog' = Tail(backlog)
    /\ sock' = [sock EXCEPT ![fd] = Head(backlog)]
    /\ on' = [on EXCEPT ![Main] = fd]
    /\ UNCHANGED <<client, listenEdge, unread, full, interest, users, timers,
                   inCallback, batch, tasks, alive, history>>

\* HttpConn::Init.
InitUser ==
    /\ Goto(Main, "init", "register")
    /\ isClose' = [isClose EXCEPT ![on[Main]] = FALSE]
    /\ rbuf' = [rbuf EXCEPT ![on[Main]] = 0]
    /\ userCount' = userCount + 1
    /\ UNCHANGED <<network, sockets, interest, keep, timers, on, inCallback,
                   batch, tasks, alive, history>>

\* Mutant: one accept per event whatever the trigger mode.
RegisterOnce ==
    /\ Goto(Main, "register", "dispatch")
    /\ IF TimeoutOn
         THEN /\ timer' = timer \cup {on[Main]}
              /\ due' = due \ {on[Main]}
         ELSE UNCHANGED <<timer, due>>
    /\ interest' = IF sock[on[Main]] = NoConn THEN interest
                   ELSE [interest EXCEPT ![on[Main]] = "in"]
    /\ on' = [on EXCEPT ![Main] = NoFd]
    /\ UNCHANGED <<network, sockets, users, waitMode, inCallback, batch, tasks, alive,
                   history>>

\* Timer::Add, which renews the node a former client of this descriptor left
\* behind, then EPOLL_CTL_ADD, which fails on a descriptor closed meanwhile.
Register ==
    /\ Goto(Main, "register", IF ListenET THEN "accept" ELSE "dispatch")
    /\ IF TimeoutOn
         THEN /\ timer' = timer \cup {on[Main]}
              /\ due' = due \ {on[Main]}
         ELSE UNCHANGED <<timer, due>>
    /\ interest' = IF sock[on[Main]] = NoConn THEN interest
                   ELSE [interest EXCEPT ![on[Main]] = "in"]
    /\ on' = [on EXCEPT ![Main] = NoFd]
    /\ UNCHANGED <<network, sockets, users, waitMode, inCallback, batch, tasks, alive,
                   history>>

MainStep ==
    \/ \E fd \in FDs : Fire(fd)
    \/ Pop \/ TickDone \/ GetNextTick
    \/ Wait \/ EndOfBatch \/ \E e \in batch : Dispatch(e)
    \/ AcceptFails \/ AcceptError
    \/ RefuseBusy \/ RefuseKilled \/ \E fd \in FDs : Accept(fd)
    \/ InitUser \/ Register
    \/ CloseConn(Main)

-------------------------------------------------------------------------------
(* The worker threads: OnRead, OnProcess, OnWrite *)

\* Mutant: the task stays in the queue.
TakeKeepsTask(w) ==
    /\ tasks # <<>>
    /\ Goto(w, "idle", Head(tasks).op)
    /\ on' = [on EXCEPT ![w] = Head(tasks).fd]
    /\ UNCHANGED <<network, sockets, interest, users, timers, inCallback, batch, tasks,
                   alive, history>>

TakeTask(w) ==
    /\ tasks # <<>>
    /\ Goto(w, "idle", Head(tasks).op)
    /\ on' = [on EXCEPT ![w] = Head(tasks).fd]
    /\ tasks' = Tail(tasks)
    /\ UNCHANGED <<network, sockets, interest, users, timers, inCallback, batch, alive,
                   history>>

\* n units arrive in the read buffer.
Receive(fd, n) ==
    /\ unread' = [unread EXCEPT ![sock[fd]] = @ - n]
    /\ rbuf' = [rbuf EXCEPT ![fd] = IF @ + n > MaxUnread THEN MaxUnread ELSE @ + n]
    /\ UNCHANGED <<network, sock, full, interest, isClose, keep, userCount, timers,
                   on, inCallback, batch, tasks, alive, history>>

\* EBADF on a descriptor that is closed, 0 or ECONNRESET from a client that has
\* hung up: OnRead closes.  In ET mode that is so even after data.
ReadFails(w) ==
    LET c == sock[on[w]]
    IN  /\ Goto(w, "read", "del")
        /\ \/ c = NoConn
           \/ c # NoConn /\ client[c] = "closed"
        /\ UNCHANGED <<network, sockets, interest, users, timers, on, inCallback, batch,
                       tasks, alive, history>>

\* HttpConn::Read in ET mode: everything up to EAGAIN.
ReadAll(w) ==
    LET c == sock[on[w]]
    IN  /\ ConnET
        /\ Goto(w, "read", "process")
        /\ c # NoConn
        /\ client[c] = "open"
        /\ Receive(on[w], unread[c])

\* In LT mode one readv: some of what is there; nothing is EAGAIN.
ReadSome(w) ==
    LET c == sock[on[w]]
    IN  /\ ~ConnET
        /\ Goto(w, "read", "process")
        /\ c # NoConn
        /\ \/ /\ client[c] = "open"
              /\ unread[c] = 0
              /\ Receive(on[w], 0)
           \/ \E n \in 1..unread[c] : Receive(on[w], n)

\* HttpConn::process with nothing in the read buffer.
ProcessNothing(w) ==
    /\ Goto(w, "process", "modIn")
    /\ rbuf[on[w]] = 0
    /\ keep' = [keep EXCEPT ![on[w]] = FALSE]
    /\ UNCHANGED <<network, sockets, interest, isClose, rbuf, userCount, timers, on,
                   inCallback, batch, tasks, alive, history>>

\* HttpConn::process: Parse takes n units.  It may take none, when the request
\* line is refused or is not complete; it then knows no Connection header.
Process(w) ==
    /\ Goto(w, "process", "modOut")
    /\ rbuf[on[w]] > 0
    /\ \E n \in 0..rbuf[on[w]], keepAlive \in BOOLEAN :
        /\ keepAlive => n > 0
        /\ rbuf' = [rbuf EXCEPT ![on[w]] = @ - n]
        /\ keep' = [keep EXCEPT ![on[w]] = keepAlive]
    /\ UNCHANGED <<network, sockets, interest, isClose, userCount, timers, on, inCallback,
                   batch, tasks, alive, history>>

\* Mutant: after an answer the connection is not armed again.
ModForgotten(w) ==
    /\ pc[w] \in {"modIn", "modOut"}
    /\ Goto(w, pc[w], "idle")
    /\ interest' = IF interest[on[w]] = "none" \/ pc[w] = "modIn" THEN interest
                   ELSE [interest EXCEPT ![on[w]] = "out"]
    /\ on' = [on EXCEPT ![w] = NoFd]
    /\ UNCHANGED <<network, sockets, users, timers, inCallback, batch, tasks, alive,
                   history>>

\* Epoller::ModFd; it fails for a descriptor that is not in the set.
ModFd(w) ==
    /\ pc[w] \in {"modIn", "modOut"}
    /\ Goto(w, pc[w], "idle")
    /\ interest' = IF interest[on[w]] = "none" THEN interest
                   ELSE [interest EXCEPT ![on[w]] = IF pc[w] = "modIn" THEN "in" ELSE "out"]
    /\ on' = [on EXCEPT ![w] = NoFd]
    /\ UNCHANGED <<network, sockets, users, timers, inCallback, batch, tasks, alive,
                   history>>

\* OnWrite when everything has been sent.
WriteDone(w) ==
    LET c == sock[on[w]]
    IN  /\ Goto(w, "write", IF keep[on[w]] THEN "process" ELSE "del")
        /\ c # NoConn
        /\ ~full[c]
        /\ UNCHANGED <<network, sockets, interest, users, timers, on, inCallback, batch,
                       tasks, alive, history>>

\* EAGAIN.
WriteBlocks(w) ==
    LET c == sock[on[w]]
    IN  /\ Goto(w, "write", "modOut")
        /\ c # NoConn
        /\ full' = [full EXCEPT ![c] = TRUE]
        /\ UNCHANGED <<network, sock, unread, interest, users, timers, on, inCallback,
                       batch, tasks, alive, history>>

\* OnWrite closes: writev has failed, or has sent something or nothing at all
\* with bytes left over (LT mode; a stale second iovec).
WriteGivesUp(w) ==
    /\ Goto(w, "write", "del")
    /\ UNCHANGED <<network, sockets, interest, users, timers, on, inCallback, batch,
                   tasks, alive, history>>

\* SIGPIPE is not ignored: writing to a client that is gone may be the end.
Killed(w) ==
    LET c == sock[on[w]]
    IN  /\ Goto(w, "write", "write")
        /\ c # NoConn
        /\ client[c] = "closed"
        /\ alive' = FALSE
        /\ UNCHANGED <<network, sockets, interest, users, timers, on, inCallback, batch,
                       tasks, history>>

WorkerStep(w) ==
    \/ TakeTask(w)
    \/ ReadFails(w) \/ ReadAll(w) \/ ReadSome(w)
    \/ ProcessNothing(w) \/ Process(w) \/ ModFd(w)
    \/ WriteDone(w) \/ WriteBlocks(w) \/ WriteGivesUp(w) \/ Killed(w)
    \/ CloseConn(w)

Next == Environment \/ MainStep \/ \E w \in Workers : WorkerStep(w)

SafeSpec == Init /\ [][Next]_vars

\* The threads are scheduled; the clients and the clock owe the server nothing.
Spec == SafeSpec /\ WF_vars(MainStep) /\ \A w \in Workers : WF_vars(WorkerStep(w))

-------------------------------------------------------------------------------
(* Safety *)

\* EPOLLONESHOT makes one party at a time own a connection: the epoll set, the
\* events to be handled, the task queue, one worker, or the main thread while
\* it accepts or closes it.  Only a timer callback can break this.
SingleOwner ==
    races = 0 => \A fd \in FDs :
        /\ Armed(fd) => ~InUse(fd) /\ (InMain(fd) => pc[Main] = "del")
        /\ InMain(fd) => ~InUse(fd)
        /\ InBatch(fd) => ~Queued(fd) /\ ~Working(fd)
        /\ Queued(fd) => ~Working(fd)
        /\ \A i, j \in DOMAIN tasks : tasks[i].fd = fd /\ tasks[j].fd = fd => i = j
        /\ \A v, w \in Workers : on[v] = fd /\ on[w] = fd => v = w

\* No connection is forgotten: whatever is accepted and not yet closed is armed
\* or in somebody's hands, on every path through the handlers.
NoneForgotten ==
    races = 0 => \A fd \in FDs :
        sock[fd] # NoConn => Armed(fd) \/ InUse(fd) \/ InMain(fd)

\* Nobody works on a connection that has been closed under him, so that no
\* handler reads, writes or closes a descriptor that accept has given to
\* another client.
NoStaleWork ==
    races = 0 => \A fd \in FDs : InUse(fd) => sock[fd] # NoConn

\* userCount, which DealListen compares with MAX_FD, counts the open users: the
\* unlocked test of isClose in HttpConn::Close never lets two threads through.
CountExact ==
    races = 0 => userCount = Cardinality({fd \in FDs : ~isClose[fd]})

\* The server has room for all the clients, so that DealListen is not cut off.
HasRoom ==
    /\ IsFiniteSet(Conns)
    /\ Cardinality(Conns) <= Cardinality(FDs)
    /\ Cardinality(Conns) <= MAX_FD

\* The main thread never goes to sleep on a client it would not be told of: when
\* epoll_wait begins and a client waits, the listening socket is going to be
\* reported, in ET mode too, where that happens once for any number of arrivals.
\* Only an error of accept, at which DealListen returns early, can strand a client.
BacklogSeen ==
    /\ races = 0 /\ acceptErrors = 0 /\ HasRoom
    /\ pc[Main] = "wait" /\ backlog # <<>>
    => ListenReady # {}

\* Timer::Adjust asserts that the id has a node.  It has one whenever an event
\* is dispatched, whatever the timers and the workers have done meanwhile.
NodeForEvent ==
    TimeoutOn => \A e \in batch : e.ev \in {"in", "out"} => e.fd \in timer

\* With timers on, even a connection that a race has left without an owner is
\* reaped: an open descriptor has a node, or somebody is about to close it.
AlwaysReapable ==
    TimeoutOn => \A fd \in FDs : sock[fd] # NoConn =>
        \/ fd \in timer
        \/ InMain(fd) /\ pc[Main] \in {"init", "register"}
        \/ \E a \in Actors : pc[a] = "close" /\ on[a] = fd

\* The server uses the timer as module ExpirySet allows: the callback runs for
\* an expired node and is followed by the Pop of that node and no other, although
\* CloseConn, the events and AddClient touch the same descriptor meanwhile.
Firing == IF inCallback THEN {on[Main]} ELSE {}

TimerPromise == INSTANCE ExpirySet WITH
    Ids <- FDs, nodes <- timer, due <- due, firing <- Firing, waitMode <- waitMode

ImplementsExpirySet == TimerPromise!Spec

(* Liveness *)

Pending(c) == \E i \in DOMAIN backlog : backlog[i] = c

\* An accepted client that hangs up is released: its descriptor is closed.
HangUpReleases ==
    \A c \in Conns :
        client[c] = "closed" /\ ~Pending(c) ~> client[c] = "new" \/ ~alive

\* What a client sends is read, or its connection closed, unless it does not
\* take its answers.
RequestRead ==
    \A c \in Conns :
        unread[c] > 0 /\ ~Pending(c) ~> unread[c] = 0 \/ full[c] \/ ~alive

\* A waiting client is accepted or refused while there are descriptors, although
\* accept may fail now and then.
BacklogServed ==
    \A c \in Conns :
        Pending(c) /\ FreeFds # {} ~> ~Pending(c) \/ FreeFds = {} \/ ~alive

\* An expired node is fired or renewed, unless GetNextTick has let epoll_wait
\* block for ever.
ExpiredFires ==
    \A fd \in FDs :
        fd \in due ~> fd \notin due \/ ~alive \/ (pc[Main] = "wait" /\ waitMode = "forever")

\* timer.cpp: Tick clears the expired nodes.  It does not hold.
ExpiredAlwaysFires ==
    \A fd \in FDs : fd \in due ~> fd \notin due \/ ~alive
===============================================================================
