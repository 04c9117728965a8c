# TryWebServer in TLA+

A formal model of TryWebServer: a C++ HTTP server built from a one-thread
reactor, a pool of worker threads, a heap of timers, a pool of MySQL connections
and an asynchronous log, and the pages it serves. The modules are written from
the code under `src/code/` and from the scripts under `src/resources/js/`; TLC
checks them on small instances, and TLAPS proves the central safety properties
for every number of threads, descriptors and clients, every site and every page.

* [The system](#1-the-system): parts, state, operations, interactions
* [What is hard in it](#2-what-is-hard-in-it)
* [The modules](#3-the-modules): which module stands for which code
* [The runs](#4-the-runs): what each checks, with which bounds
* [Fairness](#5-fairness)
* [The proofs](#6-the-proofs)
* [What the model says of the code](#7-what-the-model-says-of-the-code)
* [What is not modelled](#8-what-is-not-modelled)
* [Plan](#9-plan)

## 1. The system

`main` reads a JSON configuration, builds a `WebServer` and calls `Start`. From
then on there are three kinds of threads: the main thread in `Start`, the
workers of the thread pool, and the thread of the log.

```
 clients ──accept──▶ WebServer::Start (main thread) ──AddTask──▶ ThreadPool
    ▲                  │   ▲    ▲                                   │ OnRead,
    │                  │   │    └─ Epoller (EPOLLONESHOT)           │ OnProcess,
    │            Timer ┘   └──────────── ModFd ◀────────────────────┤ OnWrite
    │     (callback = CloseConn)                                    ▼
    └──────────────────────── writev ─────────────────────────── HttpConn
                                                                 │  Buffer ×2
                             Log ◀── LOG_* of every thread       │  HttpRequest ─▶ SqlConnPool
                             (BlockDeque, log thread)            └  HttpResponse (mmap)
```

| Component | Code | State | Operations | Correct when |
|---|---|---|---|---|
| Reactor | `server/web_server.cpp`, `epoller.cpp` | `w_users` (an `HttpConn` per descriptor), the epoll set, `userCount` | `Start`, `DealListen`, `DealRead`, `DealWrite`, `AddClient`, `CloseConn`, `ExtentTime`, `OnRead`, `OnProcess`, `OnWrite` | one thread at a time has a connection; none is forgotten; none is closed twice; a client that waits, sends or leaves is noticed |
| Timer | `timer/timer.cpp` | the heap `t_heap`, the places `t_ref` | `Add`, `Adjust`, `DelWork`, `Tick`, `Pop`, `GetNextTick` | `t_ref` is the inverse of the heap; the front expires first; an expired node is cleared |
| ThreadPool | `pool/thread_pool.h` | `isClosed`, `tasks`, a mutex and a condition variable | constructor (worker loop), `AddTask`, destructor | each task runs once, in order; no wake-up is lost; the destructor drains the queue |
| SqlConnPool | `pool/sql_conn_pool.cpp`, `sql_conn_RAII.h` | `s_connQue`, a mutex, a semaphore | `Init`, `GetConn`, `FreeConn`, the RAII object | the semaphore counts the queue; a connection has one user |
| HttpConn | `http/http_conn.cpp` | `isClose`, two iovecs, two buffers, request, response | `Init`, `Read`, `process`, `Write`, `Close` | the bytes written are the answer, whatever `writev` takes at a time |
| HttpResponse | `http/http_response.cpp` | code, path, the mapping of the file | `Init`, `MakeResponse`, `UnmapFile` | the mapping is released once, and not while it is used |
| HttpRequest | `http/http_request.cpp` | state of the parser, header, form | `Init`, `Parse`, `IsKeepAlive`, `UserVerify` | requests are answered one by one, as what they are, however TCP cuts them up; a login, with texts that SQL reads as they are written, succeeds only with a registered password, and a name is registered once |
| Log | `log/log.cpp`, `block_queue.h` | file, day and line counters; the queue | `Write`, `Flush`, `AsyncWrite`, `~Log`; `Push_back`, `Pop`, `Flush`, `Close` | each line is written once and in order; nobody writes to a closed stream; the exit loses no line |
| Buffer | `buffer/buffer.cpp` | bytes, read and write positions | `Append`, `Retrieve…`, `ReadFd`, `AdjustSpace` | what is retrieved is what was appended |
| Page scripts | `resources/js/custom.js`, `smoothscroll.js`, `magnific-popup-options.js` | jQuery's ready list, handlers and effects queues, the menu, the preloader | loading, clicks, scrolling, the menu | each link leads somewhere, and to where the last click says; the preloader goes |
| Configuration, `main` | `config/`, `main.cpp` | – | – | – |

How they interact:

* *Main thread to workers*: `DealRead` and `DealWrite` queue closures over a
  **pointer to an `HttpConn`**. Nothing locks the object. A worker gives the
  connection back by arming its descriptor (`ModFd`); until then EPOLLONESHOT
  keeps epoll from reporting it.
* *Timer to reactor*: the callback of a node is `CloseConn`, run by the main
  thread inside `Tick`, inside `GetNextTick`, before `epoll_wait`. It does not
  ask who has the connection.
* *Reactor to timer*: `AddClient` calls `Add`, each event calls `Adjust`.
  Closing a connection by an event leaves its node in the heap.
* *Workers to the connection pool*: `UserVerify` in `Parse`.
* *TCP to `Parse`*: `Read` puts into the read buffer what has arrived, and `process`
  parses what it finds there from the beginning. Nothing says where a request ends.
* *The scripts to each other*: through jQuery alone. The order of the `<script>` elements is
  the order of the ready list, and that is the order in which a click is handled; an
  exception in one takes the rest of its list with it.
* *Everybody to the log*: `Write` under `l_mutex`, which pushes to a queue with a
  mutex of its own; the log thread pops from it and writes under `l_mutex`.

## 2. What is hard in it

`PROJECT.json` lists the hazards with the line at which each bites. In short:

* **Ownership without locks.** Events, tasks, handlers, timer callbacks and the
  reuse of descriptor numbers by `accept` interleave around unlocked objects.
* **Events that come once.** EPOLLONESHOT and EPOLLET make every path through a
  handler responsible for the next event.
* **Lost wake-ups and shutdown**, three times: in the pool, in the log queue and
  in the semaphore of the connection pool.
* **Partial writes** over two iovecs, with state that outlives the client.
* **A cached place in a heap** (`t_ref`) that every swap has to maintain, and
  unsigned time.
* **Requests that come in pieces or joined**, in a parser that starts anew with every call and in
  a buffer that grows, or moves over itself, in the middle of a read.
* **Scripts that fail to arrive**, and two of them that handle the same click.
* **Checks before a lock**: `s_connQue.empty()`, `isClose`, the test for a new log file.
* **Two statements that belong together**: a registration is a SELECT and an INSERT, and the text of both is
  put together from what the client sent.

## 3. The modules

| Module | Stands for | Remarks |
|---|---|---|
| `TaskPool` | what `ThreadPool` promises | abstract FIFO pool: tasks are queued, started in order, finished |
| `ThreadPool` | `pool/thread_pool.h` | mutex, wait set, spurious wake-ups, destructor; implements `TaskPool` |
| `ThreadPoolProofs` | | proofs about `ThreadPool` |
| `WebServer` | `server/*`, with the calls of `HttpConn` and `Timer` | the core: all threads, epoll, accept queue, descriptors, timers, clients; uses `ExpirySet` as promised |
| `WebServerProofs` | | proofs about `WebServer` |
| `ExpirySet` | what `Timer` promises to the reactor | ids with a node, those that have expired, the callback that runs |
| `Timer` | `timer/timer.cpp` | the heap, position by position; implements `ExpirySet` |
| `SqlConnPool` | `pool/sql_conn_*`, `HttpRequest::UserVerify` | queue, semaphore, the table of users |
| `Buffer` | `buffer/buffer.cpp` | operators on a vector with two positions |
| `HttpRequest` | `http/http_request.cpp`, with the reads and the loop of `HttpConn` and `WebServer` around it | one client's bytes, from the socket to the answers; uses `Buffer` |
| `HttpConn` | `http/http_conn.cpp`, `http_response.cpp`, the write buffer as it is used | one connection object over several clients |
| `AsyncLog` | `log/log.cpp`, `block_queue.h` | writers, log thread, destructor |
| `PageScripts` | the three scripts of the site | a page, its browser and its user |
| `TimerProofs`, `SqlConnPoolProofs`, `HttpRequestProofs` (with the theorems about `Buffer`), `HttpConnProofs`, `AsyncLogProofs`, `PageScriptsProofs` | | proofs about these modules |
| `MC…` | | model values and symmetry for TLC |

The layers fit through two abstract specifications. `WebServer` holds the task
queue as a sequence from which workers take the head: that is `TaskPool`, which
`ThreadPool` implements (run `MCThreadPool`, theorem `Refinement`). It holds the timer as two sets: that is `ExpirySet`;
`Timer` implements it (run `MCTimer`, theorem `HeapImplementsExpirySet`), and the way `WebServer` uses it is
shown to be one that it allows (run `MCServerTimer`, theorem
`UsesTimerAsPromised`). `ExpirySet` also records the promise that is *not* made:
that `GetNextTick` never blocks while an expired node waits.

### WebServer

A thread is at a place `pc[a]` and has at most one descriptor `on[a]` in its
hands. A step is one system call or one access to shared state, so that every
interleaving the code has is there:

| Actions | Code |
|---|---|
| `Fire`, `Pop`, `TickDone`, `GetNextTick` | `Timer::Tick`, `GetNextTick`; `Fire` enters `CloseConn` |
| `Wait`, `EndOfBatch`, `Dispatch` | `Start`: `epoll_wait` and the loop over its events, in any order |
| `AcceptFails`, `AcceptError`, `RefuseBusy`, `RefuseKilled`, `Accept`, `InitUser`, `Register` | `DealListen`, `SendError`, `AddClient`, `HttpConn::Init` |
| `DelFd`, `CheckClose`, `MarkClosed`, `CloseFd` | `CloseConn`, `HttpConn::Close`, by any thread |
| `TakeTask` | the pool calls `OnRead` or `OnWrite` |
| `ReadFails`, `ReadAll`, `ReadSome` | `OnRead`, `HttpConn::Read` in ET and LT mode |
| `ProcessNothing`, `Process`, `ModFd` | `OnProcess` |
| `WriteDone`, `WriteBlocks`, `WriteGivesUp`, `Killed` | `OnWrite`, `HttpConn::Write` |
| `Connect`, `Send`, `Drain`, `HangUp`, `Expire` | clients and clock |

`interest[fd]` is the epoll set: `"off"` is a descriptor in the set that
EPOLLONESHOT has disarmed. Expired nodes are the set `due`; the order among
them is the business of `Timer`. `races` is a history variable: it counts the
times a timer has fired on a connection in use. The properties that the code
guarantees *only while that does not happen* say so (`races = 0 => …`); `acceptErrors` does the same for an `accept` that
fails on a client that waits. The properties
that must survive the race (`TypeOK`, `NodeForEvent`, `AlwaysReapable`,
`ImplementsExpirySet`) have no such condition. With timers on the race is possible in the code:
a request that takes longer than the timeout is closed under its worker.

### HttpConn

One connection object and the file it answers with, from one client to the next.
A head has `HeadLen` units, each file as many as the site says. `Sent` is one
`writev` that takes any number of units, with the bookkeeping of
`http_conn.cpp:74-90`; `got` is what the client has received, `want` what was
announced. Memory is named: an iovec points into the buffer or into mapping
number *k*, and `IovecsExact` says, with the lengths, that mapping *k* is still there. `Garbage` is
the set of values the uninitialised length of `iov[1]` can have.

### Buffer and HttpRequest

`Buffer` is the vector with its two positions and the operators that change them, as functions
on records; `ReadFd` is given what `readv` returned. `HttpRequest` instantiates it for one client:
`Send` moves any part of the client's stream to the socket, `Read` is one
`readv`, `Process` is the start of `HttpConn::process`, and each of `ParseRequestLine`,
`BadRequestLine`, `ParseHeader` and `ParseBody` is one turn of the loop in `Parse` in that
state, with the retrieval at its end. `Answer` is the rest, up to the decision of `OnWrite`. A
symbol is a part of a line that the code does not look into (a method, a path with the spaces and the `HTTP/` around it, a
name, a colon, a key of the form): it has a kind and says one of the `Words`. CR and LF are symbols of their own,
so that a piece can end between them. The regular expressions are
predicates on sequences of symbols: a request line is one with exactly two spaces, the second in front of `HTTP/`, and whatever
stands before the first is its method (`Method`). A conversation is a sequence of members of `Request`; none of them asks for a path
`400`, the mark of that answer in `answers`.

### PageScripts

`Run(s, …)` is the browser at script *s*: it arrives and leaves its callback, or it
does not. `Ready` runs jQuery's ready list up to the first exception; `Load` and `Faded` are
the preloader. A click is one step: `Dispatch` takes its `Outcome` (the effects queues, the
menu, whether the default is prevented, whether something threw) through the
handlers in the order in which they are bound, and `Click` does what the browser does
with it. `Frame` is a tick of an animation. jQuery, Bootstrap, Magnific Popup and the browser
are external; what they do is modelled as these scripts use them.

### AsyncLog, SqlConnPool, Timer, ThreadPool

Each follows its code statement by statement, with a lock held being a variable
that names its holder. In `AsyncLog` a line is its number in
the order of `Write`'s critical sections; `Exit` is the thread that runs `~Log`. In `SqlConnPool` the table of users is a
set of rows, and a SELECT or an INSERT is one step. `Quoted` has the names and passwords that SQL does not read as they are written: what a
SELECT with one of them answers, and what an INSERT with one stores, is anything (`FetchedFlag`; from `tampered` on the table is not known any more).
`unchecked` remembers a registration that has gone on to its INSERT beside another one of its name, or without a result of its SELECT.
A request comes from `Asked`; a name stands for all the spellings that the table's collation takes for the same. `Timer`
keeps the heap as a sequence and `t_ref` as a function. One turn of the loop of `ShiftUp` or `ShiftDown` is one
step, and so is each part of `Del` and of `Tick`: `pc` says what goes on, `caller` for whom, `index` where the shifting began and
`at` where the node is by now. Only the main thread uses the timer, so that these steps interleave with the clock alone.

## 4. The runs

All passing runs are exhaustive within their bounds.

| Run | Question | Instance |
|---|---|---|
| `MCServerNoTimer` | Has a connection one owner at a time; is one forgotten, or used after it was closed; is the count exact; is a waiting client overlooked? | 2 workers, 2 descriptors, 2 clients, ET, no timers, one `accept` that fails |
| `MCServerTimer` | With timers that fire at any moment: has an event always a node, can an open descriptor always be reaped, is the timer used as it promises, and is an expired node cleared? | 2 workers, 1 descriptor, 1 client that comes again, LT, one race |
| `MCServerLive` | Is a client that hangs up released, a request read, a waiting client served although the server is full and `accept` may fail? | 1 worker, 2 descriptors, `MAX_FD` 1, 2 clients, level-triggered listening |
| `MCThreadPool` | Lost wake-ups? Does the destructor end? Does it implement `TaskPool`? | 3 workers, 2 callers, 4 tasks |
| `MCTimer` | Is `t_ref` exact, and does the heap implement `ExpirySet`? | 4 ids, a clock that may be set back once |
| `MCSqlConnPool` | Semaphore and queue, connections, logins and registrations; does every call return? | 2 threads, 1 or 2 connections, each of which may have failed, 3 calls, 2 names (one of them SQL does not read as written), 2 passwords |
| `MCConn` | Is the stream the announced answer, over all partial writes, and the memory behind it there and given back? | ET and LT, 8 names, a head of 2 units, 3 answers |
| `MCHttpRequest` | Does the read buffer keep the stream, are requests answered one by one (with the rest of a cut form in front of one, too), and is a whole one parsed as what it is? | ET and LT, 6 conversations of one to three requests, in all pieces |
| `MCAsyncLog` | Lines once, in order, none lost at exit; is the stream open under the lock, and the file that of `l_toDay`; does each line reach a file, and what can keep the exit waiting? | 2 writers, 4 lines, a queue of 2, 2 days, 2 lines a file |
| `MCPageScripts` | Whichever scripts fail: where does a click lead, do animations pile up, does the preloader go? | 6 links, 2 families of browsers, pages with and without their images |

Two more runs (`MCServerTickBlocks`, `MCSqlExclusiveUse`) each check one
statement of the repository about itself that the code does not keep (section 7).

Bounds, and why they are enough for what is asked:

* `WebServer.MaxUnread` 1: the properties tell an empty socket or buffer from a
  non-empty one. `MaxRaces` 1: one callback under a running handler is what the
  race needs; a second repeats it. `MaxAcceptErrors` 1 (0 in `MCServerTickBlocks`): one error is what strands a client. A client that comes again makes the number of
  its descriptor be reused (with two clients beside each other the theorems of section 6 speak of the same properties);
  two descriptors make the events come in a batch; two workers make two handlers run at once. `MAX_FD` 1 with a second
  descriptor is the full server. Expiry and clients are not bounded otherwise: a
  closed client may come again, so the runs have no last step. `BacklogSeen` is stated for a
  server with room for its clients, as in `MCServerNoTimer`; section 7 says what happens without.
* `ThreadPool`: three workers, so that one sleeps while one runs and one is between the
  test and the wait; four tasks from two callers, so that all of them are busy and
  one task waits.
* `Timer`: four ids give a heap of three levels with both children and a single child.
  `PerMs` 2 keeps two clock readings in one millisecond; `MaxNow` 4 is twice the timeout, so that
  nodes of two generations meet. `MaxBack` 1: references must survive a
  clock that is set back; the order, and with it the promise, cannot.
* `SqlConnPool`: the run covers a pool that is large enough, one that is too small and
  ones with failed connections, chosen in `PoolInit`. `MaxCalls` counts calls of `UserVerify`: three are two
  at once and one after, as in two registrations and a login that finds what they have left. `MCAsked` has every request, except that the name in `Quoted` comes with one password:
  what is asked then does not depend on it. In `MCSqlExclusiveUse` six let the pool grow to where two threads share.
* `HttpConn`: `Rest` stands for the 10240 bytes `Write` compares with in LT mode; with it come pages that are
  empty, no longer than it, and longer. `MaxAnswers` 3 gives an answer with a file, one without, and one
  after it, to one client or to several.
* `HttpRequest`: `InitSize` 10 and `StackSize` 5 are shorter than a request and a joined pair, so that the array is
  filled, the vector grows, and what is readable is moved to its beginning. The conversations have a form
  before, between and behind other requests, an empty password, a POST without a form, paths with and without a suffix, and connections that are kept and not.
* `PageScripts`: the links are of each kind that the handlers tell apart (to a page, to a
  section, to none; of the menu, of the logo, elsewhere). `Places` 0 and 51 are the two sides of the test in the scroll
  handler. One section is above, one below the end of the page.
* `AsyncLog`: `MaxLines` is more than the queue and a file hold, so that both overflow.
  `MaxDay` 1 is one midnight.

Symmetry is used only in runs without liveness, over interchangeable workers, descriptors,
clients, threads or ids. `CHECK_DEADLOCK FALSE` is in every configuration: the
pool, the log and the connection pool end when their work is done, a server that SIGPIPE has killed
stays so, and a server with no client has nothing to do (the clients owe it nothing).

Every property of a passing run has a mutant in the module, a definition that is the code with one
plausible slip (a dropped test, an order swapped, a missing reset); with it in place
of the original, TLC finds the property violated.

## 5. Fairness

The threads are fair, the world is not. `Spec` of `WebServer` has weak fairness of
the main thread and of each worker: the operating system schedules a thread that
can run. Each of these threads runs a loop in which at most one choice is not its own (what
the network answers), so weak fairness of the whole thread is what scheduling justifies; none is assumed for single
branches. There is none for clients (`Connect`, `Send`, `Drain`, `HangUp`) nor for `Expire`:
nothing obliges a client to read its answer or a clock to reach a time, and the
properties are stated so that they do not need it (`RequestRead` excepts the client that does
not take its answer). The liveness properties are about a process that lives: `Killed` ends the obligations.

`ThreadPool`, `SqlConnPool` and `AsyncLog` assume weak fairness of each thread as well, and nothing of
the rest of the program: nobody has to add a task, to call `UserVerify`, to log or to end the process. `PageScripts` has weak fairness
of the browser that loads the page, and none for the user or the images; `HttpConn` and `HttpRequest` have no liveness and no fairness. `sem_wait` and the mutexes are not fair
between the threads that contend for them, and no strong fairness is assumed; the calls that compete are bounded.

## 6. The proofs

`tlapm` checks eight modules of proofs. All theorems are for every value of the constants that
satisfies the `…Assumption` of the module, which asks for finite sets of threads and descriptors,
for model values that differ, for numbers and sequences where the code has them, and nothing about sizes.

**ThreadPoolProofs.** `TypeCorrect`, `NoLostWakeup` (`WorkConserving`), `RunsOnce`
(`ExactlyOnce`), `DrainsOnClose` (`NothingAbandoned`), and `Refinement`: the initial states and
every step of `ThreadPool` map to `TaskPool`. The inductive invariant `IInv` joins the properties
and adds two facts they lean on: a worker holds a closure exactly while it runs it
(`JobWhileRunning`), and the flag is raised only by the destructor (`ClosedByOwner`). The heart is
`WorkConserving`: while somebody sleeps, the queued tasks never outnumber the workers awake and the
callers that have pushed and not yet notified. `Take` lowers both sides, `NotifyOne` turns a caller into a
worker awake, and a worker falls asleep only on an empty queue.
`ExactlyOnce` and `NothingAbandoned` are proved and have no run of their own: TLC checks `ImplementsTaskPool`,
which says the same of the abstract queue.

**WebServerProofs.** `TypeCorrect`; for behaviours with `races = 0`, `OneOwner` (`SingleOwner`),
`NothingForgotten`, `NoStaleHandler`, `CountIsExact`, `WaitingClientIsSeen`; and without that condition `EventsHaveNodes`,
`OpenIsReapable` and `UsesTimerAsPromised`. The inductive invariant `Inv` is a chain in which each
link uses the ones before it:

* `Placed`: where each thread can be and when it has a descriptor; the batch is empty outside of
  the loop over the events.
* `Noded`: what is in the epoll set is open and has a node, and so has each event of the batch. A node goes
  only in `Pop`, whose callback has taken the descriptor out of the set, and `Tick` runs only when the
  batch is empty. It gives `EventsHaveNodes`.
* `Reaped`: a closed `HttpConn` has no descriptor, or one that is just being accepted or closed; with it
  `AlwaysReapable` is inductive.
* `Owned`: `OwnedFd` is `SingleOwner`, `NoneForgotten` and `NoStaleWork` together, none of which is inductive alone: a
  worker that closes would free a descriptor that somebody else owns, and `accept` would return one
  that is still in use. `RegisteredFd` adds that whoever has a descriptor finds it still in the epoll
  set, so that `ModFd` does not fail and hands it back.
* `Counted`: a closed descriptor has a closed user, a thread that has passed the test of `isClose` finds the user
  open until it marks it, and `userCount` is the cardinality of the open users. It needs `Owned`: two threads
  in `CloseConn` would both pass the test.
* `Apart`: a client is behind one descriptor, or once in the accept queue, or neither, and has then connected. It holds whatever the timers do.
* `Heard`: in ET mode, with room for all (`HasRoom`) and no error of `accept` so far, a waiting client is news to `epoll_wait`, or the event of the listening
  socket is still in the batch, or the loop of `DealListen` runs. `accept` can then stop only at an empty queue: the lemma
  `RoomForHead` counts, with `Apart`, the clients behind descriptors as other ones than the one that waits, and with `Counted` the open users as
  at most those, so that a descriptor is free and `userCount` is below `MAX_FD`. It gives `WaitingClientIsSeen` (`BacklogSeen`).

The condition `races = 0` matters only in `Fire`, which is the only step that gives a
descriptor to a party without taking it from another.

**SqlConnPoolProofs.** `TypeCorrect` and `PoolIsExact` (`PoolExact`) from `IInv`, which adds to the two of them that
whoever has a statement running has asked for it in full (`AskedInFull`). `AccountsSound` (`AccountsAreSound`) needs more. Until two threads
share a connection, the result that a thread reads is its own (`OwnResult`). While the table is known, the flag that says *found* is right at the
moment of the SELECT and stays so (`FlagSound`), because the statements of `UserVerify` take no row away. And until a registration has gone on
unchecked, the name of a thread in front of its INSERT is not in the table and no other thread is there with it (`NamesFree`).
`SelectFetches` says what the loop over the rows comes to. `EnoughConnections` (`NeverBusy`)
is a pigeonhole: a thread that asks has no connection in its hands, so that of at least as many connections as threads one is left
in the queue (`OneIsLeft`).

**TimerProofs.** `ReferencesAreExact` (`RefExact`): `t_ref` is the inverse of the heap after every swap, whatever the clock does.
`HeapImplementsExpirySet` (`ImplementsExpirySet`): until the clock is set back, the initial states and every step of `Timer` map to
`ExpirySet`, for any number of ids, any timeout and any resolution of the clock. The inductive invariant adds to `RefExact` where an
operation can be (`Placed`) and the order of the heap while a node is on its way (`HeapOrder`): each node is not earlier than its
parent, except for the one at `at`, whose parent is in turn not later than its children, so that the next swap does not
break what the last one has mended. `Add` and `Adjust` need `NoneLater`: timeouts are all alike, so that a
new expiry belongs at the end and what is adjusted only ever sinks. `FrontIsFirst` then takes the least place with a node earlier than the front,
whose parent would be one as well; with it `Tick`, which looks at the front alone, leaves no expired node behind.

**HttpRequestProofs.** First theorems about the operators of `Buffer`, for every cell type, content, size of the vector and of the array: a
new buffer is empty (`NewIsEmpty`), `Append` and `ReadFd` put their bytes behind what is readable (`AppendIsPut`,
`ReadFdIsPut`), and `Retrieve` takes from its front (`RetrieveIsTake`). The lemma under them is `AdjustHolds`: whether the vector grows or what is
readable moves over itself, the contents are the same and there is room.

`QueueOfSymbols` (`BufferIsQueue`): for every client, every cut of what it sends, every size of vector and array
and both event modes, what is readable, what waits in the socket and what is not sent yet are the rest of the client's stream behind what
`Parse` has taken. It rests on those theorems and on `LineEnds`: whichever line `Parse`
finds, it never retrieves more than is readable, its CRLF included, which `Buffer::Retrieve` demands with an `assert`.

`PagesAreRequests` (`AnswersAreRequests`) and `WholeRequestIsParsed` (`WholeIsParsed`) follow `Parse` along the stream. The
stream is what the requests come to one behind the other (`StreamIsCut`, with `Ends` where each of them ends), and a request is lines of five
symbols, an empty line and perhaps a form (`WireShape`), whose symbols are neither a CR nor a method. The invariant `PInv` says
what `Parse` knows at each place. Between two requests (`Follows`) either the request that is due comes next, with at most a part of its method gone and
with at most the rest of a cut form, or of a cut empty line, in front of it (`OnAt`); or the line ends before there is a path (`LostAt`), so that the next answer is 400 and the last. In front of header line *j* it knows what the lines before *j* have
said and nothing of an earlier request (`AtHeaders`), and the method, unless something of another request stood in front of it; at the body it knows the header (`AtBody`); at the answer it has either
the path of the request that is due, or no `Connection` header, with which `IsKeepAlive` is false (`AtAnswer`). What makes it inductive is that
the code takes whole lines or everything. A piece that ends inside a form is taken to its end, and what is left of the form has neither a path nor a CR:
it can only become a part of the next method. A piece that ends inside another line stays in the buffer, where the next call takes it for a request line
that it is not. For a request that is in the buffer alone and in full, `IsWhole` adds that it ends where the buffer ends.

**HttpConnProofs.** `TypeCorrect`, `StreamIntact` (`IntactStream`), `IovecsAreExact` (`IovecsExact`) and
`OnlyOddFilesLeak` (`NothingLeaked`), for every site and every choice of what `writev` takes. The invariant is that
what the client has and what the iovecs offer together are what was announced, `want = got \o Offered` (`Flow`), with
the pointers at the rest of buffer and file (`Pointing`); between two answers nothing is left in the buffer (`Settled`), which is what
the next answer relies on. The lemma `AdvanceOffers` shows that the arithmetic of `http_conn.cpp:74-90` takes exactly the units that were sent off the
front of the offer, in each of its two branches. Mappings and descriptors have an invariant of their own (`Odd`).

**AsyncLogProofs.** `LinesAreSafe` (`LinesInOrder`) and `FileTurnsSafely` (`FileTurns`). The invariant joins who may hold
`l_mutex` and what has to be true at the end of the process (`Control`), where each line is (`Lines`: out of the file, the queue, a
hand and a writer, each once, and in order as long as no line has gone past a full queue), when the stream is open (`Stream`) and
that it is the file of `l_toDay` unless two writers have turned it at once (`Day`). TLC checks the same invariant on its instance. `TypeCorrect` has its own, small invariant
(`Bounds`): what the counters of the model can come to.

**PageScriptsProofs.** `TypeCorrect`, `LastClickCounts` (`LastClickWins`) and `NoLinkIsDead` (`NoDeadLink`), for any links and
sections, wherever images move them. The invariant adds that an animation under way ends where the last click has promised (`Aimed`) and that a callback
is in the ready list only behind the script that leaves it (`LeftInTurn`), without which it could be there twice. The lemma
`DispatchEnds` says what a click comes to on any link in any state: if the default is prevented there is a section, and an animation
towards it is the only one.

Every safety property that a passing run checks is stated by one of these theorems. What stays with TLC are the properties under fairness, which
this prover has no rules for: `ShutdownCompletes` and the fairness of `TaskPool` in `ImplementsTaskPool`, `CallsReturn`,
`ExpiredFires`, `HangUpReleases`, `RequestRead`, `BacklogServed`, `LinesReachFile`, `ExitEnds` and `PreloaderGoes`.

## 7. What the model says of the code

Most of what the code sets out to do it does: the ownership protocol, the hand-over in the
thread pool, the heap and its references, the partial writes, the read buffer, the log under its lock. Two statements
are not kept:

| Run | Code | What happens |
|---|---|---|
| `MCServerTickBlocks` | `timer.cpp:121-122` | `res` is a `size_t`: a node that expires after `Tick` looked makes `GetNextTick` negative, and `epoll_wait` blocks without a timeout |
| `MCSqlExclusiveUse` | `http_request.cpp:140` | the RAII object is a temporary; two threads get one connection |

Modelled as the code has it, with no statement in the repository to compare with:

* In ET mode `DealListen` stops at `MAX_FD` or without a free descriptor and leaves clients in the
  backlog; nobody looks at them until another one arrives (`web_server.cpp:126-130`).
  An `accept` that fails on a waiting client does the same (`AcceptError`).
  `BacklogSeen` is therefore stated for a server with room for all (`HasRoom`) and no such error; in LT mode the backlog is reported again (`BacklogServed`).
* A timer can close a connection a worker is using; `AlwaysReapable` is what remains true.
* SIGPIPE is not ignored, neither where an answer is written (`Killed`) nor where a client is refused (`web_server.cpp:96`, `RefuseKilled`). A client that shuts down its sending side is treated as gone.
* `mmap` of an empty file fails, and the test for that dereferences the result (`ProcessCrashes` of `HttpConn`).
* In LT mode `OnWrite` closes after one short `writev`; `IntactStream` bounds what is cut off.
* The length of `iov[1]` survives an answer with no file (`http_conn.cpp:105`). A complete answer is then not recognised as complete,
  and `OnWrite` closes a connection that was announced as keep-alive; `IovecsExact` states what holds with this exception (`Stale`).
* `process` parses the buffer from its beginning and `Parse` returns where the bytes end. A request in two pieces is answered after the first,
  from what has been read, and its rest is parsed as a new request. A rest without a request line is answered with 400. The rest of a form, or the LF of an empty
  line, that is read together with the next request is taken for the beginning of its method (`http_request.cpp:76` asks for no space only): that request is answered
  with its page, as one with a method that is neither GET nor POST, so that its body stays in the buffer (`http_request.cpp:54`) and is parsed as a request in turn.
  `AnswersAreRequests` says that nothing worse comes of all this: the answers are pages of the requests, in order, and a 400 is the last. `WholeIsParsed` covers the request that arrives whole.
* A body has no CRLF at its end (`http_request.cpp:53`): the request line of a request that is sent behind a form becomes a part of the
  password and is taken out of the buffer with it. The client gets no answer of its own for that request.
* A header ends the request when at most two bytes are readable (`http_request.cpp:43`), be they a CRLF or the beginning of a name. A symbol is not cut, so that
  the model has the CR, the LF and the empty line there and no name of one or two bytes.
* `Content-Length` is not looked at (`http_request.cpp:99`): a form of which a part has arrived is taken as it is, and a shortened
  password is verified, or registered.
* The links of the site's pages to other pages are in the `.custom-navbar`, and custom.js looks for an element by their `href`: they
  lead to their page because the exception is thrown before `preventDefault` (`custom.js:30` and `32`).
* scrollTo moves `body` in browsers that call themselves WebKit (`smoothscroll.js:18`), while those of today scroll `html`: where only
  localScroll has a link, nothing moves. This is `Misled`, the exception in `NoDeadLink`.
* No page of the repository has a link to a section, so that on this site no animation is ever started by a click. `LastClickWins` is about the scripts, on any page that has such links.
* Where an animation ends is measured at the click; images that arrive later move the section away from it.
* Without Magnific Popup the callback of its options throws and ends jQuery's ready list, so that custom.js never binds the links (`magnific-popup-options.js:4`); without
  Bootstrap the handler of the menu throws (`custom.js:13`), and the browser jumps where it would have scrolled.
* `~Log` waits for a thread that looks at `isClose` only after a wait. If that thread is between two calls of `Pop` at `Close` it goes to sleep and nobody wakes it
  (`MissedClose`): the exit then hangs. `ExitEnds` says that the exit ends when the thread is asleep at `Close`, and that a missed `Close` is all that can keep it.
* A line goes to the file that is open when it is taken from the queue: one that was queued before midnight goes to the file of the next day. A writer
  that has read the clock before midnight and comes after one that has read it later turns the file back (`log.cpp:92`). And two writers that turn it at
  once may leave either of their files open (`overlapped`). `FileTurns` speaks of the open file and `l_toDay`, not of the day of a line.
* `LOG_BASE` calls `fflush` without the lock (`log.cpp:165`), beside a thread that may be between `fclose` and
  `fopen`; `FileTurns` states what the lock guarantees.
* `UserVerify` frees its connection twice (`http_request.cpp:140` and `186`), so that the pool grows by an entry with every
  call. When the queue is found empty `GetConn` does not wait but returns `nullptr`, which `UserVerify` asserts
  against; `NeverBusy` gives the condition under which that cannot be.
* Two registrations of one name may both reach the INSERT, which only a unique key in the table stops; the repository has no definition of the table. A result that
  `mysql_store_result` could not store is a `nullptr` that nothing tests (`http_request.cpp:157`, `NoResult`, `Crash`). `AccountsAreSound` names these two (`unchecked`) as the
  only ways to a second row of a name.
* Name and password stand in the text of both statements as the client has sent them (`http_request.cpp:146-147`): nothing is escaped. With a text that SQL does not read as it is
  written (`Quoted`) the SELECT may answer anything, a login may succeed without a row, and an INSERT may store another row than was meant (`tampered`). `AccountsAreSound` is therefore
  not a statement about all logins: it is about those whose name SQL reads as written, on a table that no such INSERT has changed. An INSERT of texts without
  that is taken to store its row or to be refused.
* The log queue is built with its default capacity, not the configured one (`log.cpp:44`).
* A failed INSERT is reported as a success: `flag` is set to true in the next statement.

## 8. What is not modelled

* `config/` and `main.cpp`: they run before any thread exists; their values are the CONSTANTS.
* The set-up of the listening socket, and `~WebServer`, which is reached only when that
  set-up fails; with it `ClosePool`. (In that case `~Log` may also find the log thread never started; not modelled.)
* Text: status lines, content types, URL decoding, formatting of log lines.
* `Timer::Clear`, the timed `BlockDeque::Pop`, `Push_front` and `Clear`: nothing calls them.
  `DelWork` has no caller either but is a heap operation of its own and is modelled.
* The kernel, MySQL and the clients are as the code uses them and marked external in the map.
* The pages, styles and images of `resources/` are data: `HttpConn` takes a site as a constant. Of its scripts, jQuery, Bootstrap, Magnific Popup and
  WOW are libraries and external; the hash, queue and margin options of scrollTo and localScroll, which the site does not use, are left out.
* `Buffer::WriteFd` and `RetrieveAllToStr`: the server does not call them. The length of a log line in the buffer of `Log`.

## 9. Plan

Done: `TaskPool`, `ThreadPool`, `ExpirySet`, `Timer`, `WebServer`, `SqlConnPool`, `Buffer`, `HttpRequest`, `HttpConn`, `AsyncLog`,
`PageScripts`, and proofs about all of them.

Left, in this order:

1. `HttpConn` implements what `WebServer` assumes of one write (`WriteDone`, `WriteBlocks`,
   `WriteGivesUp`) as a refinement.
2. `WebServer`'s task queue as an instance of `TaskPool`, with the theorem beside `UsesTimerAsPromised`.
3. The length of a log line and `HasWritten` of what `vsnprintf` would have written, in `AsyncLog` with `Buffer`.
