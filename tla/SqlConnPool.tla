------------------------------ MODULE SqlConnPool ------------------------------
(***************************************************************************)
(* code/pool/sql_conn_pool.*, code/pool/sql_conn_RAII.h and the only code  *)
(* that uses them, HttpRequest::UserVerify (code/http/http_request.cpp).   *)
(*                                                                         *)
(* A call of UserVerify runs on a worker thread.  It builds a SqlConnRAII  *)
(* as a temporary: the connection is taken from the pool and put back at   *)
(* the end of the same statement, then used, and then put back once more.  *)
(* s_connQue.empty() is tested without s_mutex; the semaphore and the      *)
(* queue are separate objects.                                             *)
(*                                                                         *)
(* The MySQL server is external: a set of rows, SELECT, INSERT, and either *)
(* of them failing.  Name and password are put into the text of the two    *)
(* statements as they are, so that a text with a quote or a backslash      *)
(* makes another statement of it, one that may answer, or store, anything. *)
(***************************************************************************)
EXTENDS Naturals, Sequences, FiniteSets, SequencesExt, Functions

CONSTANTS
    Threads,        \* the worker threads
    Conns,          \* connections; connPoolNum is at most their number
    NullConn,       \* nullptr
    Names,          \* user names, one for those the table does not tell apart,
    Passwords,      \* and passwords of the requests
    Quoted,         \* those of them that SQL does not read as they are written
    Empty,          \* the empty string
    Asked,          \* the requests that are made
    MaxCalls        \* bound: calls of UserVerify in a behaviour

Request == [name : Names \cup {Empty}, pwd : Passwords \cup {Empty}, isLogin : BOOLEAN]

ASSUME SqlAssumption ==
    /\ IsFiniteSet(Threads)
    /\ IsFiniteSet(Conns)
    /\ Conns # {}
    /\ NullConn \notin Conns
    /\ Quoted \subseteq Names \cup Passwords
    /\ Asked \subseteq Request
    /\ MaxCalls \in Nat

VARIABLES
    connPoolNum,
    opened,     \* the connections that Init could open (history)
    s_connQue,  \* the queue of connections
    semId,      \* value of the semaphore
    at,         \* next statement of each thread; "idle": outside UserVerify
    sql,        \* the local variable sql
    req,        \* the arguments: name, pwd, isLogin
    flag,       \* the local variable flag
    verified,   \* <<name, pwd>> of the logins that returned true (history)
    table,      \* rows <<username, password>> of the external table, while known
    tampered,   \* has an INSERT been another one than was meant?  Then the rows are
                \* not known from there on.
    unchecked,  \* has a registration gone on to INSERT next to another one of its
                \* name, or without a result of its SELECT? (history)
    ended,      \* has the process ended: "no", "assert" or "crash"
    shared,     \* have two threads used one connection at a time? (history)
    calls       \* number of calls begun (bound)

pool == <<connPoolNum, opened>>
database == <<table, tampered, unchecked>>
vars == <<pool, s_connQue, semId, at, sql, req, flag, verified, database, ended, shared, calls>>

Handle == Conns \cup {NullConn}

\* A request whose name and password stand in a statement as they are.
Plain(r) == r.name \notin Quoted /\ r.pwd \notin Quoted

\* Threads between sem_wait and the pop, and threads holding the temporary.
Popping == {t \in Threads : at[t] = "pop"}
Holding == {t \in Threads : at[t] = "destruct"}

\* The threads that use a connection for a query of UserVerify.
Users(c) == {t \in Threads : at[t] \in {"select", "insert"} /\ sql[t] = c}

TypeOK ==
    /\ connPoolNum \in 1..Cardinality(Conns)
    /\ opened \in SUBSET Conns
    /\ s_connQue \in Seq(Handle)
    /\ semId \in Nat
    /\ at \in [Threads -> {"idle", "empty", "wait", "pop", "destruct",
                           "assert", "select", "insert", "free"}]
    /\ sql \in [Threads -> Handle]
    /\ req \in [Threads -> Request]
    /\ flag \in [Threads -> BOOLEAN]
    /\ verified \in SUBSET (Names \X Passwords)
    /\ table \in SUBSET (Names \X Passwords)
    /\ tampered \in BOOLEAN
    /\ unchecked \in BOOLEAN
    /\ ended \in {"no", "assert", "crash"}
    /\ shared \in BOOLEAN
    /\ calls \in Nat

NoRequest == [name |-> Empty, pwd |-> Empty, isLogin |-> FALSE]

\* The connections in the order in which Init opens them, any one.
ConnAt == CHOOSE f \in [1..Cardinality(Conns) -> Conns] : IsInjective(f)

\* SqlConnPool::Init: connPoolNum connections; one that fails is queued as
\* nullptr.
PoolInit ==
    /\ connPoolNum \in 1..Cardinality(Conns)
    /\ s_connQue \in [1..connPoolNum -> Handle]
    /\ \A i \in DOMAIN s_connQue : s_connQue[i] \in {ConnAt[i], NullConn}
    /\ opened = ToSet(s_connQue) \ {NullConn}
    /\ semId = connPoolNum

Init ==
    /\ PoolInit
    /\ at = [t \in Threads |-> "idle"]
    /\ sql = [t \in Threads |-> NullConn]
    /\ req = [t \in Threads |-> NoRequest]
    /\ flag = [t \in Threads |-> FALSE]
    /\ verified = {}
    /\ table = {}
    /\ tampered = FALSE
    /\ unchecked = FALSE
    /\ ended = "no"
    /\ shared = FALSE
    /\ calls = 0

-------------------------------------------------------------------------------
Goto(t, from, to) ==
    /\ ended = "no"
    /\ at[t] = from
    /\ at' = [at EXCEPT ![t] = to]

\* UserVerify returns, and its local variables go.  A login that returns true is
\* remembered.
Return(t, from, result) ==
    /\ Goto(t, from, "idle")
    /\ sql' = [sql EXCEPT ![t] = NullConn]
    /\ req' = [req EXCEPT ![t] = NoRequest]
    /\ flag' = [flag EXCEPT ![t] = FALSE]
    /\ verified' = IF result /\ req[t].isLogin
                     THEN verified \cup {<<req[t].name, req[t].pwd>>} ELSE verified

\* Mutant: requests with an empty name or password are looked up too.
CallAnyway(t, r) ==
    /\ calls < MaxCalls
    /\ calls' = calls + 1
    /\ Goto(t, "idle", "empty")
    /\ req' = [req EXCEPT ![t] = r]
    /\ UNCHANGED <<pool, s_connQue, semId, sql, flag, verified, database, ended, shared>>

\* Requests with an empty name or password are refused at once.
Call(t, r) ==
    /\ calls < MaxCalls
    /\ calls' = calls + 1
    /\ IF Empty \in {r.name, r.pwd}
         THEN ended = "no" /\ at[t] = "idle" /\ UNCHANGED <<at, req>>
         ELSE Goto(t, "idle", "empty") /\ req' = [req EXCEPT ![t] = r]
    /\ UNCHANGED <<pool, s_connQue, semId, sql, flag, verified, database, ended, shared>>

(* GetConn *)

\* An empty queue is not waited for: GetConn returns nullptr, and the
\* destructor of the temporary has nothing to put back.
SeeEmpty(t) ==
    /\ s_connQue = <<>>
    /\ Goto(t, "empty", "assert")
    /\ sql' = [sql EXCEPT ![t] = NullConn]
    /\ UNCHANGED <<pool, s_connQue, semId, req, flag, verified, database, ended, shared, calls>>

SeeNonEmpty(t) ==
    /\ s_connQue # <<>>
    /\ Goto(t, "empty", "wait")
    /\ UNCHANGED <<pool, s_connQue, semId, sql, req, flag, verified, database, ended, shared, calls>>

\* Mutant: the semaphore is tested but not taken.
SemPeek(t) ==
    /\ semId > 0
    /\ Goto(t, "wait", "pop")
    /\ UNCHANGED <<pool, s_connQue, semId, sql, req, flag, verified, database, ended, shared, calls>>

SemWait(t) ==
    /\ semId > 0
    /\ Goto(t, "wait", "pop")
    /\ semId' = semId - 1
    /\ UNCHANGED <<pool, s_connQue, sql, req, flag, verified, database, ended, shared, calls>>

\* front() and pop() under s_mutex.
PopConn(t) ==
    /\ Goto(t, "pop", "destruct")
    /\ sql' = [sql EXCEPT ![t] = Head(s_connQue)]
    /\ s_connQue' = Tail(s_connQue)
    /\ UNCHANGED <<pool, semId, req, flag, verified, database, ended, shared, calls>>

-------------------------------------------------------------------------------
\* Mutant: a connection is put back without posting the semaphore.
FreeWithoutPost(c) ==
    /\ s_connQue' = Append(s_connQue, c)
    /\ UNCHANGED semId

\* FreeConn, under s_mutex.
FreeConn(c) ==
    /\ s_connQue' = Append(s_connQue, c)
    /\ semId' = semId + 1

\* Mutant: the destructor forgets the connection.
LeakTemporary(t) ==
    /\ Goto(t, "destruct", "assert")
    /\ UNCHANGED <<pool, s_connQue, semId, sql, req, flag, verified, database, ended, shared, calls>>

\* ~SqlConnRAII, at the end of the statement that built the temporary.
DestroyTemporary(t) ==
    /\ Goto(t, "destruct", "assert")
    /\ IF sql[t] # NullConn THEN FreeConn(sql[t]) ELSE UNCHANGED <<s_connQue, semId>>
    /\ UNCHANGED <<pool, sql, req, flag, verified, database, ended, shared, calls>>

\* assert(sql); flag starts as "this is a registration".
AssertSql(t) ==
    /\ IF sql[t] = NullConn
         THEN /\ ended = "no"
              /\ at[t] = "assert"
              /\ ended' = "assert"
              /\ UNCHANGED <<at, flag, shared>>
         ELSE /\ Goto(t, "assert", "select")
              /\ flag' = [flag EXCEPT ![t] = ~req[t].isLogin]
              /\ shared' = (shared \/ Users(sql[t]) # {})
              /\ UNCHANGED ended
    /\ UNCHANGED <<pool, s_connQue, semId, sql, req, verified, database, calls>>

\* A failed SELECT: the call returns false without a second FreeConn.
SelectFails(t) ==
    /\ Return(t, "select", FALSE)
    /\ UNCHANGED <<pool, s_connQue, semId, database, ended, shared, calls>>

\* Mutant: a row for the name is enough, whatever its password.
FetchedAnyRow(t, u) ==
    {(\E row \in table : row[1] = req[u].name) = req[t].isLogin}

\* What the loop of t leaves in flag when it fetches the rows of
\* SELECT ... WHERE username = name, with the name that u has given.
FetchedFlag(t, u) ==
    LET rows == {row \in table : row[1] = req[u].name}
    IN  IF tampered \/ req[u].name \in Quoted THEN BOOLEAN
        ELSE IF rows = {} THEN {~req[t].isLogin}
        ELSE {req[t].isLogin /\ row[2] = req[t].pwd : row \in rows}

\* After the loop: a registration with its flag still set comes to INSERT.
Fetched(t, f) ==
    /\ Goto(t, "select", IF f /\ ~req[t].isLogin THEN "insert" ELSE "free")
    /\ flag' = [flag EXCEPT ![t] = f]
    /\ UNCHANGED <<pool, s_connQue, semId, sql, req, verified, table, tampered, ended, shared, calls>>

\* A MYSQL object is not safe for two threads at once: a thread that shares its
\* connection may fetch the other's result.
Select(t) ==
    \E u \in Users(sql[t]) : \E f \in FetchedFlag(t, u) :
        /\ Fetched(t, f)
        /\ unchecked' = (unchecked \/
                /\ f /\ ~req[t].isLogin
                /\ \E v \in Threads : at[v] = "insert" /\ req[v].name = req[t].name)

\* mysql_store_result fails: its nullptr, which nothing tests, may pass for a
\* result without rows.
NoResult(t) ==
    /\ Fetched(t, ~req[t].isLogin)
    /\ unchecked' = (unchecked \/ ~req[t].isLogin)

\* A result that is nullptr, or not made of names and passwords, may end the
\* process as well, and so may two threads inside one MYSQL object.
Crash(t) ==
    /\ ended = "no"
    /\ \/ at[t] = "select"
       \/ t \in Users(sql[t]) /\ Users(sql[t]) # {t}
    /\ ended' = "crash"
    /\ UNCHANGED <<pool, s_connQue, semId, at, sql, req, flag, verified, database, shared, calls>>

\* The INSERT may be refused by the server; flag becomes true either way.
Insert(t) ==
    /\ Goto(t, "insert", "free")
    /\ flag' = [flag EXCEPT ![t] = TRUE]
    /\ \/ UNCHANGED <<table, tampered>>
       \/ /\ Plain(req[t]) /\ ~tampered
          /\ table' = table \cup {<<req[t].name, req[t].pwd>>}
          /\ UNCHANGED tampered
       \/ /\ ~Plain(req[t])
          /\ table' = {}
          /\ tampered' = TRUE
    /\ UNCHANGED <<pool, s_connQue, semId, sql, req, verified, unchecked, ended, shared, calls>>

\* The explicit FreeConn(sql) before the return.
FreeAndReturn(t) ==
    /\ Return(t, "free", flag[t])
    /\ FreeConn(sql[t])
    /\ UNCHANGED <<pool, database, ended, shared, calls>>

Step(t) ==
    \/ SeeEmpty(t) \/ SeeNonEmpty(t) \/ SemWait(t) \/ PopConn(t)
    \/ DestroyTemporary(t) \/ AssertSql(t)
    \/ SelectFails(t) \/ Select(t) \/ NoResult(t) \/ Insert(t) \/ FreeAndReturn(t)

Next ==
    \E t \in Threads :
        \/ Step(t)
        \/ Crash(t)
        \/ \E r \in Asked : Call(t, r)

SafeSpec == Init /\ [][Next]_vars

\* A thread in UserVerify keeps running; sem_wait is not fair between threads
\* that contend for it, so SemWait gets weak fairness only.
Spec == SafeSpec /\ \A t \in Threads : WF_vars(Step(t))

-------------------------------------------------------------------------------
(* Properties *)

\* The semaphore counts the queue, less the connections that threads past
\* sem_wait are about to pop: front() is never called on an empty queue.
SemaphoreCountsQueue ==
    Len(s_connQue) = semId + Cardinality(Popping)

\* No connection is lost: each one opened is queued, or held by the temporary
\* of one thread, even though UserVerify has an early return.
NoConnectionLost ==
    \A c \in opened : c \in ToSet(s_connQue) \/ \E t \in Holding : sql[t] = c

\* The queue and the semaphore, which no lock joins, account for each connection.
PoolExact == SemaphoreCountsQueue /\ NoConnectionLost

\* With a connection for each thread, and none of them failed, GetConn never
\* finds the queue empty: assert(sql) holds although nothing waits for it.
NeverBusy ==
    Cardinality(Threads) <= connPoolNum /\ Cardinality(opened) = connPoolNum =>
        /\ ended # "assert"
        /\ \A t \in Threads : at[t] = "empty" => s_connQue # <<>>

\* A login has succeeded only with the name and the password of a row.
LoginsFound ==
    \A login \in verified : login[1] \notin Quoted => login \in table

\* No name has two passwords.
NamesUnique ==
    \A r1, r2 \in table : r1[1] = r2[1] => r1 = r2

\* As long as no two threads have shared a connection and every INSERT was the
\* one that is written in UserVerify, nobody has logged in with a text that SQL
\* reads as it stands without being registered; and a name is registered once,
\* though SELECT and INSERT are two statements and nothing is known of a key of
\* the table, unless two registrations of it were between the two at one time or
\* a result was lost.
AccountsAreSound ==
    ~shared /\ ~tampered => LoginsFound /\ (~unchecked => NamesUnique)

\* Every call ends, unless the process ends first: nobody waits for ever
\* in sem_wait although the queue was seen non-empty long before.
CallsReturn ==
    \A t \in Threads : at[t] # "idle" ~> at[t] = "idle" \/ ended # "no"

\* sql_conn_RAII.h: the resource is released when the object is destroyed, so
\* whoever uses a connection has it for itself.  It does not hold.
ExclusiveUse ==
    \A c \in Conns : Cardinality(Users(c)) <= 1
===============================================================================
