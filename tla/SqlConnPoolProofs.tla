--------------------------- MODULE SqlConnPoolProofs ---------------------------
(***************************************************************************)
(* Theorems about SqlConnPool, for any threads, connections, names and     *)
(* passwords, and for any connections that Init could not open             *)
(***************************************************************************)
EXTENDS SqlConnPool, FiniteSetTheorems, SequenceTheorems, TLAPS

\* Whoever is past the first test of UserVerify has a name and a password.
AskedInFull ==
    \A t \in Threads : at[t] # "idle" => req[t].name # Empty /\ req[t].pwd # Empty

IInv == TypeOK /\ AskedInFull /\ PoolExact

-------------------------------------------------------------------------------
(* Lemmas on the queue *)

\* Pushing a handle queues that handle and nothing else.
LEMMA PushQueue ==
    ASSUME TypeOK, NEW c \in Handle, s_connQue' = Append(s_connQue, c)
    PROVE  /\ s_connQue' \in Seq(Handle)
           /\ Len(s_connQue') = Len(s_connQue) + 1
           /\ ToSet(s_connQue') = ToSet(s_connQue) \cup {c}
  <1>1. s_connQue \in Seq(Handle)
    BY DEF TypeOK
  <1>2. /\ s_connQue' \in Seq(Handle)
        /\ Len(s_connQue') = Len(s_connQue) + 1
        /\ \A i \in 1..Len(s_connQue) : s_connQue'[i] = s_connQue[i]
        /\ s_connQue'[Len(s_connQue) + 1] = c
    BY <1>1, AppendProperties
  <1>3. /\ DOMAIN s_connQue = 1..Len(s_connQue)
        /\ DOMAIN s_connQue' = 1..Len(s_connQue')
        /\ Len(s_connQue) \in Nat
    BY <1>1, <1>2, LenProperties
  <1>4. DOMAIN s_connQue' = DOMAIN s_connQue \cup {Len(s_connQue) + 1}
    BY <1>2, <1>3
  <1> QED
    BY <1>2, <1>3, <1>4 DEF ToSet

\* Popping takes the head off the queue, and nothing else.
LEMMA PopQueue ==
    ASSUME TypeOK, s_connQue # <<>>, s_connQue' = Tail(s_connQue)
    PROVE  /\ s_connQue' \in Seq(Handle)
           /\ Len(s_connQue') = Len(s_connQue) - 1
           /\ Head(s_connQue) \in Handle
           /\ Head(s_connQue) \in ToSet(s_connQue)
           /\ ToSet(s_connQue) = ToSet(s_connQue') \cup {Head(s_connQue)}
  <1>1. s_connQue \in Seq(Handle)
    BY DEF TypeOK
  <1>2. /\ Head(s_connQue) \in Handle
        /\ s_connQue' \in Seq(Handle)
        /\ Len(s_connQue') = Len(s_connQue) - 1
        /\ \A i \in 1..Len(s_connQue') : s_connQue'[i] = s_connQue[i + 1]
    BY <1>1, HeadTailProperties
  <1>3. /\ DOMAIN s_connQue = 1..Len(s_connQue)
        /\ DOMAIN s_connQue' = 1..Len(s_connQue')
        /\ Len(s_connQue) \in Nat \ {0}
    BY <1>1, <1>2, LenProperties, EmptySeq
  <1>4. Head(s_connQue) = s_connQue[1]
    BY <1>1
  <1>5. ASSUME NEW i \in DOMAIN s_connQue
        PROVE  i = 1 \/ (i - 1 \in DOMAIN s_connQue' /\ s_connQue'[i - 1] = s_connQue[i])
    BY <1>2, <1>3, <1>5
  <1>6. ASSUME NEW i \in DOMAIN s_connQue'
        PROVE  i + 1 \in DOMAIN s_connQue /\ s_connQue'[i] = s_connQue[i + 1]
    BY <1>2, <1>3, <1>6
  <1>7. ToSet(s_connQue) \subseteq ToSet(s_connQue') \cup {Head(s_connQue)}
    BY <1>4, <1>5 DEF ToSet
  <1>8. ToSet(s_connQue') \cup {Head(s_connQue)} \subseteq ToSet(s_connQue)
    BY <1>3, <1>4, <1>6 DEF ToSet
  <1> QED
    BY <1>2, <1>7, <1>8

\* The threads that are about to pop are finitely many.
LEMMA PoppingFinite == IsFiniteSet(Popping) /\ Cardinality(Popping) \in Nat
  BY SqlAssumption, FS_Subset, FS_CardinalityType DEF Popping

\* When a thread is about to pop, there is something to pop.
LEMMA PopNonEmpty ==
    ASSUME TypeOK, SemaphoreCountsQueue, NEW t \in Popping
    PROVE  s_connQue # <<>>
  <1>1. Cardinality(Popping) # 0
    BY PoppingFinite, FS_EmptySet
  <1>2. Len(s_connQue) # 0
    BY <1>1, PoppingFinite DEF TypeOK, SemaphoreCountsQueue
  <1> QED
    BY <1>2, EmptySeq

-------------------------------------------------------------------------------
(* Types *)

\* What Init sets up has the types, and the semaphore at the length of the queue.
LEMMA InitIInv == Init => IInv
  <1> SUFFICES ASSUME Init PROVE IInv
    OBVIOUS
  <1> USE SqlAssumption DEF Init, PoolInit
  <1>1. Cardinality(Conns) \in Nat /\ connPoolNum \in Nat
    BY FS_CardinalityType
  <1>2. /\ s_connQue \in Seq(Handle)
        /\ Len(s_connQue) = connPoolNum
    BY <1>1
  <1>3. ToSet(s_connQue) \subseteq Handle
    BY <1>1 DEF ToSet
  <1>4. TypeOK
    <2>1. req \in [Threads -> Request]
      BY DEF Request, NoRequest
    <2> QED
      BY <1>1, <1>2, <1>3, <2>1 DEF TypeOK, Handle
  <1>5. AskedInFull
    BY DEF AskedInFull
  <1>6. Popping = {}
    BY DEF Popping
  <1>7. SemaphoreCountsQueue
    BY <1>1, <1>2, <1>6, FS_EmptySet DEF SemaphoreCountsQueue
  <1>8. NoConnectionLost
    BY DEF NoConnectionLost
  <1> QED
    BY <1>4, <1>5, <1>7, <1>8 DEF IInv, PoolExact

\* Whatever a SELECT leaves in flag is TRUE or FALSE, and a flag that sends a
\* registration to INSERT is accounted for.
LEMMA SelectFetches ==
    ASSUME TypeOK, NEW t \in Threads, Select(t)
    PROVE  \E u \in Users(sql[t]) : \E f \in FetchedFlag(t, u) :
             /\ f \in BOOLEAN
             /\ Fetched(t, f)
             /\ unchecked' \in BOOLEAN
             /\ unchecked => unchecked'
             /\ f /\ ~req[t].isLogin /\ ~unchecked' =>
                    \A v \in Threads : at[v] = "insert" => req[v].name # req[t].name
  <1>1. req[t].isLogin \in BOOLEAN /\ unchecked \in BOOLEAN
    BY DEF TypeOK, Request
  <1>2. \A u \in Threads : FetchedFlag(t, u) \subseteq BOOLEAN
    BY <1>1 DEF FetchedFlag
  <1>3. PICK u \in Users(sql[t]) : \E f \in FetchedFlag(t, u) :
          /\ Fetched(t, f)
          /\ unchecked' = (unchecked \/
                  /\ f /\ ~req[t].isLogin
                  /\ \E v \in Threads : at[v] = "insert" /\ req[v].name = req[t].name)
    BY DEF Select
  <1>4. PICK f \in FetchedFlag(t, u) :
          /\ Fetched(t, f)
          /\ unchecked' = (unchecked \/
                  /\ f /\ ~req[t].isLogin
                  /\ \E v \in Threads : at[v] = "insert" /\ req[v].name = req[t].name)
    BY <1>3
  <1>5. f \in BOOLEAN
    BY <1>2 DEF Users
  <1>6. /\ unchecked' \in BOOLEAN
        /\ unchecked => unchecked'
        /\ f /\ ~req[t].isLogin /\ ~unchecked' =>
               \A v \in Threads : at[v] = "insert" => req[v].name # req[t].name
    BY <1>1, <1>4, <1>5
  <1> QED
    BY <1>4, <1>5, <1>6

\* Every step keeps the types.  A row that is inserted has a name and a password.
LEMMA StepTypes == TypeOK /\ AskedInFull /\ SemaphoreCountsQueue /\ Next => TypeOK' /\ AskedInFull'
  <1> SUFFICES ASSUME TypeOK, AskedInFull, SemaphoreCountsQueue, NEW t \in Threads,
                      \/ Step(t)
                      \/ Crash(t)
                      \/ \E r \in Asked : Call(t, r)
               PROVE  TypeOK' /\ AskedInFull'
    BY DEF Next
  <1> USE SqlAssumption DEF AskedInFull, Goto, pool, database
  <1>0. NoRequest \in Request
    BY DEF NoRequest, Request
  <1>1. ASSUME NEW r \in Asked, Call(t, r) PROVE TypeOK' /\ AskedInFull'
    <2>1. r \in Request
      OBVIOUS
    <2>2. CASE Empty \in {r.name, r.pwd}
      BY <1>1, <2>2 DEF TypeOK, Call
    <2>3. CASE Empty \notin {r.name, r.pwd}
      BY <1>1, <2>1, <2>3 DEF TypeOK, Call
    <2> QED
      BY <2>2, <2>3
  <1>2. CASE SeeEmpty(t)
    BY <1>2 DEF TypeOK, SeeEmpty, Handle
  <1>3. CASE SeeNonEmpty(t)
    BY <1>3 DEF TypeOK, SeeNonEmpty
  <1>4. CASE SemWait(t)
    BY <1>4 DEF TypeOK, SemWait
  <1>5. CASE PopConn(t)
    <2>1. s_connQue # <<>>
      BY <1>5, PopNonEmpty DEF PopConn, Popping
    <2>2. s_connQue' \in Seq(Handle) /\ Head(s_connQue) \in Handle
      BY <1>5, <2>1, PopQueue DEF PopConn
    <2> QED
      BY <1>5, <2>2 DEF TypeOK, PopConn
  <1>6. CASE DestroyTemporary(t)
    <2>1. /\ s_connQue' \in Seq(Handle)
          /\ semId' \in Nat
      <3>1. CASE sql[t] = NullConn
        BY <1>6, <3>1 DEF TypeOK, DestroyTemporary
      <3>2. CASE sql[t] # NullConn
        <4>1. sql[t] \in Handle
          BY DEF TypeOK
        <4> QED
          BY <1>6, <3>2, <4>1, PushQueue DEF TypeOK, DestroyTemporary, FreeConn
      <3> QED
        BY <3>1, <3>2
    <2> QED
      BY <1>6, <2>1 DEF TypeOK, DestroyTemporary
  <1>7. CASE AssertSql(t)
    <2>1. shared' \in BOOLEAN
      BY <1>7, Zenon DEF TypeOK, AssertSql
    <2>2. flag' \in [Threads -> BOOLEAN]
      BY <1>7, Zenon DEF TypeOK, AssertSql
    <2> QED
      BY <1>7, <2>1, <2>2 DEF TypeOK, AssertSql
  <1>8. CASE SelectFails(t)
    BY <1>0, <1>8 DEF TypeOK, SelectFails, Return, Handle
  <1>9. ASSUME NEW f \in BOOLEAN, Fetched(t, f), unchecked' \in BOOLEAN
        PROVE  TypeOK' /\ AskedInFull'
    BY <1>9 DEF TypeOK, Fetched
  <1>10. CASE Insert(t)
    <2>1. req[t].name \in Names /\ req[t].pwd \in Passwords
      BY <1>10 DEF TypeOK, Insert, Request
    <2>2. <<req[t].name, req[t].pwd>> \in Names \X Passwords
      BY <2>1
    <2>3. table' \in SUBSET (Names \X Passwords)
      BY <1>10, <2>2 DEF TypeOK, Insert
    <2>4. tampered' \in BOOLEAN
      <3>1. tampered \in BOOLEAN
        BY DEF TypeOK
      <3>2. tampered' = tampered \/ tampered' = TRUE
        BY <1>10, Zenon DEF Insert
      <3> QED
        BY <3>1, <3>2
    <2> QED
      BY <1>10, <2>3, <2>4 DEF TypeOK, Insert
  <1>11. CASE FreeAndReturn(t)
    <2>1. sql[t] \in Handle
      BY DEF TypeOK
    <2>2. s_connQue' \in Seq(Handle) /\ semId' \in Nat
      BY <1>11, <2>1, PushQueue DEF TypeOK, FreeAndReturn, FreeConn
    <2>3. req[t].name \in Names /\ req[t].pwd \in Passwords
      BY <1>11 DEF TypeOK, FreeAndReturn, Return, Request
    <2>4. verified' \in SUBSET (Names \X Passwords)
      BY <1>11, <2>3 DEF TypeOK, FreeAndReturn, Return
    <2> QED
      BY <1>0, <1>11, <2>2, <2>4 DEF TypeOK, FreeAndReturn, Return, Handle
  <1>12. CASE Crash(t)
    BY <1>12 DEF TypeOK, Crash
  <1>13. CASE Select(t)
    <2>1. req[t].isLogin \in BOOLEAN /\ unchecked \in BOOLEAN
      BY DEF TypeOK, Request
    <2> QED
      BY <1>9, <1>13, <2>1, SelectFetches
  <1>14. CASE NoResult(t)
    <2>1. req[t].isLogin \in BOOLEAN /\ unchecked \in BOOLEAN
      BY DEF TypeOK, Request
    <2> QED
      BY <1>9, <1>14, <2>1 DEF NoResult
  <1> QED
    BY <1>1, <1>2, <1>3, <1>4, <1>5, <1>6, <1>7, <1>8, <1>10, <1>11, <1>12, <1>13, <1>14 DEF Step

-------------------------------------------------------------------------------
(* The queue and the semaphore *)

\* Who leaves the queue alone, and neither goes to a place where a connection is
\* about to be popped or held, nor leaves one, changes nothing of the account.
LEMMA QuietStep ==
    ASSUME TypeOK, PoolExact, UNCHANGED <<opened, s_connQue, semId>>,
           \A u \in Threads : /\ at'[u] = "pop" <=> at[u] = "pop"
                              /\ at[u] = "destruct" => at'[u] = "destruct" /\ sql'[u] = sql[u]
    PROVE  PoolExact'
  <1>1. Popping' = Popping
    BY DEF Popping
  <1>2. SemaphoreCountsQueue'
    BY <1>1 DEF PoolExact, SemaphoreCountsQueue
  <1>3. \A u \in Holding : u \in Holding' /\ sql'[u] = sql[u]
    BY DEF Holding
  <1>4. NoConnectionLost'
    BY <1>3 DEF PoolExact, NoConnectionLost
  <1> QED
    BY <1>2, <1>4 DEF PoolExact

\* Putting a connection back posts the semaphore, and whoever stops holding a
\* connection does so by putting it back.
LEMMA FreeStep ==
    ASSUME TypeOK, PoolExact, NEW c \in Handle, FreeConn(c), UNCHANGED opened,
           \A u \in Threads : /\ at'[u] = "pop" <=> at[u] = "pop"
                              /\ at[u] = "destruct" =>
                                     sql[u] = c \/ (at'[u] = "destruct" /\ sql'[u] = sql[u])
    PROVE  PoolExact'
  <1>1. /\ Len(s_connQue') = Len(s_connQue) + 1
        /\ ToSet(s_connQue') = ToSet(s_connQue) \cup {c}
        /\ semId' = semId + 1
    BY PushQueue DEF FreeConn
  <1>2. Popping' = Popping
    BY DEF Popping
  <1>3. Len(s_connQue') = semId' + Cardinality(Popping)
    BY <1>1, PoppingFinite DEF TypeOK, PoolExact, SemaphoreCountsQueue
  <1>4. ASSUME NEW o \in opened PROVE o \in ToSet(s_connQue') \/ \E u \in Holding' : sql'[u] = o
    <2>1. CASE o \in ToSet(s_connQue)
      BY <1>1, <2>1
    <2>2. CASE \E u \in Holding : sql[u] = o
      BY <1>1, <2>2 DEF Holding
    <2> QED
      BY <2>1, <2>2 DEF PoolExact, NoConnectionLost
  <1> QED
    BY <1>2, <1>3, <1>4 DEF PoolExact, SemaphoreCountsQueue, NoConnectionLost

\* Every step keeps the account.
LEMMA StepPool == TypeOK /\ PoolExact /\ Next => PoolExact'
  <1> SUFFICES ASSUME TypeOK, PoolExact, NEW t \in Threads,
                      \/ Step(t)
                      \/ Crash(t)
                      \/ \E r \in Asked : Call(t, r)
               PROVE  PoolExact'
    BY DEF Next
  <1> USE DEF Goto, pool, database
  <1>0. at \in [Threads -> {"idle", "empty", "wait", "pop", "destruct",
                            "assert", "select", "insert", "free"}]
        /\ sql \in [Threads -> Handle]
    BY DEF TypeOK
  <1>1. ASSUME NEW r \in Asked, Call(t, r) PROVE PoolExact'
    BY <1>0, <1>1, QuietStep DEF Call
  <1>2. CASE SeeEmpty(t)
    BY <1>0, <1>2, QuietStep DEF SeeEmpty
  <1>3. CASE SeeNonEmpty(t)
    BY <1>0, <1>3, QuietStep DEF SeeNonEmpty
  <1>4. CASE SemWait(t)
    <2>1. Popping' = Popping \cup {t} /\ t \notin Popping
      BY <1>0, <1>4 DEF SemWait, Popping
    <2>2. Cardinality(Popping') = Cardinality(Popping) + 1
      BY <2>1, PoppingFinite, FS_AddElement
    <2>3. SemaphoreCountsQueue'
      BY <1>4, <2>2, PoppingFinite DEF TypeOK, SemWait, PoolExact, SemaphoreCountsQueue
    <2>4. Holding' = Holding
      BY <1>0, <1>4 DEF SemWait, Holding
    <2>5. NoConnectionLost'
      BY <1>4, <2>4 DEF SemWait, PoolExact, NoConnectionLost
    <2> QED
      BY <2>3, <2>5 DEF PoolExact
  <1>5. CASE PopConn(t)
    <2>1. s_connQue # <<>>
      BY <1>5, PopNonEmpty DEF PopConn, Popping, PoolExact
    <2>2. /\ Len(s_connQue') = Len(s_connQue) - 1
          /\ ToSet(s_connQue) = ToSet(s_connQue') \cup {Head(s_connQue)}
      BY <1>5, <2>1, PopQueue DEF PopConn
    <2>3. Popping' = Popping \ {t} /\ t \in Popping
      BY <1>0, <1>5 DEF PopConn, Popping
    <2>4. Cardinality(Popping') = Cardinality(Popping) - 1
      BY <2>3, PoppingFinite, FS_RemoveElement
    <2>5. SemaphoreCountsQueue'
      <3>1. Len(s_connQue) \in Nat
        BY LenProperties DEF TypeOK
      <3> QED
        BY <1>5, <2>2, <2>4, <3>1, PoppingFinite DEF TypeOK, PopConn, PoolExact, SemaphoreCountsQueue
    <2>6. /\ t \in Holding' /\ sql'[t] = Head(s_connQue)
          /\ \A u \in Holding : u \in Holding' /\ sql'[u] = sql[u]
      BY <1>0, <1>5 DEF PopConn, Holding
    <2>7. NoConnectionLost'
      BY <1>5, <2>2, <2>6 DEF PopConn, PoolExact, NoConnectionLost
    <2> QED
      BY <2>5, <2>7 DEF PoolExact
  <1>6. CASE DestroyTemporary(t)
    <2>1. CASE sql[t] # NullConn
      BY <1>0, <1>6, <2>1, FreeStep DEF DestroyTemporary
    <2>2. CASE sql[t] = NullConn
      <3>1. SemaphoreCountsQueue'
        <4>1. Popping' = Popping
          BY <1>0, <1>6 DEF DestroyTemporary, Popping
        <4> QED
          BY <1>6, <2>2, <4>1 DEF DestroyTemporary, PoolExact, SemaphoreCountsQueue
      <3>2. \A u \in Holding : u # t => u \in Holding' /\ sql'[u] = sql[u]
        BY <1>0, <1>6 DEF DestroyTemporary, Holding
      <3>3. NullConn \notin opened
        BY SqlAssumption DEF TypeOK
      <3>4. NoConnectionLost'
        BY <1>6, <2>2, <3>2, <3>3 DEF DestroyTemporary, PoolExact, NoConnectionLost
      <3> QED
        BY <3>1, <3>4 DEF PoolExact
    <2> QED
      BY <2>1, <2>2
  <1>7. CASE AssertSql(t)
    BY <1>0, <1>7, QuietStep DEF AssertSql
  <1>8. CASE SelectFails(t)
    BY <1>0, <1>8, QuietStep DEF SelectFails, Return
  <1>9. ASSUME NEW f \in BOOLEAN, Fetched(t, f)
        PROVE  PoolExact'
    BY <1>0, <1>9, QuietStep DEF Fetched
  <1>10. CASE Insert(t)
    BY <1>0, <1>10, QuietStep DEF Insert
  <1>11. CASE FreeAndReturn(t)
    BY <1>0, <1>11, FreeStep DEF FreeAndReturn, Return
  <1>12. CASE Crash(t)
    BY <1>0, <1>12, QuietStep DEF Crash
  <1>13. CASE Select(t)
    BY <1>9, <1>13, SelectFetches
  <1>14. CASE NoResult(t)
    BY <1>9, <1>14 DEF NoResult, TypeOK, Request
  <1> QED
    BY <1>1, <1>2, <1>3, <1>4, <1>5, <1>6, <1>7, <1>8, <1>10, <1>11, <1>12, <1>13, <1>14 DEF Step

LEMMA StepIInv == IInv /\ [Next]_vars => IInv'
  <1>1. CASE Next
    BY <1>1, StepTypes, StepPool DEF IInv, PoolExact
  <1>2. CASE UNCHANGED vars
    BY <1>2 DEF vars, pool, database, IInv, TypeOK, AskedInFull, PoolExact, SemaphoreCountsQueue,
                NoConnectionLost, Popping, Holding
  <1> QED
    BY <1>1, <1>2

LEMMA Invariant == SafeSpec => []IInv
  BY InitIInv, StepIInv, PTL DEF SafeSpec

\* The variables of the connection pool and of its callers keep their types.
THEOREM TypeCorrect == Spec => []TypeOK
  <1>1. IInv => TypeOK
    BY DEF IInv
  <1> QED
    BY <1>1, Invariant, PTL DEF Spec

\* The semaphore counts the queue, so that no thread pops an empty one, and each
\* connection that was opened is queued or held by one temporary, for any number
\* of threads and connections.
THEOREM PoolIsExact == Spec => []PoolExact
  <1>1. IInv => PoolExact
    BY DEF IInv
  <1> QED
    BY <1>1, Invariant, PTL DEF Spec

-------------------------------------------------------------------------------
(* Logins *)

\* Until two threads share a connection, a result that is fetched is one's own.
OwnResult ==
    ~shared => \A t, u \in Threads :
        at[t] \in {"select", "insert"} /\ u \in Users(sql[t]) => u = t

\* A login whose flag is set has found its row, and no login comes to INSERT.
FlagSound ==
    \A t \in Threads :
        /\ at[t] = "insert" => ~req[t].isLogin
        /\ /\ ~shared /\ ~tampered
           /\ at[t] = "free" /\ flag[t] /\ req[t].isLogin /\ req[t].name \notin Quoted
           => <<req[t].name, req[t].pwd>> \in table

\* A registration that comes to INSERT is the only one of its name, and there is no
\* row of that name.
NamesFree ==
    ~shared /\ ~tampered /\ ~unchecked =>
        \A t \in Threads : at[t] = "insert" /\ req[t].name \notin Quoted =>
            /\ \A row \in table : row[1] # req[t].name
            /\ \A u \in Threads : at[u] = "insert" /\ req[u].name = req[t].name => u = t

Accounts == OwnResult /\ FlagSound /\ NamesFree /\ AccountsAreSound
LInv == IInv /\ Accounts

\* Results stay one's own as long as nobody takes up a connection.
LEMMA StillOwn ==
    ASSUME OwnResult, UNCHANGED shared,
           \A u \in Threads : at'[u] \in {"select", "insert"} =>
               at[u] \in {"select", "insert"} /\ sql'[u] = sql[u]
    PROVE  OwnResult'
  <1> SUFFICES ASSUME ~shared', NEW t \in Threads, NEW u \in Threads,
                      at'[t] \in {"select", "insert"}, at'[u] \in {"select", "insert"},
                      sql'[u] = sql'[t]
               PROVE  u = t
    BY DEF OwnResult, Users
  <1> QED
    BY DEF OwnResult, Users

\* Who leaves the table alone keeps what is known of accounts, if the flag and the
\* logins that returned true stay, and nobody comes to a query.
LEMMA QuietLogin ==
    ASSUME LInv, UNCHANGED <<verified, shared, table, tampered, unchecked>>,
           \A u \in Threads :
             /\ at'[u] \in {"select", "insert"} =>
                    at[u] = at'[u] /\ sql'[u] = sql[u] /\ req'[u] = req[u]
             /\ at'[u] = "free" /\ req'[u].isLogin =>
                    at[u] = "free" /\ flag'[u] = flag[u] /\ req'[u] = req[u]
    PROVE  Accounts'
  <1> USE DEF LInv, Accounts
  <1>1. OwnResult'
    BY StillOwn
  <1>2. FlagSound'
    BY DEF FlagSound
  <1>3. NamesFree'
    BY DEF NamesFree
  <1>4. AccountsAreSound'
    BY DEF AccountsAreSound, LoginsFound, NamesUnique
  <1> QED
    BY <1>1, <1>2, <1>3, <1>4

\* After a SELECT a login is to have found its row if the flag is set, and a
\* registration that goes on a name of its own.
LEMMA FetchLogin ==
    ASSUME LInv, NEW t \in Threads, NEW f \in BOOLEAN, Fetched(t, f), unchecked => unchecked',
           /\ ~shared /\ ~tampered /\ f /\ req[t].isLogin /\ req[t].name \notin Quoted
           => <<req[t].name, req[t].pwd>> \in table,
           /\ ~shared /\ ~tampered /\ ~unchecked'
           /\ f /\ ~req[t].isLogin /\ req[t].name \notin Quoted
           => /\ \A row \in table : row[1] # req[t].name
              /\ \A v \in Threads : at[v] = "insert" => req[v].name # req[t].name
    PROVE  Accounts'
  <1> USE DEF LInv, Accounts
  <1>1. /\ UNCHANGED <<sql, req, verified, table, tampered, shared>>
        /\ at[t] = "select"
        /\ at'[t] = (IF f /\ ~req[t].isLogin THEN "insert" ELSE "free") /\ flag'[t] = f
        /\ \A u \in Threads : u # t => at'[u] = at[u] /\ flag'[u] = flag[u]
    BY DEF Fetched, Goto, TypeOK, IInv
  <1>2. OwnResult'
    BY <1>1, StillOwn
  <1>3. FlagSound'
    <2> SUFFICES ASSUME NEW u \in Threads
                 PROVE  /\ at'[u] = "insert" => ~req'[u].isLogin
                        /\ /\ ~shared' /\ ~tampered' /\ at'[u] = "free" /\ flag'[u]
                           /\ req'[u].isLogin /\ req'[u].name \notin Quoted
                           => <<req'[u].name, req'[u].pwd>> \in table'
      BY DEF FlagSound
    <2>1. CASE u = t
      BY <1>1, <2>1
    <2>2. CASE u # t
      BY <1>1, <2>2 DEF FlagSound
    <2> QED
      BY <2>1, <2>2
  <1>4. NamesFree'
    <2> SUFFICES ASSUME ~shared, ~tampered, ~unchecked', NEW u \in Threads, at'[u] = "insert",
                        req[u].name \notin Quoted
                 PROVE  /\ \A row \in table : row[1] # req[u].name
                        /\ \A v \in Threads : at'[v] = "insert" /\ req[v].name = req[u].name => v = u
      BY <1>1 DEF NamesFree
    <2>1. CASE u = t
      BY <1>1, <2>1
    <2>2. CASE u # t
      <3>1. at[u] = "insert" /\ ~unchecked
        BY <1>1, <2>2
      <3>2. /\ \A row \in table : row[1] # req[u].name
            /\ \A v \in Threads : at[v] = "insert" /\ req[v].name = req[u].name => v = u
        BY <3>1 DEF NamesFree
      <3>3. ASSUME at'[t] = "insert", req[t].name = req[u].name PROVE FALSE
        BY <1>1, <3>1, <3>3
      <3> QED
        BY <1>1, <3>2, <3>3
    <2> QED
      BY <2>1, <2>2
  <1>5. AccountsAreSound'
    BY <1>1 DEF AccountsAreSound, LoginsFound, NamesUnique
  <1> QED
    BY <1>2, <1>3, <1>4, <1>5

\* An INSERT adds the row of a name that has none, or nothing more is claimed.
LEMMA InsertLogin ==
    ASSUME LInv, NEW t \in Threads, Insert(t)
    PROVE  Accounts'
  <1> USE DEF LInv, Accounts
  <1>0. /\ at[t] = "insert" /\ ~req[t].isLogin
        /\ at' = [at EXCEPT ![t] = "free"]
        /\ flag' = [flag EXCEPT ![t] = TRUE]
        /\ UNCHANGED <<sql, req, verified, unchecked, shared>>
    BY DEF Insert, Goto, FlagSound
  <1>1. at'[t] = "free" /\ \A u \in Threads : u # t => at'[u] = at[u] /\ flag'[u] = flag[u]
    BY <1>0 DEF TypeOK, IInv
  <1>2. CASE UNCHANGED <<table, tampered>>
    BY <1>0, <1>1, <1>2, QuietLogin
  <1>3. CASE tampered'
    <2>1. OwnResult'
      BY <1>0, <1>1, StillOwn
    <2>2. FlagSound'
      BY <1>0, <1>1, <1>3 DEF FlagSound
    <2> QED
      BY <1>3, <2>1, <2>2 DEF NamesFree, AccountsAreSound
  <1>4. CASE /\ Plain(req[t]) /\ ~tampered
             /\ table' = table \cup {<<req[t].name, req[t].pwd>>}
             /\ UNCHANGED tampered
    <2>1. OwnResult'
      BY <1>0, <1>1, StillOwn
    <2>2. FlagSound'
      BY <1>0, <1>1, <1>4 DEF FlagSound
    <2>3. NamesFree'
      <3> SUFFICES ASSUME ~shared, ~tampered, ~unchecked, NEW u \in Threads, at'[u] = "insert",
                          req[u].name \notin Quoted
                   PROVE  /\ \A row \in table' : row[1] # req[u].name
                          /\ \A v \in Threads :
                               at'[v] = "insert" /\ req[v].name = req[u].name => v = u
        BY <1>0, <1>4 DEF NamesFree
      <3>1. at[u] = "insert" /\ u # t
        BY <1>1
      <3>2. /\ \A row \in table : row[1] # req[u].name
            /\ \A v \in Threads : at[v] = "insert" /\ req[v].name = req[u].name => v = u
        BY <3>1 DEF NamesFree
      <3>3. req[t].name # req[u].name
        BY <1>0, <3>1, <3>2
      <3> QED
        BY <1>1, <1>4, <3>2, <3>3
    <2>4. AccountsAreSound'
      <3>1. ASSUME ~shared, ~tampered PROVE LoginsFound'
        BY <1>0, <1>4, <3>1 DEF AccountsAreSound, LoginsFound
      <3>2. ASSUME ~shared, ~tampered, ~unchecked PROVE NamesUnique'
        <4>1. NamesUnique /\ \A row \in table : row[1] # req[t].name
          BY <1>0, <1>4, <3>2 DEF AccountsAreSound, NamesFree, Plain
        <4> QED
          BY <1>4, <4>1 DEF NamesUnique
      <3> QED
        BY <1>0, <1>4, <3>1, <3>2 DEF AccountsAreSound
    <2> QED
      BY <2>1, <2>2, <2>3, <2>4
  <1> QED
    BY <1>2, <1>3, <1>4 DEF Insert

\* Every step keeps what is known of accounts.
LEMMA StepLogin == LInv /\ Next => Accounts'
  <1> SUFFICES ASSUME LInv, NEW t \in Threads,
                      \/ Step(t)
                      \/ Crash(t)
                      \/ \E r \in Asked : Call(t, r)
               PROVE  Accounts'
    BY DEF Next
  <1> USE DEF Goto, pool, database
  <1>0. /\ at \in [Threads -> {"idle", "empty", "wait", "pop", "destruct",
                               "assert", "select", "insert", "free"}]
        /\ sql \in [Threads -> Handle]
        /\ req \in [Threads -> Request]
        /\ flag \in [Threads -> BOOLEAN]
        /\ shared \in BOOLEAN
        /\ TypeOK
    BY DEF TypeOK, IInv, LInv
  <1>1. ASSUME NEW r \in Asked, Call(t, r) PROVE Accounts'
    BY <1>0, <1>1, QuietLogin DEF Call
  <1>2. CASE SeeEmpty(t)
    BY <1>0, <1>2, QuietLogin DEF SeeEmpty
  <1>3. CASE SeeNonEmpty(t)
    BY <1>0, <1>3, QuietLogin DEF SeeNonEmpty
  <1>4. CASE SemWait(t)
    BY <1>0, <1>4, QuietLogin DEF SemWait
  <1>5. CASE PopConn(t)
    BY <1>0, <1>5, QuietLogin DEF PopConn
  <1>6. CASE DestroyTemporary(t)
    BY <1>0, <1>6, QuietLogin DEF DestroyTemporary
  <1>7. CASE AssertSql(t)
    <2>1. CASE sql[t] = NullConn
      BY <1>0, <1>7, <2>1, QuietLogin DEF AssertSql
    <2>2. CASE sql[t] # NullConn
      <3>1. /\ at[t] = "assert"
            /\ at' = [at EXCEPT ![t] = "select"]
            /\ flag' = [flag EXCEPT ![t] = ~req[t].isLogin]
            /\ UNCHANGED <<sql, req, verified, table, tampered, unchecked>>
        BY <1>7, <2>2 DEF AssertSql
      <3>2. shared' <=> shared \/ Users(sql[t]) # {}
        BY <1>7, <2>2, Zenon DEF AssertSql
      <3>3. at'[t] = "select" /\ \A u \in Threads : u # t => at'[u] = at[u] /\ flag'[u] = flag[u]
        BY <1>0, <3>1
      <3>4. OwnResult'
        <4> SUFFICES ASSUME ~shared', NEW v \in Threads, NEW u \in Threads,
                            at'[v] \in {"select", "insert"}, at'[u] \in {"select", "insert"},
                            sql'[u] = sql'[v]
                     PROVE  u = v
          BY DEF OwnResult, Users
        <4>1. Users(sql[t]) = {} /\ ~shared
          BY <3>2
        <4>2. ASSUME NEW w \in Threads, w # t, at'[w] \in {"select", "insert"}
              PROVE  sql[w] # sql[t]
          BY <3>3, <4>1, <4>2 DEF Users
        <4> QED
          BY <3>1, <3>3, <4>1, <4>2 DEF LInv, Accounts, OwnResult, Users
      <3>5. FlagSound'
        BY <3>1, <3>2, <3>3 DEF LInv, Accounts, FlagSound
      <3>6. NamesFree'
        BY <3>1, <3>2, <3>3 DEF LInv, Accounts, NamesFree
      <3>7. AccountsAreSound'
        BY <3>1, <3>2 DEF LInv, Accounts, AccountsAreSound, LoginsFound, NamesUnique
      <3> QED
        BY <3>4, <3>5, <3>6, <3>7 DEF Accounts
    <2> QED
      BY <2>1, <2>2
  <1>8. CASE SelectFails(t)
    <2>1. verified' = verified
      BY <1>8 DEF SelectFails, Return
    <2> QED
      BY <1>0, <1>8, <2>1, QuietLogin DEF SelectFails, Return
  <1>9. CASE Select(t)
    <2>1. PICK u \in Users(sql[t]) : \E f \in FetchedFlag(t, u) :
             /\ f \in BOOLEAN
             /\ Fetched(t, f)
             /\ unchecked => unchecked'
             /\ f /\ ~req[t].isLogin /\ ~unchecked' =>
                    \A v \in Threads : at[v] = "insert" => req[v].name # req[t].name
      BY <1>0, <1>9, SelectFetches
    <2>2. PICK f \in FetchedFlag(t, u) :
             /\ f \in BOOLEAN
             /\ Fetched(t, f)
             /\ unchecked => unchecked'
             /\ f /\ ~req[t].isLogin /\ ~unchecked' =>
                    \A v \in Threads : at[v] = "insert" => req[v].name # req[t].name
      BY <2>1
    <2>3. at[t] = "select"
      BY <2>2 DEF Fetched
    <2>4. ASSUME ~shared, ~tampered, f, req[t].name \notin Quoted
          PROVE  /\ req[t].isLogin => <<req[t].name, req[t].pwd>> \in table
                 /\ ~req[t].isLogin => \A row \in table : row[1] # req[t].name
      <3>1. u = t
        BY <2>3, <2>4 DEF LInv, Accounts, OwnResult, Users
      <3> DEFINE rows == {row \in table : row[1] = req[t].name}
      <3>2. f \in (IF rows = {} THEN {~req[t].isLogin}
                   ELSE {req[t].isLogin /\ row[2] = req[t].pwd : row \in rows})
        BY <2>2, <2>4, <3>1 DEF FetchedFlag
      <3>3. CASE rows = {}
        BY <2>4, <3>2, <3>3
      <3>4. CASE rows # {}
        <4>1. PICK row \in rows : f = (req[t].isLogin /\ row[2] = req[t].pwd)
          BY <3>2, <3>4
        <4>2. req[t].isLogin /\ row \in table /\ row[1] = req[t].name /\ row[2] = req[t].pwd
          BY <2>4, <4>1
        <4>3. row = <<row[1], row[2]>>
          BY <1>0, <4>2 DEF TypeOK
        <4> QED
          BY <4>2, <4>3
      <3> QED
        BY <3>3, <3>4
    <2> QED
      BY <2>2, <2>4, FetchLogin
  <1>10. CASE Insert(t)
    BY <1>10, InsertLogin
  <1>11. CASE FreeAndReturn(t)
    <2>1. /\ UNCHANGED <<table, tampered, unchecked, shared>> /\ at[t] = "free"
          /\ at'[t] = "idle"
          /\ \A u \in Threads : u # t =>
               at'[u] = at[u] /\ sql'[u] = sql[u] /\ req'[u] = req[u] /\ flag'[u] = flag[u]
      BY <1>0, <1>11 DEF FreeAndReturn, Return
    <2>2. verified' = IF flag[t] /\ req[t].isLogin
                      THEN verified \cup {<<req[t].name, req[t].pwd>>} ELSE verified
      BY <1>11 DEF FreeAndReturn, Return
    <2>3. OwnResult'
      BY <2>1, StillOwn DEF LInv, Accounts
    <2>4. FlagSound' /\ NamesFree'
      BY <2>1 DEF LInv, Accounts, FlagSound, NamesFree
    <2>5. ~shared /\ ~tampered => LoginsFound'
      BY <2>1, <2>2 DEF LInv, Accounts, AccountsAreSound, FlagSound, LoginsFound
    <2>6. AccountsAreSound'
      BY <2>1, <2>5 DEF LInv, Accounts, AccountsAreSound, NamesUnique
    <2> QED
      BY <2>3, <2>4, <2>6 DEF Accounts
  <1>12. CASE Crash(t)
    BY <1>0, <1>12, QuietLogin DEF Crash
  <1>13. CASE NoResult(t)
    <2>1. (~req[t].isLogin) \in BOOLEAN
      BY <1>0 DEF Request
    <2>2. /\ Fetched(t, ~req[t].isLogin)
          /\ unchecked' = (unchecked \/ ~req[t].isLogin)
      BY <1>13 DEF NoResult
    <2> QED
      BY <2>1, <2>2, FetchLogin
  <1> QED
    BY <1>1, <1>2, <1>3, <1>4, <1>5, <1>6, <1>7, <1>8, <1>9, <1>10, <1>11, <1>12, <1>13 DEF Step

\* Until two threads share a connection or a statement is not the one that is
\* written, a login succeeds only with the name and the password of a row, and only
\* two registrations at once, or a lost result, give one name two passwords.
THEOREM AccountsSound == Spec => []AccountsAreSound
  <1>1. Init => Accounts
    BY DEF Init, Accounts, OwnResult, FlagSound, NamesFree, AccountsAreSound, LoginsFound,
           NamesUnique, Users
  <1>2. LInv /\ [Next]_vars => Accounts'
    <2>1. CASE Next
      BY <2>1, StepLogin
    <2>2. CASE UNCHANGED vars
      BY <2>2 DEF vars, pool, database, LInv, Accounts, OwnResult, FlagSound, NamesFree,
                  AccountsAreSound, LoginsFound, NamesUnique, Users
    <2> QED
      BY <2>1, <2>2
  <1>3. LInv /\ [Next]_vars => LInv'
    BY <1>2, StepIInv DEF LInv
  <1>4. Init => LInv
    BY <1>1, InitIInv DEF LInv
  <1>5. LInv => AccountsAreSound
    BY DEF LInv, Accounts
  <1> QED
    BY <1>3, <1>4, <1>5, PTL DEF Spec, SafeSpec

-------------------------------------------------------------------------------
(* A pool with a connection for each thread *)

\* Init has opened all of its connections, one for each thread or more.
Ample == Cardinality(Threads) <= connPoolNum /\ Cardinality(opened) = connPoolNum

\* Then nullptr is nowhere.
NoNull ==
    Ample => /\ ended # "assert"
             /\ NullConn \notin ToSet(s_connQue)
             /\ \A t \in Threads :
                  at[t] \in {"destruct", "assert", "select", "insert", "free"} =>
                      sql[t] # NullConn

\* The others cannot hold all connections.
LEMMA OneIsLeft ==
    ASSUME TypeOK, PoolExact, Ample, NEW t \in Threads, at[t] # "destruct"
    PROVE  s_connQue # <<>>
  <1> SUFFICES ASSUME s_connQue = <<>> PROVE FALSE
    OBVIOUS
  <1> DEFINE H == {u \in Holding : sql[u] \in opened}
             f == [u \in H |-> sql[u]]
  <1>1. ToSet(s_connQue) = {}
    BY DEF ToSet
  <1>2. f \in Surjection(H, opened)
    BY <1>1 DEF PoolExact, NoConnectionLost, Surjection
  <1>3. IsFiniteSet(Threads \ {t}) /\ Cardinality(Threads \ {t}) = Cardinality(Threads) - 1
    BY SqlAssumption, FS_RemoveElement
  <1>4. H \in SUBSET (Threads \ {t})
    BY DEF Holding
  <1>5. /\ IsFiniteSet(H)
        /\ Cardinality(H) <= Cardinality(Threads) - 1
    BY <1>3, <1>4, FS_Subset
  <1>6. Cardinality(opened) <= Cardinality(H)
    BY <1>2, <1>5, FS_Surjection
  <1>7. Cardinality(Threads) \in Nat /\ Cardinality(H) \in Nat /\ connPoolNum \in Nat
    BY <1>5, SqlAssumption, FS_CardinalityType DEF TypeOK
  <1> QED
    BY <1>5, <1>6, <1>7 DEF Ample

\* If all could be opened, Init has queued no nullptr.
LEMMA InitNoNull == Init => NoNull
  <1> SUFFICES ASSUME Init, Ample PROVE NullConn \notin ToSet(s_connQue)
    BY DEF Init, NoNull
  <1> SUFFICES ASSUME NullConn \in ToSet(s_connQue) PROVE FALSE
    OBVIOUS
  <1>1. Cardinality(Conns) \in Nat /\ connPoolNum \in Nat
    BY SqlAssumption, FS_CardinalityType DEF Init, PoolInit
  <1>2. s_connQue \in Surjection(1..connPoolNum, ToSet(s_connQue))
    BY DEF Init, PoolInit, ToSet, Surjection
  <1>3. IsFiniteSet(1..connPoolNum) /\ Cardinality(1..connPoolNum) = connPoolNum
    BY <1>1, FS_Interval
  <1>4. /\ IsFiniteSet(ToSet(s_connQue))
        /\ Cardinality(ToSet(s_connQue)) <= connPoolNum
    BY <1>2, <1>3, FS_Surjection
  <1>5. Cardinality(opened) = Cardinality(ToSet(s_connQue)) - 1
    BY <1>4, FS_RemoveElement DEF Init, PoolInit
  <1>6. Cardinality(ToSet(s_connQue)) \in Nat
    BY <1>4, FS_CardinalityType
  <1> QED
    BY <1>1, <1>4, <1>5, <1>6 DEF Ample

\* Every step keeps nullptr out.
LEMMA StepNoNull == IInv /\ NoNull /\ [Next]_vars => NoNull'
  <1> SUFFICES ASSUME IInv, NoNull, [Next]_vars, Ample' PROVE NoNull'
    BY DEF NoNull
  <1> USE DEF Goto, pool, database
  <1>0. /\ at \in [Threads -> {"idle", "empty", "wait", "pop", "destruct",
                               "assert", "select", "insert", "free"}]
        /\ sql \in [Threads -> Handle]
        /\ TypeOK /\ PoolExact
    BY DEF TypeOK, IInv
  <1>1. UNCHANGED <<connPoolNum, opened>>
    BY DEF Next, Step, vars, Call, SeeEmpty, SeeNonEmpty, SemWait, PopConn, DestroyTemporary,
           AssertSql, SelectFails, Select, NoResult, Fetched, Insert, FreeAndReturn, Crash
  <1>2. /\ Ample
        /\ ended # "assert"
        /\ NullConn \notin ToSet(s_connQue)
        /\ \A t \in Threads :
             at[t] \in {"destruct", "assert", "select", "insert", "free"} => sql[t] # NullConn
    BY <1>1 DEF Ample, NoNull
  <1>3. ASSUME NEW t \in Threads, NEW r \in Asked, Call(t, r) PROVE NoNull'
    BY <1>0, <1>2, <1>3 DEF Call, NoNull
  <1>4. ASSUME NEW t \in Threads, SeeEmpty(t) PROVE NoNull'
    BY <1>2, <1>4, <1>0, OneIsLeft DEF SeeEmpty
  <1>5. ASSUME NEW t \in Threads, SeeNonEmpty(t) PROVE NoNull'
    BY <1>0, <1>2, <1>5 DEF SeeNonEmpty, NoNull
  <1>6. ASSUME NEW t \in Threads, SemWait(t) PROVE NoNull'
    BY <1>0, <1>2, <1>6 DEF SemWait, NoNull
  <1>7. ASSUME NEW t \in Threads, PopConn(t) PROVE NoNull'
    <2>1. s_connQue # <<>>
      BY <1>0, <1>7, PopNonEmpty DEF PopConn, Popping, PoolExact
    <2>2. /\ Head(s_connQue) \in ToSet(s_connQue)
          /\ ToSet(s_connQue') \subseteq ToSet(s_connQue)
      BY <1>0, <1>7, <2>1, PopQueue DEF PopConn
    <2> QED
      BY <1>0, <1>2, <1>7, <2>2 DEF PopConn, NoNull
  <1>8. ASSUME NEW t \in Threads, DestroyTemporary(t) PROVE NoNull'
    <2>1. sql[t] # NullConn /\ sql[t] \in Handle
      BY <1>0, <1>2, <1>8 DEF DestroyTemporary
    <2>2. ToSet(s_connQue') = ToSet(s_connQue) \cup {sql[t]}
      BY <1>0, <1>8, <2>1, PushQueue DEF DestroyTemporary, FreeConn
    <2> QED
      BY <1>0, <1>2, <1>8, <2>1, <2>2 DEF DestroyTemporary, NoNull
  <1>9. ASSUME NEW t \in Threads, AssertSql(t) PROVE NoNull'
    <2>1. sql[t] # NullConn
      BY <1>2, <1>9 DEF AssertSql
    <2>2. /\ at[t] = "assert"
          /\ at' = [at EXCEPT ![t] = "select"]
          /\ UNCHANGED <<s_connQue, sql, ended>>
      BY <1>9, <2>1 DEF AssertSql
    <2> QED
      BY <1>0, <1>2, <2>2 DEF NoNull
  <1>10. ASSUME NEW t \in Threads, SelectFails(t) PROVE NoNull'
    BY <1>0, <1>2, <1>10 DEF SelectFails, Return, NoNull
  <1>11. ASSUME NEW t \in Threads, NEW f \in BOOLEAN, Fetched(t, f) PROVE NoNull'
    BY <1>0, <1>2, <1>11 DEF Fetched, NoNull
  <1>12. ASSUME NEW t \in Threads, Insert(t) PROVE NoNull'
    BY <1>0, <1>2, <1>12 DEF Insert, NoNull
  <1>13. ASSUME NEW t \in Threads, FreeAndReturn(t) PROVE NoNull'
    <2>1. sql[t] # NullConn /\ sql[t] \in Handle
      BY <1>0, <1>2, <1>13 DEF FreeAndReturn, Return
    <2>2. ToSet(s_connQue') = ToSet(s_connQue) \cup {sql[t]}
      BY <1>0, <1>13, <2>1, PushQueue DEF FreeAndReturn, FreeConn
    <2> QED
      BY <1>0, <1>2, <1>13, <2>1, <2>2 DEF FreeAndReturn, Return, NoNull
  <1>14. ASSUME NEW t \in Threads, Crash(t) PROVE NoNull'
    BY <1>2, <1>14 DEF Crash, NoNull
  <1>15. CASE UNCHANGED vars
    BY <1>2, <1>15 DEF vars, NoNull
  <1>16. ASSUME NEW t \in Threads, Select(t) PROVE NoNull'
    BY <1>0, <1>11, <1>16, SelectFetches
  <1>17. ASSUME NEW t \in Threads, NoResult(t) PROVE NoNull'
    BY <1>0, <1>11, <1>17 DEF NoResult, TypeOK, Request
  <1> QED
    BY <1>3, <1>4, <1>5, <1>6, <1>7, <1>8, <1>9, <1>10, <1>12, <1>13, <1>14, <1>15, <1>16, <1>17
    DEF Next, Step

\* With a connection for each thread, and none failed, GetConn never returns
\* nullptr and assert(sql) holds, for any number of threads.
THEOREM EnoughConnections == Spec => []NeverBusy
  <1>1. IInv /\ NoNull => NeverBusy
    <2> SUFFICES ASSUME IInv, NoNull, Ample, NEW t \in Threads
                 PROVE  ended # "assert" /\ (at[t] = "empty" => s_connQue # <<>>)
      BY DEF NeverBusy, Ample, NoNull
    <2> QED
      BY OneIsLeft DEF IInv, NoNull
  <1>2. IInv /\ NoNull /\ [Next]_vars => IInv' /\ NoNull'
    BY StepIInv, StepNoNull
  <1>3. Init => IInv /\ NoNull
    BY InitIInv, InitNoNull
  <1> QED
    BY <1>1, <1>2, <1>3, PTL DEF Spec, SafeSpec
===============================================================================
