----------------------------- MODULE AsyncLogProofs -----------------------------
(***************************************************************************)
(* Theorems about AsyncLog, for any number of writers, any capacity of the *)
(* queue, with and without the writing thread, for any number of lines and *)
(* days: where the lines are, and who finds the file open                  *)
(***************************************************************************)
EXTENDS AsyncLog, SequenceTheorems, FiniteSetTheorems, TLAPS

\* Where a writer has l_mutex.
Holding == {"test", "push", "put", "fclose", "fopen"}

Places == {"idle", "check", "pass", "name", "turn", "fclose", "fopen", "lock",
           "test", "push", "put", "flush",
           "pop", "asleep", "woken", "out", "drain", "close", "join", "done"}

Types ==
    /\ l_mutex \in Writers \cup {Logger, Nobody}
    /\ l_blQue \in Seq(Nat \ {0})
    /\ pc \in [Writers \cup {Logger, Exit} -> Places]
    /\ DOMAIN newFile = Writers
    /\ hand \in Nat
    /\ out \in Seq(Nat)
    /\ count \in Nat
    /\ bypassed \in BOOLEAN
    /\ overlapped \in BOOLEAN

Mutex ==
    /\ \A w \in Writers : pc[w] \in Holding <=> l_mutex = w
    /\ pc[Logger] = "out" <=> l_mutex = Logger
    /\ pc[Logger] \notin {"put", "fclose"} /\ \A w \in Writers : pc[w] # "out"

\* ~Log begins when nobody logs, and closes a queue that is empty.
Ending ==
    /\ pc[Exit] # "idle" => \A w \in Writers : pc[w] = "idle"
    /\ pc[Exit] \in {"close", "join", "fclose", "done"} => l_blQue = <<>>
    /\ pc[Exit] \in {"fclose", "done"} => pc[Logger] \in {"idle", "done"}
    /\ ~isAsync => /\ l_blQue = <<>> /\ pc[Logger] = "idle"
                   /\ \A w \in Writers : pc[w] # "push"

Popped == IF hand = 0 THEN 0 ELSE 1
Held == IF InWrite = {} THEN 0 ELSE 1

\* Every line is in one place: there are as many as were taken, ...
Counted ==
    /\ hand # 0 <=> pc[Logger] \in {"lock", "out"}
    /\ Len(out) + Popped + Len(l_blQue) + Held = count

\* ... and all of them are there.
Together ==
    ToSet(out) \cup (IF hand = 0 THEN {} ELSE {hand}) \cup ToSet(l_blQue)
        \cup (IF InWrite = {} THEN {} ELSE {count}) = 1..count

\* As long as no line has gone past the queue, they are in order.
Ordered ==
    ~bypassed => /\ \A i \in 1..Len(out) : out[i] = i
                 /\ hand # 0 => hand = Len(out) + 1
                 /\ \A i \in 1..Len(l_blQue) : l_blQue[i] = Len(out) + Popped + i

\* The file is closed while a writer changes it, and at the end.
Stream == fpOpen <=> pc[Exit] # "done" /\ \A w \in Writers : pc[w] # "fopen"

Named(w) == pc[w] \in {"turn", "fclose", "fopen"}

\* A writer that changes the file alone brings it to l_toDay.
Day ==
    ~overlapped =>
        /\ \A v, w \in Writers : Turning(v) /\ Turning(w) => v = w
        /\ \A w \in Writers : Named(w) => newFile[w].day = l_toDay
        /\ (\A w \in Writers : ~Named(w)) => l_fp.day = l_toDay

Control == Types /\ Mutex /\ Ending
Lines == Counted /\ Together /\ Ordered
IInv == Control /\ Lines /\ Stream /\ Day
-------------------------------------------------------------------------------
(* Who is where *)

\* a goes to another place; nobody else moves, but for a notified Logger.
Moves(a, to) ==
    /\ pc' \in [Writers \cup {Logger, Exit} -> Places]
    /\ pc'[a] = to
    /\ \A b \in Writers \cup {Exit} : b # a => pc'[b] = pc[b]
    /\ a # Logger => \/ pc'[Logger] = pc[Logger]
                     \/ pc[Logger] = "asleep" /\ pc'[Logger] = "woken"

\* What each step does to pc and to l_mutex.
LEMMA WriterMoves ==
    ASSUME Types, NEW w \in Writers
    PROVE  /\ Begin(w) => pc[w] = "idle" /\ Moves(w, "check")
           /\ CheckDay(w) => pc[w] = "check" /\ (Moves(w, "pass") \/ Moves(w, "lock"))
           /\ PassLock(w) => pc[w] = "pass" /\ Moves(w, "name")
           /\ Name(w) => pc[w] = "name" /\ Moves(w, "turn")
           /\ Turn(w) => pc[w] = "turn" /\ Moves(w, "fclose")
           /\ Fclose(w) => pc[w] = "fclose" /\ Moves(w, "fopen")
           /\ Fopen(w) => pc[w] = "fopen" /\ Moves(w, "lock")
           /\ TakeLine(w) => pc[w] = "lock" /\ Moves(w, "test")
           /\ TestFull(w) => pc[w] = "test" /\ (Moves(w, "push") \/ Moves(w, "put"))
           /\ PushBack(w) => pc[w] = "push" /\ Moves(w, "flush")
           /\ PutDirect(w) => pc[w] = "put" /\ Moves(w, "flush")
           /\ Flush(w) => pc[w] = "flush" /\ Moves(w, "idle")
  <1> USE LogAssumption DEF LogAssumption, Types, Places, Moves, Goto, NotifyAndGoto
  <1>1. Begin(w) => pc[w] = "idle" /\ Moves(w, "check")
    BY DEF Begin
  <1>2. CheckDay(w) => pc[w] = "check" /\ (Moves(w, "pass") \/ Moves(w, "lock"))
    BY DEF CheckDay
  <1>3. PassLock(w) => pc[w] = "pass" /\ Moves(w, "name")
    BY DEF PassLock
  <1>4. Name(w) => pc[w] = "name" /\ Moves(w, "turn")
    BY DEF Name
  <1>5. Turn(w) => pc[w] = "turn" /\ Moves(w, "fclose")
    BY DEF Turn
  <1>6. Fclose(w) => pc[w] = "fclose" /\ Moves(w, "fopen")
    BY DEF Fclose
  <1>7. Fopen(w) => pc[w] = "fopen" /\ Moves(w, "lock")
    BY DEF Fopen
  <1>8. TakeLine(w) => pc[w] = "lock" /\ Moves(w, "test")
    BY DEF TakeLine
  <1>9. TestFull(w) => pc[w] = "test" /\ (Moves(w, "push") \/ Moves(w, "put"))
    BY DEF TestFull
  <1>10. PushBack(w) => pc[w] = "push" /\ Moves(w, "flush")
    BY DEF PushBack
  <1>11. PutDirect(w) => pc[w] = "put" /\ Moves(w, "flush")
    BY DEF PutDirect
  <1>12. Flush(w) => pc[w] = "flush" /\ Moves(w, "idle")
    BY DEF Flush
  <1> QED
    BY <1>1, <1>2, <1>3, <1>4, <1>5, <1>6, <1>7, <1>8, <1>9, <1>10, <1>11, <1>12

LEMMA OtherMoves ==
    ASSUME Types
    PROVE  /\ PopClosed => pc[Logger] = "woken" /\ Moves(Logger, "done")
           /\ LockForLine => pc[Logger] = "lock" /\ Moves(Logger, "out")
           /\ PutLine => pc[Logger] = "out" /\ Moves(Logger, "pop")
           /\ SpuriousWake => pc[Logger] = "asleep" /\ Moves(Logger, "woken")
           /\ BeginExit => pc[Exit] = "idle" /\ Moves(Exit, IF isAsync THEN "drain" ELSE "fclose")
           /\ DrainWait => pc[Exit] = "drain" /\ Moves(Exit, "drain")
           /\ Drained => pc[Exit] = "drain" /\ Moves(Exit, "close")
           /\ Close => pc[Exit] = "close" /\ Moves(Exit, "join")
           /\ Join => pc[Exit] = "join" /\ Moves(Exit, "fclose")
           /\ CloseFile => pc[Exit] = "fclose" /\ Moves(Exit, "done")
  <1> USE LogAssumption DEF LogAssumption, Types, Places, Moves, Goto, NotifyAndGoto
  <1>1. PopClosed => pc[Logger] = "woken" /\ Moves(Logger, "done")
    BY DEF PopClosed
  <1>2. LockForLine => pc[Logger] = "lock" /\ Moves(Logger, "out")
    BY DEF LockForLine
  <1>3. PutLine => pc[Logger] = "out" /\ Moves(Logger, "pop")
    BY DEF PutLine
  <1>4. SpuriousWake => pc[Logger] = "asleep" /\ Moves(Logger, "woken")
    BY DEF SpuriousWake
  <1>5. BeginExit => pc[Exit] = "idle" /\ Moves(Exit, IF isAsync THEN "drain" ELSE "fclose")
    BY DEF BeginExit
  <1>6. DrainWait => pc[Exit] = "drain" /\ Moves(Exit, "drain")
    BY DEF DrainWait
  <1>7. Drained => pc[Exit] = "drain" /\ Moves(Exit, "close")
    BY DEF Drained
  <1>8. Close => pc[Exit] = "close" /\ Moves(Exit, "join")
    BY DEF Close
  <1>9. Join => pc[Exit] = "join" /\ Moves(Exit, "fclose")
    BY DEF Join
  <1>10. CloseFile => pc[Exit] = "fclose" /\ Moves(Exit, "done")
    BY DEF CloseFile
  <1> QED
    BY <1>1, <1>2, <1>3, <1>4, <1>5, <1>6, <1>7, <1>8, <1>9, <1>10
LEMMA PopMoves ==
    ASSUME Types, Pop
    PROVE  /\ pc[Logger] \in {"pop", "woken"}
           /\ \/ /\ l_blQue = <<>> /\ Moves(Logger, "asleep")
                 /\ l_blQue' = l_blQue /\ hand' = hand
              \/ /\ l_blQue # <<>> /\ Moves(Logger, "lock")
                 /\ hand' = Head(l_blQue) /\ l_blQue' = Tail(l_blQue)
  BY LogAssumption DEF LogAssumption, Types, Places, Moves, Pop

-------------------------------------------------------------------------------
(* The lock and the end *)

\* A line that is being written has a number.
LEMMA HeldIsLine ==
    ASSUME Types, Counted, InWrite # {}
    PROVE  count \in Nat \ {0}
  <1>1. Len(out) \in Nat /\ Len(l_blQue) \in Nat
    BY LenProperties DEF Types
  <1>2. Popped \in {0, 1} /\ Held = 1
    BY DEF Popped, Held
  <1>3. Len(out) + Popped + Len(l_blQue) + Held = count
    BY DEF Counted
  <1> QED
    BY <1>1, <1>2, <1>3

LEMMA TypesStep ==
    ASSUME Types, Counted, Together, Next
    PROVE  Types'
  <1> USE LogAssumption DEF LogAssumption, Types, Moves
  <1>1. ASSUME NEW w \in Writers,
               \/ Begin(w) \/ CheckDay(w) \/ PassLock(w) \/ Name(w) \/ Fclose(w)
               \/ TestFull(w) \/ Flush(w)
        PROVE  Types'
    <2>1. UNCHANGED <<l_mutex, queue, hand, out, count, bypassed>> /\ DOMAIN newFile' = Writers
      BY <1>1 DEF Begin, CheckDay, PassLock, Name, Fclose, TestFull, Flush, history
    <2>2. overlapped' \in BOOLEAN
      BY <1>1 DEF Begin, CheckDay, PassLock, Name, Fclose, TestFull, Flush, history
    <2>3. pc' \in [Writers \cup {Logger, Exit} -> Places]
      BY <1>1, WriterMoves
    <2> QED
      BY <2>1, <2>2, <2>3 DEF queue
  <1>2. ASSUME NEW w \in Writers, Turn(w) \/ Fopen(w) \/ TakeLine(w)
        PROVE  Types'
    <2>1. /\ UNCHANGED <<queue, newFile, hand, out, bypassed, overlapped>>
          /\ l_mutex' \in {w, Nobody} /\ count' \in {count, count + 1}
      BY <1>2 DEF Turn, Fopen, TakeLine, Acquire, Release, history
    <2>2. pc' \in [Writers \cup {Logger, Exit} -> Places]
      BY <1>2, WriterMoves
    <2> QED
      BY <2>1, <2>2 DEF queue
  <1>3. ASSUME NEW w \in Writers, PushBack(w) \/ PutDirect(w)
        PROVE  Types'
    <2>1. w \in InWrite
      BY <1>3, WriterMoves DEF InWrite
    <2>2. count \in Nat \ {0}
      BY <2>1, HeldIsLine
    <2>3. /\ UNCHANGED <<newFile, hand, count, overlapped>> /\ l_mutex' = Nobody
          /\ bypassed' \in BOOLEAN
          /\ \/ out' = out /\ l_blQue' = Append(l_blQue, count)
             \/ l_blQue' = l_blQue /\ out' = Append(out, count)
      BY <1>3 DEF PushBack, PutDirect, Release, queue, history
    <2>4. Append(l_blQue, count) \in Seq(Nat \ {0}) /\ Append(out, count) \in Seq(Nat)
      BY <2>2, AppendProperties
    <2>5. pc' \in [Writers \cup {Logger, Exit} -> Places]
      BY <1>3, WriterMoves
    <2> QED
      BY <2>2, <2>3, <2>4, <2>5
  <1>4. CASE Pop
    <2>1. UNCHANGED <<l_mutex, newFile, out, history>>
      BY <1>4 DEF Pop
    <2>2. pc' \in [Writers \cup {Logger, Exit} -> Places]
      BY <1>4, PopMoves
    <2>3. l_blQue' \in Seq(Nat \ {0}) /\ hand' \in Nat
      <3>1. l_blQue # <<>> => Head(l_blQue) \in Nat \ {0} /\ Tail(l_blQue) \in Seq(Nat \ {0})
        BY HeadTailProperties
      <3> QED
        BY <1>4, <3>1, PopMoves
    <2> QED
      BY <2>1, <2>2, <2>3 DEF history
  <1>5. CASE PutLine
    <2>1. UNCHANGED <<queue, newFile, history>> /\ out' = Append(out, hand) /\ hand' = 0
          /\ l_mutex' = Nobody
      BY <1>5 DEF PutLine, Release
    <2>2. Append(out, hand) \in Seq(Nat)
      BY AppendProperties
    <2>3. pc' \in [Writers \cup {Logger, Exit} -> Places]
      BY <1>5, OtherMoves
    <2> QED
      BY <2>1, <2>2, <2>3 DEF queue, history
  <1>6. CASE \/ PopClosed \/ LockForLine \/ SpuriousWake \/ BeginExit \/ DrainWait
             \/ Drained \/ Close \/ Join \/ CloseFile
    <2>1. /\ UNCHANGED <<newFile, hand, out, history>>
          /\ l_blQue' \in {l_blQue, <<>>} /\ l_mutex' \in {l_mutex, Logger}
      BY <1>6 DEF PopClosed, LockForLine, SpuriousWake, BeginExit, DrainWait, Drained, Close,
                  Join, CloseFile, Acquire, queue
    <2>2. pc' \in [Writers \cup {Logger, Exit} -> Places]
      BY <1>6, OtherMoves
    <2> QED
      BY <2>1, <2>2, EmptySeq DEF history
  <1>7. CASE NewDay
    BY <1>7 DEF NewDay, queue, history
  <1> QED
    BY <1>1, <1>2, <1>3, <1>4, <1>5, <1>6, <1>7 DEF Next, WriterStep, LoggerStep, ExitStep

LEMMA MutexStep ==
    ASSUME Types, Mutex, Next
    PROVE  Mutex'
  <1> USE LogAssumption DEF LogAssumption, Mutex, Holding, Moves
  <1>1. ASSUME NEW w \in Writers,
               \/ Begin(w) \/ CheckDay(w) \/ PassLock(w) \/ Name(w) \/ Fclose(w)
               \/ TestFull(w) \/ Flush(w)
        PROVE  Mutex'
    <2>1. l_mutex' = l_mutex
      BY <1>1 DEF Begin, CheckDay, PassLock, Name, Fclose, TestFull, Flush
    <2> QED
      BY <1>1, <2>1, WriterMoves
  <1>2. ASSUME NEW w \in Writers, Turn(w) \/ TakeLine(w)
        PROVE  Mutex'
    <2>1. l_mutex = Nobody /\ l_mutex' = w
      BY <1>2 DEF Turn, TakeLine, Acquire
    <2> QED
      BY <1>2, <2>1, WriterMoves
  <1>3. ASSUME NEW w \in Writers, Fopen(w) \/ PushBack(w) \/ PutDirect(w)
        PROVE  Mutex'
    <2>1. l_mutex' = Nobody
      BY <1>3 DEF Fopen, PushBack, PutDirect, Release
    <2> QED
      BY <1>3, <2>1, WriterMoves
  <1>4. CASE Pop
    <2>1. l_mutex' = l_mutex
      BY <1>4 DEF Pop
    <2> QED
      BY <1>4, <2>1, PopMoves
  <1>5. CASE LockForLine
    <2>1. l_mutex = Nobody /\ l_mutex' = Logger
      BY <1>5 DEF LockForLine, Acquire
    <2> QED
      BY <1>5, <2>1, OtherMoves
  <1>6. CASE PutLine
    <2>1. l_mutex' = Nobody
      BY <1>6 DEF PutLine, Release
    <2> QED
      BY <1>6, <2>1, OtherMoves
  <1>7. CASE \/ PopClosed \/ SpuriousWake \/ BeginExit \/ DrainWait
             \/ Drained \/ Close \/ Join \/ CloseFile
    <2>1. l_mutex' = l_mutex
      BY <1>7 DEF PopClosed, SpuriousWake, BeginExit, DrainWait, Drained, Close, Join, CloseFile
    <2> QED
      BY <1>7, <2>1, OtherMoves
  <1>8. CASE NewDay
    BY <1>8 DEF NewDay
  <1> QED
    BY <1>1, <1>2, <1>3, <1>4, <1>5, <1>6, <1>7, <1>8
    DEF Next, WriterStep, LoggerStep, ExitStep

LEMMA EndingStep ==
    ASSUME Types, Ending, Next
    PROVE  Ending'
  <1> USE LogAssumption DEF LogAssumption, Ending, Moves, isAsync
  <1>1. ASSUME NEW w \in Writers, Begin(w)
        PROVE  Ending'
    <2>1. l_blQue' = l_blQue /\ pc[Exit] = "idle"
      BY <1>1 DEF Begin, queue
    <2> QED
      BY <1>1, <2>1, WriterMoves
  <1>2. ASSUME NEW w \in Writers,
               \/ CheckDay(w) \/ PassLock(w) \/ Name(w) \/ Turn(w) \/ Fclose(w) \/ Fopen(w)
               \/ TakeLine(w) \/ PutDirect(w) \/ Flush(w)
        PROVE  Ending'
    <2>1. l_blQue' = l_blQue
      BY <1>2 DEF CheckDay, PassLock, Name, Turn, Fclose, Fopen, TakeLine, PutDirect, Flush, queue
    <2> QED
      BY <1>2, <2>1, WriterMoves
  <1>3. ASSUME NEW w \in Writers, TestFull(w)
        PROVE  Ending'
    <2>1. l_blQue' = l_blQue /\ (~isAsync => Moves(w, "put"))
      BY <1>3 DEF TestFull, queue, Goto, Types, Places
    <2> QED
      BY <1>3, <2>1, WriterMoves
  <1>4. ASSUME NEW w \in Writers, PushBack(w)
        PROVE  Ending'
    <2>1. isAsync /\ pc[Exit] = "idle"
      BY <1>4, WriterMoves
    <2> QED
      BY <1>4, <2>1, WriterMoves
  <1>5. CASE Pop
    <2>1. pc[Logger] \in {"pop", "woken"} /\ (l_blQue = <<>> => l_blQue' = <<>>)
      BY <1>5, PopMoves
    <2> QED
      BY <1>5, <2>1, PopMoves
  <1>6. CASE PopClosed \/ LockForLine \/ PutLine \/ SpuriousWake
    <2>1. l_blQue' = l_blQue
      BY <1>6 DEF PopClosed, LockForLine, PutLine, SpuriousWake, queue
    <2> QED
      BY <1>6, <2>1, OtherMoves
  <1>7. CASE BeginExit
    <2>1. l_blQue' = l_blQue /\ \A w \in Writers : pc[w] = "idle"
      BY <1>7 DEF BeginExit, queue
    <2> QED
      BY <1>7, <2>1, OtherMoves
  <1>8. CASE DrainWait \/ CloseFile
    <2>1. l_blQue' = l_blQue
      BY <1>8 DEF DrainWait, CloseFile, queue
    <2> QED
      BY <1>8, <2>1, OtherMoves
  <1>9. CASE Drained \/ Close
    <2>1. l_blQue' = <<>>
      BY <1>9 DEF Drained, Close, queue
    <2> QED
      BY <1>9, <2>1, OtherMoves
  <1>10. CASE Join
    <2>1. l_blQue' = l_blQue /\ pc[Logger] = "done"
      BY <1>10 DEF Join, queue
    <2> QED
      BY <1>10, <2>1, OtherMoves
  <1>11. CASE NewDay
    BY <1>11 DEF NewDay, queue
  <1> QED
    BY <1>1, <1>2, <1>3, <1>4, <1>5, <1>6, <1>7, <1>8, <1>9, <1>10, <1>11
    DEF Next, WriterStep, LoggerStep, ExitStep
-------------------------------------------------------------------------------
(* The lines *)

LEMMA AppendSet ==
    ASSUME NEW S, NEW s \in Seq(S), NEW e
    PROVE  ToSet(Append(s, e)) = ToSet(s) \cup {e}
  <1>1. /\ Len(s) \in Nat /\ Len(Append(s, e)) = Len(s) + 1
        /\ \A i \in 1..Len(s) : Append(s, e)[i] = s[i]
        /\ Append(s, e)[Len(s) + 1] = e
        /\ DOMAIN s = 1..Len(s) /\ DOMAIN Append(s, e) = 1..(Len(s) + 1)
    BY AppendProperties, LenProperties
  <1> QED
    BY <1>1 DEF ToSet

LEMMA TailSet ==
    ASSUME NEW S, NEW s \in Seq(S), s # <<>>
    PROVE  ToSet(s) = {Head(s)} \cup ToSet(Tail(s))
  <1>1. /\ Len(s) \in Nat /\ Len(s) > 0 /\ Len(Tail(s)) = Len(s) - 1
        /\ \A i \in 1..(Len(s) - 1) : Tail(s)[i] = s[i + 1]
        /\ Head(s) = s[1]
        /\ DOMAIN s = 1..Len(s) /\ DOMAIN Tail(s) = 1..(Len(s) - 1)
    BY HeadTailProperties, LenProperties, EmptySeq
  <1>2. \A i \in 1..Len(s) : i = 1 \/ (i - 1 \in 1..(Len(s) - 1) /\ s[i] = Tail(s)[i - 1])
    BY <1>1
  <1>3. \A i \in 1..(Len(s) - 1) : i + 1 \in 1..Len(s)
    BY <1>1
  <1>4. ASSUME NEW e \in ToSet(s) PROVE e \in {Head(s)} \cup ToSet(Tail(s))
    <2>1. PICK i \in 1..Len(s) : e = s[i]
      BY <1>1 DEF ToSet
    <2> QED
      BY <1>1, <1>2, <2>1 DEF ToSet
  <1>5. ASSUME NEW e \in ToSet(Tail(s)) PROVE e \in ToSet(s)
    <2>1. PICK i \in 1..(Len(s) - 1) : e = Tail(s)[i]
      BY <1>1 DEF ToSet
    <2> QED
      BY <1>1, <1>3, <2>1 DEF ToSet
  <1>6. Head(s) \in ToSet(s)
    BY <1>1 DEF ToSet
  <1> QED
    BY <1>4, <1>5, <1>6

\* The steps that move no line.
LEMMA LinesStay ==
    ASSUME Lines, UNCHANGED <<l_blQue, hand, out, count, bypassed>>, InWrite' = InWrite,
           pc'[Logger] \in {"lock", "out"} <=> pc[Logger] \in {"lock", "out"}
    PROVE  Lines'
  BY DEF Lines, Counted, Together, Ordered, Popped, Held

LEMMA Aside ==
    ASSUME Types, NEW w \in Writers,
           \/ Begin(w) \/ CheckDay(w) \/ PassLock(w) \/ Name(w) \/ Turn(w) \/ Fclose(w)
           \/ Fopen(w) \/ TestFull(w) \/ Flush(w)
    PROVE  /\ UNCHANGED <<l_blQue, hand, out, count, bypassed>>
           /\ InWrite' = InWrite
           /\ pc'[Logger] \in {"lock", "out"} <=> pc[Logger] \in {"lock", "out"}
  <1> USE LogAssumption DEF LogAssumption, Moves
  <1>1. UNCHANGED <<l_blQue, hand, out, count, bypassed>>
    BY DEF Begin, CheckDay, PassLock, Name, Turn, Fclose, Fopen, TestFull, Flush, queue, history
  <1>2. \A v \in Writers : pc'[v] \in {"test", "push", "put"} <=> pc[v] \in {"test", "push", "put"}
    BY WriterMoves
  <1>3. InWrite' = InWrite
    BY <1>2 DEF InWrite
  <1>4. pc'[Logger] \in {"lock", "out"} <=> pc[Logger] \in {"lock", "out"}
    BY WriterMoves
  <1> QED
    BY <1>1, <1>3, <1>4

\* Only one thread is in Write's critical section.
LEMMA OneInWrite ==
    ASSUME Mutex
    PROVE  InWrite \subseteq {l_mutex}
  BY DEF Mutex, Holding, InWrite

LEMMA TakeLineStep ==
    ASSUME Types, Mutex, Lines, NEW w \in Writers, TakeLine(w)
    PROVE  Lines'
  <1> USE LogAssumption DEF LogAssumption, Moves
  <1>1. /\ UNCHANGED <<l_blQue, hand, out, bypassed>>
        /\ count' = count + 1 /\ l_mutex = Nobody
    BY DEF TakeLine, Acquire, queue
  <1>2. InWrite = {}
    BY <1>1, OneInWrite DEF InWrite
  <1>3. InWrite' # {}
    BY WriterMoves DEF InWrite
  <1>4. pc'[Logger] \in {"lock", "out"} <=> pc[Logger] \in {"lock", "out"}
    BY WriterMoves
  <1>5. Counted'
    <2>1. /\ Popped' = Popped /\ Held = 0 /\ Held' = 1
      BY <1>1, <1>2, <1>3 DEF Popped, Held
    <2>2. Len(out) \in Nat /\ Len(l_blQue) \in Nat /\ Popped \in Nat
      BY LenProperties DEF Types, Popped
    <2> QED
      BY <1>1, <1>4, <2>1, <2>2 DEF Lines, Counted
  <1>6. Together'
    <2>1. 1..(count + 1) = (1..count) \cup {count + 1}
      BY DEF Types
    <2> QED
      BY <1>1, <1>2, <1>3, <2>1 DEF Lines, Together
  <1>7. Ordered'
    BY <1>1 DEF Lines, Ordered, Popped
  <1> QED
    BY <1>5, <1>6, <1>7 DEF Lines

LEMMA PushBackStep ==
    ASSUME Types, Mutex, Lines, NEW w \in Writers, PushBack(w)
    PROVE  Lines'
  <1> USE LogAssumption DEF LogAssumption, Moves
  <1>1. /\ UNCHANGED <<hand, out, count, bypassed>>
        /\ l_blQue' = Append(l_blQue, count)
    BY DEF PushBack, history
  <1>2. InWrite = {w}
    BY WriterMoves, OneInWrite DEF InWrite, Mutex, Holding
  <1>3. InWrite' = {}
    BY <1>2, WriterMoves DEF InWrite
  <1>4. pc'[Logger] \in {"lock", "out"} <=> pc[Logger] \in {"lock", "out"}
    BY WriterMoves
  <1>5. /\ Len(out) \in Nat /\ Len(l_blQue) \in Nat /\ Popped \in Nat /\ count \in Nat
        /\ Len(l_blQue') = Len(l_blQue) + 1
        /\ \A i \in 1..Len(l_blQue) : l_blQue'[i] = l_blQue[i]
        /\ l_blQue'[Len(l_blQue) + 1] = count
        /\ Popped' = Popped /\ Held = 1 /\ Held' = 0
    BY <1>1, <1>2, <1>3, LenProperties, AppendProperties DEF Types, Popped, Held
  <1>6. Counted'
    BY <1>1, <1>4, <1>5 DEF Lines, Counted
  <1>7. Together'
    <2>1. ToSet(l_blQue') = ToSet(l_blQue) \cup {count}
      BY <1>1, AppendSet DEF Types
    <2> QED
      BY <1>1, <1>2, <1>3, <2>1 DEF Lines, Together
  <1>8. Ordered'
    <2> SUFFICES ASSUME ~bypassed
                 PROVE  /\ \A i \in 1..Len(out) : out[i] = i
                        /\ hand # 0 => hand = Len(out) + 1
                        /\ \A i \in 1..Len(l_blQue') : l_blQue'[i] = Len(out) + Popped + i
      BY <1>1, <1>5 DEF Ordered
    <2>1. /\ \A i \in 1..Len(out) : out[i] = i
          /\ hand # 0 => hand = Len(out) + 1
          /\ \A i \in 1..Len(l_blQue) : l_blQue[i] = Len(out) + Popped + i
      BY DEF Lines, Ordered
    <2>2. count = Len(out) + Popped + (Len(l_blQue) + 1)
      BY <1>5 DEF Lines, Counted
    <2>3. ASSUME NEW i \in 1..Len(l_blQue') PROVE l_blQue'[i] = Len(out) + Popped + i
      BY <1>5, <2>1, <2>2
    <2> QED
      BY <2>1, <2>3
  <1> QED
    BY <1>6, <1>7, <1>8 DEF Lines

LEMMA PutDirectStep ==
    ASSUME Types, Mutex, Lines, NEW w \in Writers, PutDirect(w)
    PROVE  Lines'
  <1> USE LogAssumption DEF LogAssumption, Moves
  <1>1. /\ UNCHANGED <<hand, l_blQue, count>>
        /\ out' = Append(out, count) /\ bypassed' = TRUE
    BY DEF PutDirect, queue
  <1>2. InWrite = {w}
    BY WriterMoves, OneInWrite DEF InWrite, Mutex, Holding
  <1>3. InWrite' = {}
    BY <1>2, WriterMoves DEF InWrite
  <1>4. pc'[Logger] \in {"lock", "out"} <=> pc[Logger] \in {"lock", "out"}
    BY WriterMoves
  <1>5. /\ Len(out) \in Nat /\ Len(l_blQue) \in Nat /\ Popped \in Nat
        /\ Len(out') = Len(out) + 1
        /\ Popped' = Popped /\ Held = 1 /\ Held' = 0
    BY <1>1, <1>2, <1>3, LenProperties, AppendProperties DEF Types, Popped, Held
  <1>6. Counted'
    BY <1>1, <1>4, <1>5 DEF Lines, Counted
  <1>7. Together'
    <2>1. ToSet(out') = ToSet(out) \cup {count}
      BY <1>1, AppendSet DEF Types
    <2> QED
      BY <1>1, <1>2, <1>3, <2>1 DEF Lines, Together
  <1> QED
    BY <1>1, <1>6, <1>7 DEF Lines, Ordered

LEMMA PopStep ==
    ASSUME Types, Lines, Pop
    PROVE  Lines'
  <1> USE LogAssumption DEF LogAssumption, Moves
  <1>1. UNCHANGED <<out, count, bypassed>>
    BY DEF Pop, history
  <1>2. \A v \in Writers : pc'[v] = pc[v]
    BY PopMoves
  <1>3. InWrite' = InWrite
    BY <1>2 DEF InWrite
  <1>4. CASE l_blQue = <<>>
    <2>1. /\ l_blQue' = l_blQue /\ hand' = hand
          /\ pc'[Logger] \notin {"lock", "out"} /\ pc[Logger] \notin {"lock", "out"}
      BY <1>4, PopMoves
    <2> QED
      BY <1>1, <1>3, <2>1, LinesStay
  <1>5. CASE l_blQue # <<>>
    <2>1. /\ hand' = Head(l_blQue) /\ l_blQue' = Tail(l_blQue)
          /\ pc'[Logger] = "lock" /\ pc[Logger] \notin {"lock", "out"}
      BY <1>5, PopMoves
    <2>2. /\ Len(out) \in Nat /\ Len(l_blQue) \in Nat /\ Len(l_blQue') = Len(l_blQue) - 1
          /\ \A i \in 1..(Len(l_blQue) - 1) : l_blQue'[i] = l_blQue[i + 1]
          /\ hand' = l_blQue[1] /\ hand' \in Nat \ {0} /\ Len(l_blQue) > 0
      BY <1>5, <2>1, HeadTailProperties, LenProperties, EmptySeq DEF Types
    <2>3. /\ hand = 0 /\ Popped = 0 /\ Popped' = 1 /\ Held' = Held /\ Held \in Nat
      <3>1. hand = 0
        BY <2>1 DEF Lines, Counted
      <3>2. Held' = Held /\ Held \in Nat
        BY <1>1, <1>3 DEF Held
      <3>3. Popped = 0 /\ Popped' = 1
        BY <2>2, <3>1 DEF Popped
      <3> QED
        BY <3>1, <3>2, <3>3
    <2>4. Counted'
      <3>1. Len(out) + Popped + Len(l_blQue) + Held = count
        BY DEF Lines, Counted
      <3>2. Len(out') + Popped' + Len(l_blQue') + Held' = count'
        BY <1>1, <2>2, <2>3, <3>1
      <3>3. hand' # 0 /\ pc'[Logger] \in {"lock", "out"}
        BY <2>1, <2>2
      <3> QED
        BY <3>2, <3>3 DEF Counted
    <2>5. Together'
      <3>1. ToSet(l_blQue) = {hand'} \cup ToSet(l_blQue')
        BY <1>5, <2>1, TailSet DEF Types
      <3> QED
        BY <1>1, <1>3, <2>2, <2>3, <3>1 DEF Lines, Together
    <2>6. Ordered'
      BY <1>1, <2>2, <2>3 DEF Lines, Ordered
    <2> QED
      BY <2>4, <2>5, <2>6 DEF Lines
  <1> QED
    BY <1>4, <1>5

LEMMA PutLineStep ==
    ASSUME Types, Lines, PutLine
    PROVE  Lines'
  <1> USE LogAssumption DEF LogAssumption, Moves
  <1>1. /\ UNCHANGED <<l_blQue, count, bypassed>>
        /\ out' = Append(out, hand) /\ hand' = 0
    BY DEF PutLine, queue, history
  <1>2. pc[Logger] = "out" /\ pc'[Logger] = "pop" /\ \A v \in Writers : pc'[v] = pc[v]
    BY OtherMoves
  <1>3. InWrite' = InWrite
    BY <1>2 DEF InWrite
  <1>4. /\ Len(out) \in Nat /\ Len(l_blQue) \in Nat /\ Len(out') = Len(out) + 1
        /\ \A i \in 1..Len(out) : out'[i] = out[i]
        /\ out'[Len(out) + 1] = hand
        /\ hand # 0 /\ Popped = 1 /\ Popped' = 0 /\ Held' = Held /\ Held \in Nat
    BY <1>1, <1>2, <1>3, LenProperties, AppendProperties DEF Types, Lines, Counted, Popped, Held
  <1>5. Counted'
    BY <1>1, <1>2, <1>4 DEF Lines, Counted
  <1>6. Together'
    <2>1. ToSet(out') = ToSet(out) \cup {hand}
      BY <1>1, AppendSet DEF Types
    <2> QED
      BY <1>1, <1>3, <1>4, <2>1 DEF Lines, Together
  <1>7. Ordered'
    BY <1>1, <1>4 DEF Lines, Ordered
  <1> QED
    BY <1>5, <1>6, <1>7 DEF Lines

LEMMA LinesStep ==
    ASSUME Types, Mutex, Ending, Lines, Next
    PROVE  Lines'
  <1> USE LogAssumption DEF LogAssumption, Moves
  <1>1. ASSUME NEW w \in Writers,
               \/ Begin(w) \/ CheckDay(w) \/ PassLock(w) \/ Name(w) \/ Turn(w) \/ Fclose(w)
               \/ Fopen(w) \/ TestFull(w) \/ Flush(w)
        PROVE  Lines'
    BY <1>1, Aside, LinesStay
  <1>2. ASSUME NEW w \in Writers, TakeLine(w) \/ PushBack(w) \/ PutDirect(w)
        PROVE  Lines'
    BY <1>2, TakeLineStep, PushBackStep, PutDirectStep
  <1>3. CASE Pop \/ PutLine
    BY <1>3, PopStep, PutLineStep
  <1>4. CASE \/ PopClosed \/ LockForLine \/ SpuriousWake \/ BeginExit \/ DrainWait \/ Drained
             \/ Close \/ Join \/ CloseFile
    <2>1. UNCHANGED <<hand, out, count, bypassed>>
      BY <1>4 DEF PopClosed, LockForLine, SpuriousWake, BeginExit, DrainWait, Drained, Close,
                  Join, CloseFile, history
    <2>2. l_blQue' = l_blQue
      <3>1. CASE Close
        BY <3>1, OtherMoves DEF Close, Ending
      <3>2. CASE ~Close
        BY <1>4, <3>2 DEF PopClosed, LockForLine, SpuriousWake, BeginExit, DrainWait, Drained,
                          Join, CloseFile, queue
      <3> QED
        BY <3>1, <3>2
    <2>3. /\ \A v \in Writers : pc'[v] = pc[v]
          /\ pc'[Logger] \in {"lock", "out"} <=> pc[Logger] \in {"lock", "out"}
      BY <1>4, OtherMoves
    <2>4. InWrite' = InWrite
      BY <2>3 DEF InWrite
    <2> QED
      BY <2>1, <2>2, <2>3, <2>4, LinesStay
  <1>5. CASE NewDay
    BY <1>5, LinesStay DEF NewDay, queue, history, InWrite
  <1> QED
    BY <1>1, <1>2, <1>3, <1>4, <1>5 DEF Next, WriterStep, LoggerStep, ExitStep
-------------------------------------------------------------------------------
(* The file *)

\* fpOpen changes only where a writer is at fopen, or ~Log is done.
LEMMA StreamStep ==
    ASSUME Types, Mutex, Ending, Stream, Next
    PROVE  Stream'
  <1> USE LogAssumption DEF LogAssumption, Moves, Stream
  <1>1. ASSUME NEW w \in Writers,
               \/ Begin(w) \/ CheckDay(w) \/ PassLock(w) \/ Name(w) \/ Turn(w)
               \/ TakeLine(w) \/ TestFull(w) \/ PushBack(w) \/ PutDirect(w) \/ Flush(w)
        PROVE  Stream'
    <2>1. fpOpen' = fpOpen
      BY <1>1 DEF Begin, CheckDay, PassLock, Name, Turn, TakeLine, TestFull, PushBack, PutDirect,
                  Flush, file
    <2>2. pc'[Exit] = pc[Exit] /\ \A v \in Writers : pc'[v] = "fopen" <=> pc[v] = "fopen"
      BY <1>1, WriterMoves
    <2> QED
      BY <2>1, <2>2
  <1>2. ASSUME NEW w \in Writers, Fclose(w)
        PROVE  Stream'
    <2>1. fpOpen' = FALSE /\ pc'[w] = "fopen"
      BY <1>2, WriterMoves DEF Fclose
    <2> QED
      BY <2>1
  <1>3. ASSUME NEW w \in Writers, Fopen(w)
        PROVE  Stream'
    <2>1. fpOpen' = TRUE /\ pc[w] = "fopen"
      BY <1>3, WriterMoves DEF Fopen
    <2>2. \A v \in Writers : v # w => pc[v] # "fopen"
      BY <2>1 DEF Mutex, Holding
    <2>3. pc[Exit] = "idle" /\ pc'[Exit] = pc[Exit]
      BY <1>3, <2>1, WriterMoves DEF Ending
    <2>4. \A v \in Writers : pc'[v] # "fopen"
      BY <1>3, <2>2, WriterMoves
    <2> QED
      BY <2>1, <2>3, <2>4
  <1>4. CASE CloseFile
    <2>1. fpOpen' = FALSE /\ pc'[Exit] = "done"
      BY <1>4, OtherMoves DEF CloseFile
    <2> QED
      BY <2>1
  <1>5. CASE \/ Pop \/ PopClosed \/ LockForLine \/ PutLine \/ SpuriousWake \/ BeginExit
             \/ DrainWait \/ Drained \/ Close \/ Join
    <2>1. fpOpen' = fpOpen
      BY <1>5 DEF Pop, PopClosed, LockForLine, PutLine, SpuriousWake, BeginExit, DrainWait,
                  Drained, Close, Join, file
    <2>2. /\ pc'[Exit] = "done" <=> pc[Exit] = "done"
          /\ \A v \in Writers : pc'[v] = pc[v]
      BY <1>5, OtherMoves, PopMoves
    <2> QED
      BY <2>1, <2>2
  <1>6. CASE NewDay
    BY <1>6 DEF NewDay, file
  <1> QED
    BY <1>1, <1>2, <1>3, <1>4, <1>5, <1>6 DEF Next, WriterStep, LoggerStep, ExitStep

\* The steps that name and open no file.
LEMMA DayStays ==
    ASSUME Day, UNCHANGED <<l_toDay, l_fp, newFile, overlapped>>,
           \A w \in Writers : /\ Turning(w)' => Turning(w)
                              /\ Named(w)' <=> Named(w)
    PROVE  Day'
  BY DEF Day

LEMMA DayStep ==
    ASSUME Types, Mutex, Day, Next
    PROVE  Day'
  <1> USE LogAssumption DEF LogAssumption, Moves
  <1>1. ASSUME NEW w \in Writers,
               \/ Begin(w) \/ PassLock(w) \/ Turn(w) \/ Fclose(w) \/ TakeLine(w) \/ TestFull(w)
               \/ PushBack(w) \/ PutDirect(w) \/ Flush(w)
        PROVE  Day'
    <2>1. UNCHANGED <<l_toDay, l_fp, newFile, overlapped>>
      BY <1>1 DEF Begin, PassLock, Turn, Fclose, TakeLine, TestFull, PushBack, PutDirect, Flush,
                  file, history
    <2>2. \A v \in Writers : (Turning(v)' => Turning(v)) /\ (Named(v)' <=> Named(v))
      BY <1>1, WriterMoves DEF Turning, Named
    <2> QED
      BY <2>1, <2>2, DayStays
  <1>2. ASSUME NEW w \in Writers, CheckDay(w)
        PROVE  Day'
    <2>1. UNCHANGED <<l_toDay, l_fp, newFile>>
      BY <1>2 DEF CheckDay, file
    <2>2. \A v \in Writers : Named(v)' <=> Named(v)
      BY <1>2, WriterMoves DEF Named
    <2>3. \A v \in Writers : v # w => (Turning(v)' <=> Turning(v))
      BY <1>2, WriterMoves DEF Turning
    <2>4. CASE pc'[w] = "lock"
      <3>1. overlapped => overlapped'
        BY <1>2 DEF CheckDay
      <3>2. ~Turning(w)'
        BY <2>4 DEF Turning
      <3> QED
        BY <2>1, <2>2, <2>3, <3>1, <3>2 DEF Day
    <2>5. CASE pc'[w] = "pass"
      <3>1. overlapped' = (overlapped \/ \E v \in Writers : Turning(v))
        BY <1>2, <2>5 DEF CheckDay, Goto, Types, Places
      <3>2. ~overlapped' => ~overlapped /\ \A v \in Writers : v # w => ~Turning(v)'
        BY <2>3, <3>1
      <3> QED
        BY <2>1, <2>2, <3>2 DEF Day
    <2> QED
      BY <1>2, <2>4, <2>5, WriterMoves
  <1>3. ASSUME NEW w \in Writers, Name(w)
        PROVE  Day'
    <2>1. UNCHANGED <<l_fp, overlapped>>
      BY <1>3 DEF Name, history
    <2>2. newFile'[w].day = l_toDay'
      BY <1>3 DEF Name, Types
    <2>3. pc[w] = "name" /\ pc'[w] = "turn" /\ \A v \in Writers : v # w => pc'[v] = pc[v]
      BY <1>3, WriterMoves
    <2>4. ASSUME ~overlapped PROVE \A v \in Writers : v # w => ~Turning(v)
      BY <2>3, <2>4 DEF Day, Turning
    <2>5. ASSUME ~overlapped PROVE \A v \in Writers : v # w => ~Turning(v)' /\ ~Named(v)'
      BY <2>3, <2>4, <2>5 DEF Turning, Named
    <2>6. Named(w)'
      BY <2>3 DEF Named
    <2> QED
      BY <2>1, <2>2, <2>5, <2>6 DEF Day
  <1>4. ASSUME NEW w \in Writers, Fopen(w)
        PROVE  Day'
    <2>1. UNCHANGED <<l_toDay, newFile, overlapped>> /\ l_fp' = newFile[w]
      BY <1>4 DEF Fopen, history
    <2>2. pc[w] = "fopen" /\ pc'[w] = "lock" /\ \A v \in Writers : v # w => pc'[v] = pc[v]
      BY <1>4, WriterMoves
    <2>3. \A v \in Writers : (Turning(v)' => Turning(v)) /\ (Named(v)' => Named(v))
      BY <2>2 DEF Turning, Named
    <2>4. ~overlapped => l_fp'.day = l_toDay'
      BY <2>1, <2>2 DEF Day, Named
    <2> QED
      BY <2>1, <2>3, <2>4 DEF Day
  <1>5. CASE \/ Pop \/ PopClosed \/ LockForLine \/ PutLine \/ SpuriousWake \/ BeginExit
             \/ DrainWait \/ Drained \/ Close \/ Join \/ CloseFile
    <2>1. UNCHANGED <<l_toDay, l_fp, newFile, overlapped>>
      BY <1>5 DEF Pop, PopClosed, LockForLine, PutLine, SpuriousWake, BeginExit, DrainWait,
                  Drained, Close, Join, CloseFile, file, history
    <2>2. \A v \in Writers : pc'[v] = pc[v]
      BY <1>5, OtherMoves, PopMoves
    <2>3. \A v \in Writers : (Turning(v)' => Turning(v)) /\ (Named(v)' <=> Named(v))
      BY <2>2 DEF Turning, Named
    <2> QED
      BY <2>1, <2>3, DayStays
  <1>6. CASE NewDay
    <2>1. UNCHANGED <<l_toDay, l_fp, newFile, overlapped, pc>>
      BY <1>6 DEF NewDay, file, history
    <2>2. \A v \in Writers : (Turning(v)' => Turning(v)) /\ (Named(v)' <=> Named(v))
      BY <2>1 DEF Turning, Named
    <2> QED
      BY <2>1, <2>2, DayStays
  <1> QED
    BY <1>1, <1>2, <1>3, <1>4, <1>5, <1>6 DEF Next, WriterStep, LoggerStep, ExitStep

-------------------------------------------------------------------------------
(* The bounds *)

\* Who has begun and not taken its line yet.
TakingNow == {w \in Writers : Taking(w)}

\* A day read by a writer has come, a file is numbered by lines that were taken, and
\* those that will still take one are counted in by Begin.
Bounds ==
    /\ today \in 0..MaxDay /\ l_toDay \in 0..MaxDay
    /\ l_fp \in Names /\ fpOpen \in BOOLEAN /\ isClose \in BOOLEAN
    /\ t \in [Writers -> 0..MaxDay]
    /\ newFile \in [Writers -> Names]
    /\ l_lineCnt \in 0..count
    /\ IsFiniteSet(TakingNow)
    /\ count + Cardinality(TakingNow) <= MaxLines

\* A suffix for the number of lines that the file may have.
LEMMA PartInNames ==
    ASSUME NEW d \in 0..MaxDay, NEW n \in 0..MaxLines
    PROVE  [day |-> d, part |-> 1 + n \div MAX_LINES] \in Names /\ [day |-> d, part |-> 0] \in Names
  <1>1. MAX_LINES \in Nat \ {0} /\ MaxLines \in Nat
    BY LogAssumption
  <1>2. \A a, b \in Nat : \A m \in Nat \ {0} : a <= b => a \div m \in Nat /\ a \div m <= b \div m
    OBVIOUS
  <1>3. n \div MAX_LINES \in Nat /\ MaxLines \div MAX_LINES \in Nat
        /\ n \div MAX_LINES <= MaxLines \div MAX_LINES
    BY <1>1, <1>2
  <1> QED
    BY <1>3 DEF Names

\* Only Begin and TakeLine change who will take a line.
LEMMA TakingStays ==
    ASSUME Types, Next, ~(\E w \in Writers : Begin(w) \/ TakeLine(w))
    PROVE  TakingNow' = TakingNow /\ count' = count
  <1> USE LogAssumption DEF LogAssumption, Moves
  <1>1. SUFFICES (\A v \in Writers : Taking(v)' <=> Taking(v)) /\ count' = count
    BY DEF TakingNow
  <1>2. ASSUME NEW w \in Writers,
               \/ CheckDay(w) \/ PassLock(w) \/ Name(w) \/ Turn(w) \/ Fclose(w) \/ Fopen(w)
               \/ TestFull(w) \/ PushBack(w) \/ PutDirect(w) \/ Flush(w)
        PROVE  (\A v \in Writers : Taking(v)' <=> Taking(v)) /\ count' = count
    <2>1. count' = count
      BY <1>2 DEF CheckDay, PassLock, Name, Turn, Fclose, Fopen, TestFull, PushBack, PutDirect,
                  Flush, history
    <2>2. \A v \in Writers : v # w => pc'[v] = pc[v]
      BY <1>2, WriterMoves
    <2>3. Taking(w)' <=> Taking(w)
      BY <1>2, WriterMoves DEF Taking, Turning
    <2> QED
      BY <2>1, <2>2, <2>3 DEF Taking, Turning
  <1>3. CASE NewDay \/ BeginExit \/ LoggerStep \/ SpuriousWake \/ ExitStep
    <2>1. count' = count
      BY <1>3 DEF NewDay, BeginExit, LoggerStep, SpuriousWake, ExitStep, Pop, PopClosed,
                  LockForLine, PutLine, DrainWait, Drained, Close, Join, CloseFile, history
    <2>2. \A v \in Writers : pc'[v] = pc[v]
      BY <1>3, OtherMoves, PopMoves DEF NewDay, LoggerStep, ExitStep
    <2> QED
      BY <2>1, <2>2 DEF Taking, Turning
  <1> QED
    BY <1>2, <1>3 DEF Next, WriterStep

LEMMA BoundsStep ==
    ASSUME Types, Bounds, Next
    PROVE  Bounds'
  <1> USE LogAssumption DEF LogAssumption
  <1>1. count \in Nat /\ l_lineCnt \in 0..count /\ Cardinality(TakingNow) \in Nat
        /\ l_lineCnt \in 0..MaxLines
    <2>1. count \in Nat /\ Cardinality(TakingNow) \in Nat
      BY FS_CardinalityType DEF Types, Bounds
    <2> QED
      BY <2>1 DEF Bounds
  <1>2. /\ IsFiniteSet(TakingNow') /\ count' \in Nat /\ count <= count'
        /\ count' + Cardinality(TakingNow') <= MaxLines
    <2>1. ASSUME NEW w \in Writers, Begin(w)
          PROVE  TakingNow' = TakingNow \cup {w} /\ w \notin TakingNow /\ count' = count
                 /\ count + Cardinality(TakingNow) < MaxLines
      <3>1. pc[w] = "idle" /\ Moves(w, "check")
        BY <2>1, WriterMoves
      <3>2. ~Taking(w) /\ Taking(w)' /\ \A v \in Writers : v # w => (Taking(v)' <=> Taking(v))
        BY <3>1 DEF Taking, Turning, Moves
      <3> QED
        BY <2>1, <3>2 DEF TakingNow, Begin, history
    <2>2. ASSUME NEW w \in Writers, TakeLine(w)
          PROVE  TakingNow' = TakingNow \ {w} /\ w \in TakingNow /\ count' = count + 1
      <3>1. pc[w] = "lock" /\ Moves(w, "test")
        BY <2>2, WriterMoves
      <3>2. Taking(w) /\ ~Taking(w)' /\ \A v \in Writers : v # w => (Taking(v)' <=> Taking(v))
        BY <3>1 DEF Taking, Turning, Moves
      <3> QED
        BY <2>2, <3>2 DEF TakingNow, TakeLine
    <2>3. CASE \E w \in Writers : Begin(w)
      <3>1. PICK w \in Writers : Begin(w)
        BY <2>3
      <3>2. TakingNow' = TakingNow \cup {w} /\ w \notin TakingNow /\ count' = count
            /\ count + Cardinality(TakingNow) < MaxLines
        BY <2>1, <3>1
      <3>3. IsFiniteSet(TakingNow \cup {w})
            /\ Cardinality(TakingNow \cup {w}) = Cardinality(TakingNow) + 1
        BY <3>2, FS_AddElement DEF Bounds
      <3> QED
        BY <1>1, <3>2, <3>3
    <2>4. CASE \E w \in Writers : TakeLine(w)
      <3>1. PICK w \in Writers : TakeLine(w)
        BY <2>4
      <3>2. TakingNow' = TakingNow \ {w} /\ w \in TakingNow /\ count' = count + 1
        BY <2>2, <3>1
      <3>3. IsFiniteSet(TakingNow \ {w})
            /\ Cardinality(TakingNow \ {w}) = Cardinality(TakingNow) - 1
        BY <3>2, FS_RemoveElement DEF Bounds
      <3> QED
        BY <1>1, <3>2, <3>3 DEF Bounds
    <2>5. CASE ~(\E w \in Writers : Begin(w) \/ TakeLine(w))
      BY <1>1, <2>5, TakingStays DEF Bounds
    <2> QED
      BY <2>3, <2>4, <2>5
  <1>3. ASSUME NEW w \in Writers,
               \/ CheckDay(w) \/ PassLock(w) \/ Turn(w)
               \/ TestFull(w) \/ PushBack(w) \/ PutDirect(w) \/ Flush(w)
        PROVE  UNCHANGED <<today, l_toDay, l_lineCnt, l_fp, fpOpen, isClose, t, newFile>>
    BY <1>3 DEF CheckDay, PassLock, Turn, TestFull, PushBack, PutDirect, Flush, file, queue
  <1>4. ASSUME UNCHANGED <<today, l_toDay, l_lineCnt, l_fp, fpOpen, isClose, t, newFile>>
        PROVE  Bounds'
    BY <1>1, <1>2, <1>4 DEF Bounds
  <1>5. ASSUME NEW w \in Writers, Begin(w)
        PROVE  Bounds'
    <2>1. /\ UNCHANGED <<today, l_toDay, l_lineCnt, l_fp, fpOpen, isClose, newFile>>
          /\ t' = [t EXCEPT ![w] = today]
      BY <1>5 DEF Begin, file, queue
    <2> QED
      BY <2>1, <1>1, <1>2 DEF Bounds
  <1>6. ASSUME NEW w \in Writers, Name(w)
        PROVE  Bounds'
    <2>1. UNCHANGED <<today, l_fp, fpOpen, isClose, t>> /\ count' = count
      BY <1>6 DEF Name, queue, history
    <2>2. t[w] \in 0..MaxDay
      BY DEF Bounds
    <2>3. \E n \in Names : newFile' = [newFile EXCEPT ![w] = n]
      BY <1>1, <1>6, <2>2, PartInNames DEF Name
    <2>4. l_toDay' \in 0..MaxDay /\ l_lineCnt' \in 0..count
      BY <1>1, <1>6, <2>2 DEF Name, Bounds
    <2> QED
      BY <2>1, <2>3, <2>4, <1>2 DEF Bounds
  <1>7. ASSUME NEW w \in Writers, Fclose(w) \/ Fopen(w)
        PROVE  Bounds'
    <2>1. UNCHANGED <<today, l_toDay, l_lineCnt, isClose, t, newFile>>
      BY <1>7 DEF Fclose, Fopen, queue
    <2>2. l_fp' \in Names /\ fpOpen' \in BOOLEAN
      BY <1>7 DEF Fclose, Fopen, Bounds
    <2> QED
      BY <2>1, <2>2, <1>1, <1>2 DEF Bounds
  <1>8. ASSUME NEW w \in Writers, TakeLine(w)
        PROVE  Bounds'
    <2>1. UNCHANGED <<today, l_toDay, l_fp, fpOpen, isClose, t, newFile>>
          /\ l_lineCnt' = l_lineCnt + 1 /\ count' = count + 1
      BY <1>8 DEF TakeLine, queue
    <2> QED
      BY <2>1, <1>1, <1>2 DEF Bounds
  <1>9. CASE NewDay
    <2>1. UNCHANGED <<l_toDay, l_lineCnt, l_fp, fpOpen, isClose, t, newFile>>
      BY <1>9 DEF NewDay, file, queue
    <2>2. today' \in 0..MaxDay
      BY <1>9 DEF NewDay, Bounds
    <2> QED
      BY <2>1, <2>2, <1>1, <1>2 DEF Bounds
  <1>10. CASE BeginExit \/ LoggerStep \/ SpuriousWake \/ ExitStep
    <2>1. UNCHANGED <<today, l_toDay, l_lineCnt, l_fp, t, newFile>>
      BY <1>10 DEF BeginExit, LoggerStep, SpuriousWake, ExitStep, Pop, PopClosed, LockForLine,
                   PutLine, DrainWait, Drained, Close, Join, CloseFile, file
    <2>2. fpOpen' \in BOOLEAN /\ isClose' \in BOOLEAN
      BY <1>10 DEF BeginExit, LoggerStep, SpuriousWake, ExitStep, Pop, PopClosed, LockForLine,
                   PutLine, DrainWait, Drained, Close, Join, CloseFile, file, queue, Bounds
    <2> QED
      BY <2>1, <2>2, <1>1, <1>2 DEF Bounds
  <1> QED
    BY <1>3, <1>4, <1>5, <1>6, <1>7, <1>8, <1>9, <1>10 DEF Next, WriterStep

\* A sequence is one of its elements.
LEMMA SetSeq ==
    ASSUME NEW S, NEW s \in Seq(Nat), ToSet(s) \subseteq S
    PROVE  s \in Seq(S)
  <1>1. Len(s) \in Nat /\ DOMAIN s = 1..Len(s) /\ s \in [1..Len(s) -> Nat]
    BY LenProperties
  <1>2. \A i \in 1..Len(s) : s[i] \in S
    BY <1>1 DEF ToSet
  <1>3. s \in [1..Len(s) -> S]
    BY <1>1, <1>2
  <1> QED
    BY <1>1, <1>3, SeqDef

-------------------------------------------------------------------------------
(* Theorems *)

LEMMA InitHolds == Init => IInv
  <1> SUFFICES ASSUME Init PROVE IInv
    OBVIOUS
  <1> USE LogAssumption DEF LogAssumption, Init
  <1>1. /\ <<>> \in Seq(Nat) /\ <<>> \in Seq(Nat \ {0}) /\ Len(<<>>) = 0
        /\ ToSet(<<>>) = {} /\ 1..0 = {}
    BY EmptySeq DEF ToSet
  <1>2. /\ \A w \in Writers : pc[w] = "idle"
        /\ pc[Exit] = "idle" /\ pc[Logger] \in {"idle", "pop"}
        /\ ~isAsync => pc[Logger] = "idle"
    OBVIOUS
  <1>3. InWrite = {}
    BY <1>2 DEF InWrite
  <1>4. Types
    BY <1>1 DEF Types, Places
  <1>5. Mutex /\ Ending
    BY <1>2 DEF Mutex, Ending, Holding
  <1>6. Counted
    BY <1>1, <1>2, <1>3 DEF Counted, Popped, Held
  <1>7. Together
    BY <1>1, <1>3 DEF Together
  <1>8. Ordered
    BY <1>1 DEF Ordered
  <1>9. Stream
    BY <1>2 DEF Stream
  <1>10. Day
    BY <1>2 DEF Day, Turning, Named
  <1> QED
    BY <1>4, <1>5, <1>6, <1>7, <1>8, <1>9, <1>10 DEF IInv, Control, Lines

LEMMA StepHolds == IInv /\ [Next]_vars => IInv'
  <1>1. ASSUME IInv, Next PROVE IInv'
    <2>1. Types' /\ Mutex' /\ Ending'
      BY <1>1, TypesStep, MutexStep, EndingStep DEF IInv, Control, Lines
    <2>2. Lines' /\ Stream' /\ Day'
      BY <1>1, LinesStep, StreamStep, DayStep DEF IInv, Control
    <2> QED
      BY <2>1, <2>2 DEF IInv, Control
  <1>2. ASSUME IInv, UNCHANGED vars PROVE IInv'
    BY <1>2 DEF IInv, Control, Lines, Types, Mutex, Ending, Counted, Together, Ordered, Stream, Day,
                Popped, Held, InWrite, Turning, Named, vars, file, queue, history
  <1> QED
    BY <1>1, <1>2

LEMMA Invariant == SafeSpec => []IInv
  <1>1. Init => IInv
    BY InitHolds
  <1>2. IInv /\ [Next]_vars => IInv'
    BY StepHolds
  <1> QED
    BY <1>1, <1>2, PTL DEF SafeSpec

\* What follows from the places of the lines.
LEMMA ConcatSet ==
    ASSUME NEW s \in Seq(Nat), NEW u \in Seq(Nat)
    PROVE  /\ s \o u \in Seq(Nat)
           /\ Len(s \o u) = Len(s) + Len(u)
           /\ ToSet(s \o u) = ToSet(s) \cup ToSet(u)
  <1>1. /\ s \o u \in Seq(Nat)
        /\ Len(s \o u) = Len(s) + Len(u)
        /\ \A i \in 1..(Len(s) + Len(u)) : (s \o u)[i] = IF i <= Len(s) THEN s[i] ELSE u[i - Len(s)]
        /\ Len(s) \in Nat /\ Len(u) \in Nat
        /\ DOMAIN s = 1..Len(s) /\ DOMAIN u = 1..Len(u) /\ DOMAIN (s \o u) = 1..(Len(s) + Len(u))
    BY ConcatProperties, LenProperties
  <1>2. ASSUME NEW e \in ToSet(s \o u) PROVE e \in ToSet(s) \cup ToSet(u)
    <2>1. PICK i \in 1..(Len(s) + Len(u)) : e = (s \o u)[i]
      BY <1>1 DEF ToSet
    <2>2. CASE i <= Len(s)
      <3>1. i \in 1..Len(s) /\ e = s[i]
        BY <1>1, <2>1, <2>2
      <3> QED
        BY <1>1, <3>1 DEF ToSet
    <2>3. CASE i > Len(s)
      <3>1. i - Len(s) \in 1..Len(u) /\ e = u[i - Len(s)]
        BY <1>1, <2>1, <2>3
      <3> QED
        BY <1>1, <3>1 DEF ToSet
    <2>4. i <= Len(s) \/ i > Len(s)
      BY <1>1
    <2> QED
      BY <2>2, <2>3, <2>4
  <1>3. ASSUME NEW e \in ToSet(s) PROVE e \in ToSet(s \o u)
    <2>1. PICK i \in 1..Len(s) : e = s[i]
      BY <1>1 DEF ToSet
    <2>2. i \in 1..(Len(s) + Len(u)) /\ (s \o u)[i] = e
      BY <1>1, <2>1
    <2> QED
      BY <1>1, <2>2 DEF ToSet
  <1>4. ASSUME NEW e \in ToSet(u) PROVE e \in ToSet(s \o u)
    <2>1. PICK i \in 1..Len(u) : e = u[i]
      BY <1>1 DEF ToSet
    <2>2. /\ Len(s) + i \in 1..(Len(s) + Len(u)) /\ ~(Len(s) + i <= Len(s))
          /\ (Len(s) + i) - Len(s) = i
      BY <1>1
    <2>3. (s \o u)[Len(s) + i] = e
      BY <1>1, <2>1, <2>2
    <2> QED
      BY <1>1, <2>2, <2>3 DEF ToSet
  <1> QED
    BY <1>1, <1>2, <1>3, <1>4

LEMMA OneLine ==
    ASSUME NEW n \in Nat
    PROVE  <<n>> \in Seq(Nat) /\ Len(<<n>>) = 1 /\ ToSet(<<n>>) = {n}
  BY DEF ToSet

LEMMA NoLine == <<>> \in Seq(Nat) /\ Len(<<>>) = 0 /\ ToSet(<<>>) = {}
  BY EmptySeq DEF ToSet

LEMMA LinesAreOnce ==
    ASSUME Types, Lines
    PROVE  LineOnce
  <1>1. PICK held, popped :
          /\ held = (IF InWrite = {} THEN <<>> ELSE <<count>>)
          /\ popped = (IF hand = 0 THEN <<>> ELSE <<hand>>)
    OBVIOUS
  <1>2. /\ held \in Seq(Nat) /\ Len(held) = Held
        /\ ToSet(held) = IF InWrite = {} THEN {} ELSE {count}
    <2>1. count \in Nat
      BY DEF Types
    <2>2. CASE InWrite = {}
      BY <1>1, <2>2, NoLine DEF Held
    <2>3. CASE InWrite # {}
      BY <1>1, <2>1, <2>3, OneLine DEF Held
    <2> QED
      BY <2>2, <2>3
  <1>3. /\ popped \in Seq(Nat) /\ Len(popped) = Popped
        /\ ToSet(popped) = IF hand = 0 THEN {} ELSE {hand}
    BY <1>1, OneLine, NoLine DEF Popped, Types
  <1>4. out \in Seq(Nat) /\ l_blQue \in Seq(Nat)
    BY DEF Types
  <1>5. /\ out \o popped \in Seq(Nat)
        /\ Len(out \o popped) = Len(out) + Popped
        /\ ToSet(out \o popped) = ToSet(out) \cup ToSet(popped)
    BY <1>3, <1>4, ConcatSet
  <1>6. /\ (out \o popped) \o l_blQue \in Seq(Nat)
        /\ Len((out \o popped) \o l_blQue) = Len(out) + Popped + Len(l_blQue)
        /\ ToSet((out \o popped) \o l_blQue) = ToSet(out) \cup ToSet(popped) \cup ToSet(l_blQue)
    BY <1>4, <1>5, ConcatSet
  <1>7. /\ Len(((out \o popped) \o l_blQue) \o held)
             = Len(out) + Popped + Len(l_blQue) + Held
        /\ ToSet(((out \o popped) \o l_blQue) \o held)
             = ToSet(out) \cup ToSet(popped) \cup ToSet(l_blQue) \cup ToSet(held)
    BY <1>2, <1>6, ConcatSet
  <1>8. Len(((out \o popped) \o l_blQue) \o held) = count
    BY <1>7 DEF Lines, Counted
  <1>9. ToSet(((out \o popped) \o l_blQue) \o held) = 1..count
    BY <1>2, <1>3, <1>7 DEF Lines, Together
  <1> QED
    BY <1>1, <1>8, <1>9, Zenon DEF LineOnce

\* However the threads interleave, and whether the queue is ever full: each line
\* taken by Write is in one place, in order until a full queue is by-passed, and
\* in the file when ~Log closes it.
THEOREM LinesAreSafe == SafeSpec => []LinesInOrder
  <1>1. IInv => LinesInOrder
    <2> SUFFICES ASSUME IInv PROVE LinesInOrder
      OBVIOUS
    <2>1. LineOnce
      BY LinesAreOnce DEF IInv, Control
    <2>2. OrderKept
      <3>1. DOMAIN out = 1..Len(out)
        BY LenProperties DEF IInv, Control, Types
      <3> QED
        BY <3>1 DEF IInv, Lines, Ordered, OrderKept
    <2>3. NothingLostAtExit
      <3> SUFFICES ASSUME pc[Exit] \in {"fclose", "done"} PROVE Len(out) = count
        BY DEF NothingLostAtExit
      <3>1. /\ l_blQue = <<>> /\ pc[Logger] \in {"idle", "done"}
            /\ \A w \in Writers : pc[w] = "idle"
        BY DEF IInv, Control, Ending
      <3>2. InWrite = {} /\ hand = 0
        BY <3>1 DEF InWrite, IInv, Lines, Counted
      <3>3. Len(out) \in Nat /\ Len(l_blQue) = 0
        BY <3>1, LenProperties, EmptySeq DEF IInv, Control, Types
      <3> QED
        BY <3>2, <3>3 DEF IInv, Lines, Counted, Popped, Held
    <2> QED
      BY <2>1, <2>2, <2>3 DEF LinesInOrder
  <1> QED
    BY <1>1, Invariant, PTL

\* Whoever uses the stream under l_mutex finds it open, and the file is that of
\* l_toDay unless two writers have changed it at once, for any number of them.
THEOREM FileTurnsSafely == SafeSpec => []FileTurns
  <1>1. IInv => FileTurns
    <2> SUFFICES ASSUME IInv PROVE FileTurns
      OBVIOUS
    <2>1. ASSUME NEW a \in Writers \cup {Logger}, pc[a] \in {"put", "out", "fclose"}
          PROVE  fpOpen
      <3>1. CASE a \in Writers /\ pc[a] \in {"put", "fclose"}
        <4>1. l_mutex = a /\ pc[Exit] = "idle"
          BY <3>1 DEF IInv, Control, Mutex, Ending, Holding
        <4>2. \A w \in Writers : pc[w] # "fopen"
          BY <3>1, <4>1 DEF IInv, Control, Mutex, Holding
        <4> QED
          BY <4>1, <4>2 DEF IInv, Stream
      <3>2. CASE pc[Logger] = "out"
        <4>1. l_mutex = Logger /\ pc[Exit] # "done"
          BY <3>2 DEF IInv, Control, Mutex, Ending
        <4>2. \A w \in Writers : pc[w] # "fopen"
          BY <4>1, LogAssumption DEF IInv, Control, Mutex, Holding, LogAssumption
        <4> QED
          BY <4>1, <4>2 DEF IInv, Stream
      <3> QED
        BY <2>1, <3>1, <3>2 DEF IInv, Control, Mutex
    <2>2. ASSUME pc[Exit] # "done", Free PROVE fpOpen
      <3>1. \A w \in Writers : pc[w] # "fopen"
        BY <2>2, LogAssumption DEF IInv, Control, Mutex, Holding, Free, LogAssumption
      <3> QED
        BY <2>2, <3>1 DEF IInv, Stream
    <2>3. FileOfTheDay
      BY DEF IInv, Day, FileOfTheDay, Turning, Named
    <2> QED
      BY <2>1, <2>2, <2>3 DEF FileTurns, StreamOpen
  <1> QED
    BY <1>1, Invariant, PTL

\* Lines are numbered as they are counted, files as the lines, and the days of both
\* have come, for any bounds: no variable leaves its type.
THEOREM TypeCorrect == SafeSpec => []TypeOK
  <1>1. Init => Bounds
    <2> SUFFICES ASSUME Init PROVE Bounds
      OBVIOUS
    <2>1. TakingNow = {}
      BY LogAssumption DEF Init, TakingNow, Taking, Turning
    <2>2. [day |-> 0, part |-> 0] \in Names
      <3>1. 0 \in 0..MaxDay /\ 0 \in 0..MaxLines
        BY LogAssumption
      <3> QED
        BY <3>1, PartInNames
    <2>3. IsFiniteSet(TakingNow) /\ Cardinality(TakingNow) = 0
      BY <2>1, FS_EmptySet
    <2>4. 0 \in 0..MaxDay
      BY LogAssumption
    <2>5. count + Cardinality(TakingNow) <= MaxLines /\ l_lineCnt \in 0..count
      BY <2>3, LogAssumption DEF Init
    <2>6. t \in [Writers -> 0..MaxDay] /\ newFile \in [Writers -> Names]
      BY <2>2, <2>4 DEF Init
    <2> QED
      BY <2>2, <2>3, <2>4, <2>5, <2>6 DEF Init, Bounds
  <1>2. IInv /\ Bounds /\ [Next]_vars => Bounds'
    <2>1. ASSUME UNCHANGED vars, Bounds PROVE Bounds'
      BY <2>1 DEF Bounds, vars, file, queue, history, TakingNow, Taking, Turning
    <2> QED
      BY <2>1, BoundsStep DEF IInv, Control
  <1>3. IInv /\ Bounds => TypeOK
    <2> SUFFICES ASSUME IInv, Bounds PROVE TypeOK
      OBVIOUS
    <2>1. Types /\ Together
      BY DEF IInv, Control, Lines
    <2>2. count \in 0..MaxLines /\ l_lineCnt \in 0..MaxLines
      <3>1. count \in Nat /\ Cardinality(TakingNow) \in Nat
        BY <2>1, FS_CardinalityType DEF Types, Bounds
      <3> QED
        BY <3>1, LogAssumption DEF Bounds
    <2>3. /\ ToSet(out) \subseteq 1..MaxLines /\ ToSet(l_blQue) \subseteq 1..MaxLines
          /\ hand \in 0..MaxLines
      <3>1. 1..count \subseteq 1..MaxLines /\ 0 \in 0..MaxLines
        BY <2>2, LogAssumption
      <3>2. ToSet(out) \subseteq 1..count /\ ToSet(l_blQue) \subseteq 1..count
            /\ (hand = 0 \/ hand \in 1..count)
        BY <2>1 DEF Together
      <3> QED
        BY <3>1, <3>2
    <2>4. \A S : \A s \in Seq(Nat) : ToSet(s) \subseteq S => s \in Seq(S)
      BY SetSeq
    <2>5. out \in Seq(1..MaxLines) /\ l_blQue \in Seq(1..MaxLines)
      <3>1. l_blQue \in Seq(Nat)
        BY <2>1 DEF Types
      <3> QED
        BY <2>1, <2>3, <2>4, <3>1 DEF Types
    <2> QED
      BY <2>1, <2>2, <2>3, <2>5 DEF TypeOK, Types, Places, Bounds
  <1> QED
    BY <1>1, <1>2, <1>3, Invariant, PTL DEF SafeSpec
===============================================================================
