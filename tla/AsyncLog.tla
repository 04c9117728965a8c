-------------------------------- MODULE AsyncLog --------------------------------
(***************************************************************************)
(* The log: code/log/log.h, log.cpp and the BlockDeque of block_queue.h.   *)
(*                                                                         *)
(* Any thread logs with LOG_BASE, which is Log::Write and Log::Flush.      *)
(* Write turns to a new file when the day has changed or the file is long, *)
(* then, under l_mutex, puts its line into the queue, or into the file if  *)
(* the queue is full.  One thread, AsyncWrite, empties the queue into the  *)
(* file.  The static Log is destroyed when main returns and nobody logs.   *)
(*                                                                         *)
(* A line is its number in the order of Write's critical sections.  The    *)
(* queue's own mutex makes each of its operations one step; condCons is    *)
(* where the thread sleeps.  Level, formatting and the fflush of LOG_BASE, *)
(* which only empties the stream's buffer, are left out.                   *)
(***************************************************************************)
EXTENDS Integers, Sequences, FiniteSets, SequencesExt

CONSTANTS
    Writers,        \* the threads that log
    Logger,         \* l_writeThread
    Exit,           \* the thread that destroys the Log
    Nobody,
    LogQueSize,     \* config.logQueSize, the maxQueueCapacity of Init
    Capacity,       \* what BlockDeque's constructor takes for its capacity
    MAX_LINES,
    MaxDay,         \* bound: days that pass
    MaxLines        \* bound: lines that are written

ASSUME LogAssumption ==
    /\ Logger \notin Writers /\ Exit \notin Writers /\ Nobody \notin Writers
    /\ Logger # Exit /\ Logger # Nobody /\ Exit # Nobody
    /\ LogQueSize \in Nat
    /\ Capacity \in Nat \ {0}
    /\ MAX_LINES \in Nat \ {0}
    /\ MaxDay \in Nat
    /\ MaxLines \in Nat

VARIABLES
    today,
    l_toDay,
    l_lineCnt,
    l_fp,       \* the name of the file: its day; 0, or 1 + n for the suffix "-n"
    fpOpen,     \* is l_fp open?
    l_mutex,    \* the thread that holds it
    l_blQue,
    isClose,    \* BlockDeque::isClose
    pc,
    t,          \* the day each writer has read
    newFile,
    hand,       \* the line AsyncWrite has popped
    out,        \* the lines in the files, in the order they were put there
    count,      \* how many lines Write has taken (history)
    bypassed,   \* a line has gone past the queue (history)
    overlapped  \* two writers have turned the file at once (history)

file == <<l_toDay, l_lineCnt, l_fp, fpOpen>>
queue == <<l_blQue, isClose>>
history == <<count, bypassed, overlapped>>
vars == <<today, file, l_mutex, queue, pc, t, newFile, hand, out, history>>

Names == [day : 0..MaxDay, part : 0..(1 + MaxLines \div MAX_LINES)]
isAsync == LogQueSize > 0

TypeOK ==
    /\ today \in 0..MaxDay
    /\ l_toDay \in 0..MaxDay
    /\ l_lineCnt \in 0..MaxLines
    /\ l_fp \in Names
    /\ fpOpen \in BOOLEAN
    /\ l_mutex \in Writers \cup {Logger, Exit, Nobody}
    /\ l_blQue \in Seq(1..MaxLines)
    /\ isClose \in BOOLEAN
    /\ pc \in [Writers \cup {Logger, Exit} ->
                 {"idle", "check", "pass", "name", "turn", "fclose", "fopen", "lock",
                  "test", "push", "put", "flush",
                  "pop", "asleep", "woken", "out",
                  "drain", "close", "join", "done"}]
    /\ t \in [Writers -> 0..MaxDay]
    /\ newFile \in [Writers -> Names]
    /\ hand \in 0..MaxLines
    /\ out \in Seq(1..MaxLines)
    /\ count \in 0..MaxLines
    /\ bypassed \in BOOLEAN
    /\ overlapped \in BOOLEAN

\* After Log::Init.
Init ==
    /\ today = 0
    /\ l_toDay = 0
    /\ l_lineCnt = 0
    /\ l_fp = [day |-> 0, part |-> 0]
    /\ fpOpen = TRUE
    /\ l_mutex = Nobody
    /\ l_blQue = <<>>
    /\ isClose = FALSE
    /\ pc = [a \in Writers \cup {Logger, Exit} |->
               IF a = Logger /\ isAsync THEN "pop" ELSE "idle"]
    /\ t = [w \in Writers |-> 0]
    /\ newFile = [w \in Writers |-> [day |-> 0, part |-> 0]]
    /\ hand = 0
    /\ out = <<>>
    /\ count = 0
    /\ bypassed = FALSE
    /\ overlapped = FALSE

Goto(a, from, to) ==
    /\ pc[a] = from
    /\ pc' = [pc EXCEPT ![a] = to]

Acquire(a) == l_mutex = Nobody /\ l_mutex' = a
Free == l_mutex = Nobody
Release == l_mutex' = Nobody

\* condCons.notify_one after the step of a from one place to another.
NotifyAndGoto(a, from, to) ==
    /\ pc[a] = from
    /\ pc' = [pc EXCEPT ![a] = to,
                        ![Logger] = IF @ = "asleep" THEN "woken" ELSE @]

NewDay ==
    /\ today < MaxDay
    /\ today' = today + 1
    /\ UNCHANGED <<file, l_mutex, queue, pc, t, newFile, hand, out, history>>

-------------------------------------------------------------------------------
(* Log::Write *)

Turning(w) == pc[w] \in {"pass", "name", "turn", "fclose", "fopen"}
Taking(w) == pc[w] \in {"check", "lock"} \/ Turning(w)

Begin(w) ==
    /\ pc[Exit] = "idle"
    /\ count + Cardinality({v \in Writers : Taking(v)}) < MaxLines
    /\ Goto(w, "idle", "check")
    /\ t' = [t EXCEPT ![w] = today]
    /\ UNCHANGED <<today, file, l_mutex, queue, newFile, hand, out, history>>

\* Without the lock.
CheckDay(w) ==
    LET turn == l_toDay # t[w] \/ (l_lineCnt > 0 /\ l_lineCnt % MAX_LINES = 0)
    IN  /\ Goto(w, "check", IF turn THEN "pass" ELSE "lock")
        /\ overlapped' = (overlapped \/ (turn /\ \E v \in Writers : Turning(v)))
        /\ UNCHANGED <<today, file, l_mutex, queue, t, newFile, hand, out, count, bypassed>>

\* The lock is taken and given back.
PassLock(w) ==
    /\ Free
    /\ Goto(w, "pass", "name")
    /\ UNCHANGED <<today, file, l_mutex, queue, t, newFile, hand, out, history>>

\* Mutant: the suffix is the number of lines.
NameByLine(w) ==
    /\ Goto(w, "name", "turn")
    /\ IF l_toDay # t[w]
         THEN /\ newFile' = [newFile EXCEPT ![w] = [day |-> t[w], part |-> 0]]
              /\ l_toDay' = t[w]
              /\ l_lineCnt' = 0
         ELSE /\ newFile' = [newFile EXCEPT ![w] = [day |-> t[w], part |-> 1 + l_lineCnt]]
              /\ UNCHANGED <<l_toDay, l_lineCnt>>
    /\ UNCHANGED <<today, l_fp, fpOpen, l_mutex, queue, t, hand, out, history>>

\* Without the lock.
Name(w) ==
    /\ Goto(w, "name", "turn")
    /\ IF l_toDay # t[w]
         THEN /\ newFile' = [newFile EXCEPT ![w] = [day |-> t[w], part |-> 0]]
              /\ l_toDay' = t[w]
              /\ l_lineCnt' = 0
         ELSE /\ newFile' = [newFile EXCEPT ![w] =
                               [day |-> t[w], part |-> 1 + l_lineCnt \div MAX_LINES]]
              /\ UNCHANGED <<l_toDay, l_lineCnt>>
    /\ UNCHANGED <<today, l_fp, fpOpen, l_mutex, queue, t, hand, out, history>>

\* lock and Flush
Turn(w) ==
    /\ Acquire(w)
    /\ NotifyAndGoto(w, "turn", "fclose")
    /\ UNCHANGED <<today, file, queue, t, newFile, hand, out, history>>

\* Mutant: the lock is given back too early.
FcloseUnlocks(w) ==
    /\ Goto(w, "fclose", "fopen")
    /\ fpOpen' = FALSE
    /\ Release
    /\ UNCHANGED <<today, l_toDay, l_lineCnt, l_fp, queue, t, newFile, hand, out, history>>

Fclose(w) ==
    /\ Goto(w, "fclose", "fopen")
    /\ fpOpen' = FALSE
    /\ UNCHANGED <<today, l_toDay, l_lineCnt, l_fp, l_mutex, queue, t, newFile, hand, out,
                   history>>

Fopen(w) ==
    /\ Goto(w, "fopen", "lock")
    /\ l_fp' = newFile[w]
    /\ fpOpen' = TRUE
    /\ Release
    /\ UNCHANGED <<today, l_toDay, l_lineCnt, queue, t, newFile, hand, out, history>>

TakeLine(w) ==
    /\ Acquire(w)
    /\ Goto(w, "lock", "test")
    /\ l_lineCnt' = l_lineCnt + 1
    /\ count' = count + 1
    /\ UNCHANGED <<today, l_toDay, l_fp, fpOpen, queue, t, newFile, hand, out, bypassed,
                   overlapped>>

\* isAsync && l_blQue && !l_blQue->Full()
TestFull(w) ==
    /\ Goto(w, "test", IF isAsync /\ Len(l_blQue) < Capacity THEN "push" ELSE "put")
    /\ UNCHANGED <<today, file, l_mutex, queue, t, newFile, hand, out, history>>

\* Push_back, which would wait for room.
PushBack(w) ==
    /\ Len(l_blQue) < Capacity
    /\ l_blQue' = Append(l_blQue, count)
    /\ NotifyAndGoto(w, "push", "flush")
    /\ Release
    /\ UNCHANGED <<today, file, isClose, t, newFile, hand, out, history>>

\* fputs by the writer itself
PutDirect(w) ==
    /\ Goto(w, "put", "flush")
    /\ out' = Append(out, count)
    /\ bypassed' = TRUE
    /\ Release
    /\ UNCHANGED <<today, file, queue, t, newFile, hand, count, overlapped>>

\* Log::Flush, after Write
Flush(w) ==
    /\ NotifyAndGoto(w, "flush", "idle")
    /\ UNCHANGED <<today, file, l_mutex, queue, t, newFile, hand, out, history>>

WriterStep(w) ==
    \/ CheckDay(w) \/ PassLock(w) \/ Name(w) \/ Turn(w) \/ Fclose(w) \/ Fopen(w)
    \/ TakeLine(w) \/ TestFull(w) \/ PushBack(w) \/ PutDirect(w) \/ Flush(w)

-------------------------------------------------------------------------------
(* Log::AsyncWrite and BlockDeque::Pop *)

\* Mutant: the newest line first.
PopBack ==
    /\ pc[Logger] = "pop" \/ (pc[Logger] = "woken" /\ ~isClose)
    /\ IF l_blQue = <<>>
         THEN /\ pc' = [pc EXCEPT ![Logger] = "asleep"]
              /\ UNCHANGED <<l_blQue, hand>>
         ELSE /\ pc' = [pc EXCEPT ![Logger] = "lock"]
              /\ hand' = Last(l_blQue)
              /\ l_blQue' = Front(l_blQue)
    /\ UNCHANGED <<today, file, l_mutex, isClose, t, newFile, out, history>>

\* Mutant: Pop waits before it looks.
PopAfterSleep ==
    /\ pc[Logger] \in {"pop", "woken"}
    /\ pc[Logger] = "woken" => ~isClose
    /\ IF l_blQue = <<>> \/ pc[Logger] = "pop"
         THEN /\ pc' = [pc EXCEPT ![Logger] = "asleep"]
              /\ UNCHANGED <<l_blQue, hand>>
         ELSE /\ pc' = [pc EXCEPT ![Logger] = "lock"]
              /\ hand' = Head(l_blQue)
              /\ l_blQue' = Tail(l_blQue)
    /\ UNCHANGED <<today, file, l_mutex, isClose, t, newFile, out, history>>

\* isClose is looked at only after a wait.
Pop ==
    /\ pc[Logger] = "pop" \/ (pc[Logger] = "woken" /\ ~isClose)
    /\ IF l_blQue = <<>>
         THEN /\ pc' = [pc EXCEPT ![Logger] = "asleep"]
              /\ UNCHANGED <<l_blQue, hand>>
         ELSE /\ pc' = [pc EXCEPT ![Logger] = "lock"]
              /\ hand' = Head(l_blQue)
              /\ l_blQue' = Tail(l_blQue)
    /\ UNCHANGED <<today, file, l_mutex, isClose, t, newFile, out, history>>

PopClosed ==
    /\ isClose
    /\ Goto(Logger, "woken", "done")
    /\ UNCHANGED <<today, file, l_mutex, queue, t, newFile, hand, out, history>>

LockForLine ==
    /\ Acquire(Logger)
    /\ Goto(Logger, "lock", "out")
    /\ UNCHANGED <<today, file, queue, t, newFile, hand, out, history>>

PutLine ==
    /\ Goto(Logger, "out", "pop")
    /\ out' = Append(out, hand)
    /\ hand' = 0
    /\ Release
    /\ UNCHANGED <<today, file, queue, t, newFile, history>>

\* A wait on a condition variable may end without a notification.
SpuriousWake ==
    /\ Goto(Logger, "asleep", "woken")
    /\ UNCHANGED <<today, file, l_mutex, queue, t, newFile, hand, out, history>>

LoggerStep == Pop \/ PopClosed \/ LockForLine \/ PutLine

-------------------------------------------------------------------------------
(* Log::~Log *)

BeginExit ==
    /\ \A w \in Writers : pc[w] = "idle"
    /\ Goto(Exit, "idle", IF isAsync THEN "drain" ELSE "fclose")
    /\ UNCHANGED <<today, file, l_mutex, queue, t, newFile, hand, out, history>>

\* while (!l_blQue->Empty()) l_blQue->Flush();
DrainWait ==
    /\ l_blQue # <<>>
    /\ NotifyAndGoto(Exit, "drain", "drain")
    /\ UNCHANGED <<today, file, l_mutex, queue, t, newFile, hand, out, history>>

Drained ==
    /\ l_blQue = <<>>
    /\ Goto(Exit, "drain", "close")
    /\ UNCHANGED <<today, file, l_mutex, queue, t, newFile, hand, out, history>>

\* Mutant: Close tells nobody.
CloseSilently ==
    /\ l_blQue' = <<>>
    /\ isClose' = TRUE
    /\ Goto(Exit, "close", "join")
    /\ UNCHANGED <<today, file, l_mutex, t, newFile, hand, out, history>>

\* BlockDeque::Close
Close ==
    /\ l_blQue' = <<>>
    /\ isClose' = TRUE
    /\ NotifyAndGoto(Exit, "close", "join")
    /\ UNCHANGED <<today, file, l_mutex, t, newFile, hand, out, history>>

Join ==
    /\ pc[Logger] = "done"
    /\ Goto(Exit, "join", "fclose")
    /\ UNCHANGED <<today, file, l_mutex, queue, t, newFile, hand, out, history>>

CloseFile ==
    /\ Free
    /\ Goto(Exit, "fclose", "done")
    /\ fpOpen' = FALSE
    /\ UNCHANGED <<today, l_toDay, l_lineCnt, l_fp, l_mutex, queue, t, newFile, hand, out,
                   history>>

ExitStep == DrainWait \/ Drained \/ Close \/ Join \/ CloseFile

Next ==
    \/ NewDay \/ BeginExit
    \/ \E w \in Writers : Begin(w) \/ WriterStep(w)
    \/ LoggerStep \/ SpuriousWake \/ ExitStep

SafeSpec == Init /\ [][Next]_vars

\* The threads are scheduled; nobody has to log, and main does not have to
\* return.  Only MaxLines lines compete for l_mutex.
Spec ==
    /\ SafeSpec
    /\ \A w \in Writers : WF_vars(WriterStep(w))
    /\ WF_vars(LoggerStep)
    /\ WF_vars(ExitStep)

-------------------------------------------------------------------------------
(* Properties *)

InWrite == {w \in Writers : pc[w] \in {"test", "push", "put"}}

\* Every line that a writer has taken is in one place: with its writer, in the
\* queue, in the hand of AsyncWrite or in the file.  None is lost or doubled by
\* the queue, by a full queue, by a change of the file or by ~Log.
LineOnce ==
    LET held == IF InWrite = {} THEN <<>> ELSE <<count>>
        popped == IF hand = 0 THEN <<>> ELSE <<hand>>
        all == out \o popped \o l_blQue \o held
    IN  /\ Len(all) = count
        /\ ToSet(all) = 1..count

\* As long as the queue has never been full, the file has the lines in the order
\* in which they were logged, whichever threads logged them.
OrderKept ==
    ~bypassed => \A i \in DOMAIN out : out[i] = i

\* ~Log closes the file only when every line is in it.
NothingLostAtExit ==
    pc[Exit] \in {"fclose", "done"} => Len(out) = count

\* What Log promises of its lines: each once, in order, all of them at exit.
LinesInOrder == LineOnce /\ OrderKept /\ NothingLostAtExit

\* Whoever uses the stream under l_mutex finds it open, whenever the file is
\* changed.  (The fflush of LOG_BASE has no lock and no such promise.)
StreamOpen ==
    /\ \A a \in Writers \cup {Logger} : pc[a] \in {"put", "out", "fclose"} => fpOpen
    /\ pc[Exit] # "done" /\ Free => fpOpen

\* The open file is the file of l_toDay when nobody is changing it, unless two
\* writers have changed it at once: the test and the name are made without lock.
FileOfTheDay ==
    ~overlapped /\ (\A w \in Writers : ~Turning(w)) => l_fp.day = l_toDay

\* Three locks in turn and an unlocked test change the file under the writers,
\* and none of them sees it half changed.
FileTurns == StreamOpen /\ FileOfTheDay

\* Every line gets into the file, though a notification finds nobody asleep.
LinesReachFile ==
    \A n \in 1..MaxLines : count >= n ~> \E i \in DOMAIN out : out[i] = n

\* AsyncWrite went to sleep in Pop when the queue was closed already: it had been
\* putting its last line down at Close, and Pop looks at isClose only after a wait.
MissedClose == isClose /\ pc[Logger] = "asleep" /\ pc[Exit] = "join"

\* ~Log ends when AsyncWrite sleeps in Pop at Close, and whatever AsyncWrite does
\* at that moment, a missed Close is all that can keep ~Log waiting.
ExitEnds ==
    /\ pc[Exit] = "close" /\ pc[Logger] = "asleep" ~> pc[Exit] = "done"
    /\ pc[Exit] = "close" ~> pc[Exit] = "done" \/ MissedClose
===============================================================================
