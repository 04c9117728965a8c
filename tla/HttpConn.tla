-------------------------------- MODULE HttpConn --------------------------------
(***************************************************************************)
(* One HttpConn of w_users and the clients it serves one after the other:  *)
(* code/http/http_conn.cpp and http_response.cpp, with WebServer::OnWrite, *)
(* which decides what a call of Write has come to.                         *)
(*                                                                         *)
(* An answer is a head in h_writeBuff and a file mapped into memory; two   *)
(* iovecs point at what is still to be sent of them.  writev takes any     *)
(* part of it.  The object outlives its client: Init resets its buffers,   *)
(* not its iovecs.  One thread at a time calls it (module WebServer).      *)
(*                                                                         *)
(* Content is counted in units, each with the number of its answer.  What  *)
(* Parse makes of the request is a choice: a name of the site, and whether *)
(* the connection is to be kept; or nothing, and the path is empty.        *)
(***************************************************************************)
EXTENDS Integers, Sequences, FiniteSets, SequencesExt

CONSTANTS
    Site,       \* the resources by name: [kind, size, opens, odd]; the names
                \* include "403", "404" and "" (the directory itself)
    HeadLen,    \* units of a head
    EventModes, \* the values InitEventMode may give to HttpConn::isET
    Garbage,    \* the lengths that memory may hold where an HttpConn is built
    Rest,       \* what Write leaves to the next call in LT mode (10240 bytes)
    MaxAnswers  \* bound: calls of process that make an answer

\* kind is what stat says; odd, that the file begins with the bytes of (int) -1.
Resource == [kind : {"none", "dir", "private", "file"}, size : Nat,
             opens : BOOLEAN, odd : BOOLEAN]

ASSUME ConnAssumption ==
    /\ {"403", "404", ""} \subseteq DOMAIN Site
    /\ \A name \in DOMAIN Site : Site[name] \in Resource
    /\ Site[""].kind = "dir"
    /\ HeadLen \in Nat \ {0}
    /\ EventModes \subseteq BOOLEAN
    /\ Garbage \subseteq Nat
    /\ Rest \in Nat
    /\ MaxAnswers \in Nat

VARIABLES
    isET,       \* HttpConn::isET, set once before Start
    pc,         \* "closed", "read", "process", "out", "write", "decide", "crashed"
    h_writeBuff,\* its units and readPos
    iov0,       \* position in h_writeBuff and length
    iov1,       \* the answer whose file it points into, position, length
    h_iovCnt,
    mmFile,     \* the answer whose file is mapped, 0: nullptr
    keep,       \* IsKeepAlive()
    ret,        \* what the last writev returned: "sent", "zero", "again", "error"
    maps,       \* the mappings of the process
    srcFds,     \* its open descriptors of files
    answers,    \* answers made
    odd,        \* those of them that were made from an odd file (history)
    want,       \* what the heads sent on this connection announce (history)
    got,        \* what the client has received (history)
    ending      \* how OnWrite has ended the last connection (history)

iov == <<iov0, iov1, h_iovCnt>>
memory == <<mmFile, maps, srcFds>>
history == <<answers, odd, want, got, ending>>
vars == <<isET, pc, h_writeBuff, iov, memory, keep, ret, history>>

Unit == [of : 1..MaxAnswers, part : {"head", "error", "file"}, at : Nat]

\* The units from..to of a part of answer n.
Units(n, part, from, to) ==
    [i \in 1..(to - from + 1) |-> [of |-> n, part |-> part, at |-> from + i - 1]]

ToWriteBytes == iov0.len + iov1.len

TypeOK ==
    /\ isET \in EventModes
    /\ pc \in {"closed", "read", "process", "out", "write", "decide", "crashed"}
    /\ h_writeBuff \in [data : Seq(Unit), readPos : Nat]
    /\ h_writeBuff.readPos <= Len(h_writeBuff.data)
    /\ iov0 \in [at : Nat, len : Nat]
    /\ iov1 \in [of : 0..MaxAnswers, at : Nat, len : Nat]
    /\ h_iovCnt \in 0..2
    /\ mmFile \in maps \cup {0}
    /\ keep \in BOOLEAN
    /\ ret \in {"none", "sent", "zero", "again", "error"}
    /\ maps \subseteq 1..MaxAnswers
    /\ srcFds \subseteq 1..MaxAnswers
    /\ answers \in 0..MaxAnswers
    /\ odd \in 0..MaxAnswers
    /\ want \in Seq(Unit)
    /\ got \in Seq(Unit)
    /\ ending \in {"none", "whole", "cut", "dropped", "failed"}

\* The constructor leaves h_iov as it finds it.
Init ==
    /\ isET \in EventModes
    /\ pc = "closed"
    /\ h_writeBuff = [data |-> <<>>, readPos |-> 0]
    /\ iov0 = [at |-> 0, len |-> 0]
    /\ iov1 \in [of : {0}, at : {0}, len : Garbage]
    /\ h_iovCnt = 0
    /\ mmFile = 0
    /\ keep = FALSE
    /\ ret = "none"
    /\ maps = {}
    /\ srcFds = {}
    /\ answers = 0
    /\ odd = 0
    /\ want = <<>>
    /\ got = <<>>
    /\ ending = "none"

Goto(from, to) == pc = from /\ pc' = to

-------------------------------------------------------------------------------
(* Init, Read and Close *)

\* HttpConn::Init.
Open ==
    /\ Goto("closed", "read")
    /\ h_writeBuff' = [data |-> <<>>, readPos |-> 0]
    /\ want' = <<>>
    /\ got' = <<>>
    /\ ending' = "none"
    /\ UNCHANGED <<isET, iov, memory, keep, ret, answers, odd>>

\* Mutant: munmap, but the pointer stays.
UnmapKeepsPointer ==
    /\ maps' = maps \ {mmFile}
    /\ UNCHANGED <<mmFile, srcFds>>

\* HttpConn::Close: UnmapFile, then close(2).
UnmapFile ==
    /\ maps' = maps \ {mmFile}
    /\ mmFile' = 0
    /\ UNCHANGED srcFds

\* The client hangs up, or its timer fires, while nobody works on it.
Abandon ==
    /\ pc \in {"read", "out"}
    /\ pc' = "closed"
    /\ UnmapFile
    /\ UNCHANGED <<isET, h_writeBuff, iov, keep, ret, history>>

Read ==
    /\ Goto("read", "process")
    /\ UNCHANGED <<isET, h_writeBuff, iov, memory, keep, ret, history>>

-------------------------------------------------------------------------------
(* HttpConn::process and HttpResponse *)

ProcessNothing ==
    /\ Goto("process", "read")
    /\ keep' = FALSE
    /\ UNCHANGED <<isET, h_writeBuff, iov, memory, ret, history>>

\* The first lines of MakeResponse: what is sent for a name.
Page(name) ==
    CASE Site[name].kind \in {"none", "dir"} -> "404"
      [] Site[name].kind = "private" -> "403"
      [] Site[name].kind = "file" -> name

\* mmFileStat.st_size; a stat that fails leaves what the one before has found.
FileLen(name) ==
    IF Site[Page(name)].kind = "none" THEN Site[name].size ELSE Site[Page(name)].size

Crashes(name) == Site[Page(name)].opens /\ FileLen(name) = 0
Maps(name) == Site[Page(name)].opens /\ ~Site[Page(name)].odd

\* mmap of no bytes fails, and *mmRet is read nevertheless.
ProcessCrashes(name) ==
    /\ answers < MaxAnswers
    /\ Crashes(name)
    /\ Goto("process", "crashed")
    /\ UNCHANGED <<isET, h_writeBuff, iov, memory, keep, ret, history>>

\* Mutant: a second iovec whatever there is to send.
AlwaysTwo(name, n) ==
    /\ iov1' = [of |-> n, at |-> 0, len |-> FileLen(name)]
    /\ h_iovCnt' = 2

\* The second iovec is set, and counted, only when there is a file.
SetFile(name, n) ==
    IF Maps(name)
      THEN /\ iov1' = [of |-> n, at |-> 0, len |-> FileLen(name)]
           /\ h_iovCnt' = 2
      ELSE /\ iov1' = iov1
           /\ h_iovCnt' = 1

\* Mutant: HttpResponse::Init forgets the old mapping.
MapOver(name, n) ==
    /\ mmFile' = IF Maps(name) THEN n ELSE 0
    /\ maps' = maps \cup (IF Site[Page(name)].opens THEN {n} ELSE {})
    /\ srcFds' = srcFds \cup (IF Site[Page(name)].opens /\ ~Maps(name) THEN {n} ELSE {})

\* HttpResponse::Init unmaps the last file; AddContent maps this one.  It gives
\* back neither the mapping nor the descriptor of an odd file.
MapFile(name, n) ==
    /\ mmFile' = IF Maps(name) THEN n ELSE 0
    /\ maps' = (maps \ {mmFile}) \cup (IF Site[Page(name)].opens THEN {n} ELSE {})
    /\ srcFds' = srcFds \cup (IF Site[Page(name)].opens /\ ~Maps(name) THEN {n} ELSE {})

\* What AddStateLine, AddHeader and ErrorContent put into the buffer.
Text(name, n) ==
    Units(n, "head", 1, HeadLen) \o (IF Maps(name) THEN <<>> ELSE Units(n, "error", 1, 1))

Body(name, n) == IF Maps(name) THEN Units(n, "file", 1, FileLen(name)) ELSE <<>>

Process(name, keepAlive) ==
    LET n == answers + 1
        old == h_writeBuff
        unread == SubSeq(old.data, old.readPos + 1, Len(old.data))
    IN  /\ answers < MaxAnswers
        /\ ~Crashes(name)
        /\ name = "" => ~keepAlive
        /\ Goto("process", "out")
        /\ keep' = keepAlive
        /\ answers' = n
        /\ odd' = IF Site[Page(name)].opens /\ ~Maps(name) THEN odd + 1 ELSE odd
        /\ MapFile(name, n)
        /\ h_writeBuff' = [data |-> unread \o Text(name, n), readPos |-> 0]
        /\ iov0' = [at |-> 0, len |-> Len(h_writeBuff'.data)]
        /\ SetFile(name, n)
        /\ want' = want \o Text(name, n) \o Body(name, n)
        /\ UNCHANGED <<isET, ret, got, ending>>

-------------------------------------------------------------------------------
(* HttpConn::Write: the loop around writev *)

\* EPOLLOUT: OnWrite begins.
Writable ==
    /\ Goto("out", "write")
    /\ UNCHANGED <<isET, h_writeBuff, iov, memory, keep, ret, history>>

\* The units that the iovecs offer to writev.
Offered ==
    SubSeq(h_writeBuff.data, iov0.at + 1, iov0.at + iov0.len) \o
    (IF h_iovCnt = 2
       THEN Units(iov1.of, "file", iov1.at + 1, iov1.at + iov1.len) ELSE <<>>)

\* Mutant: the second iovec advances by all that was sent.
AdvanceTooFar(n) ==
    IF n > iov0.len
      THEN /\ iov1' = [iov1 EXCEPT !.at = @ + n, !.len = @ - (n - iov0.len)]
           /\ iov0' = [iov0 EXCEPT !.len = 0]
           /\ h_writeBuff' = IF iov0.len > 0 THEN [data |-> <<>>, readPos |-> 0]
                             ELSE h_writeBuff
      ELSE /\ iov0' = [at |-> iov0.at + n, len |-> iov0.len - n]
           /\ h_writeBuff' = [h_writeBuff EXCEPT !.readPos = @ + n]
           /\ UNCHANGED iov1

\* n units are gone.
Advance(n) ==
    IF n > iov0.len
      THEN /\ iov1' = [iov1 EXCEPT !.at = @ + (n - iov0.len), !.len = @ - (n - iov0.len)]
           /\ iov0' = [iov0 EXCEPT !.len = 0]
           /\ h_writeBuff' = IF iov0.len > 0 THEN [data |-> <<>>, readPos |-> 0]
                             ELSE h_writeBuff
      ELSE /\ iov0' = [at |-> iov0.at + n, len |-> iov0.len - n]
           /\ h_writeBuff' = [h_writeBuff EXCEPT !.readPos = @ + n]
           /\ UNCHANGED iov1

\* while (isET || ToWriteBytes() > 10240)
Stops(left) == ~isET /\ left <= Rest

\* writev takes n units.  (ToWriteBytes is never 0 here: the test in the loop
\* that would break out of it does nothing.)
Sent ==
    /\ pc = "write"
    /\ \E n \in 1..Len(Offered) :
        /\ Advance(n)
        /\ got' = got \o SubSeq(Offered, 1, n)
        /\ pc' = IF Stops(ToWriteBytes - n) THEN "decide" ELSE "write"
    /\ ret' = "sent"
    /\ UNCHANGED <<isET, h_iovCnt, memory, keep, answers, odd, want, ending>>

\* writev with nothing to take returns 0, otherwise EAGAIN or an error is
\* possible at any time.
NotSent ==
    /\ Goto("write", "decide")
    /\ ret' \in IF Offered = <<>> THEN {"zero"} ELSE {"again", "error"}
    /\ UNCHANGED <<isET, h_writeBuff, iov, memory, keep, history>>

-------------------------------------------------------------------------------
(* WebServer::OnWrite after Write *)

NextRequest ==
    /\ ToWriteBytes = 0
    /\ keep
    /\ Goto("decide", "process")
    /\ UNCHANGED <<isET, h_writeBuff, iov, memory, keep, ret, history>>

WaitForRoom ==
    /\ ToWriteBytes > 0
    /\ ret = "again"
    /\ Goto("decide", "out")
    /\ UNCHANGED <<isET, h_writeBuff, iov, memory, keep, ret, history>>

CloseAfter ==
    /\ IF ToWriteBytes = 0 THEN ~keep ELSE ret # "again"
    /\ Goto("decide", "closed")
    /\ UnmapFile
    /\ ending' = IF ret = "error" THEN "failed"
                 ELSE IF got # want THEN "cut"
                 ELSE IF keep THEN "dropped" ELSE "whole"
    /\ UNCHANGED <<isET, h_writeBuff, iov, keep, ret, answers, odd, want, got>>

Next ==
    \/ Open \/ Abandon \/ Read
    \/ ProcessNothing
    \/ \E name \in DOMAIN Site :
         ProcessCrashes(name) \/ \E keepAlive \in BOOLEAN : Process(name, keepAlive)
    \/ Writable \/ Sent \/ NotSent
    \/ NextRequest \/ WaitForRoom \/ CloseAfter

Spec == Init /\ [][Next]_vars

-------------------------------------------------------------------------------
(* Properties *)

\* The client receives, in order, exactly the heads and the files that were
\* announced to it, however writev cuts them up, over every number of answers on
\* one connection and of clients of one object: nothing of a former one.  OnWrite
\* cuts an answer short, without an error, only in LT mode and only by what Write
\* leaves in one call.
IntactStream ==
    /\ IsPrefix(got, want)
    /\ ending = "cut" => ~isET /\ Len(want) - Len(got) <= Rest

\* What the iovecs still point at is there: the first at all that is readable in
\* h_writeBuff, the second at the rest of the file that is mapped.  No munmap and
\* no RetrieveAll has come before the last byte is sent.
PointersValid ==
    pc \in {"out", "write", "decide"} =>
        /\ iov0.len = Len(h_writeBuff.data) - h_writeBuff.readPos
        /\ iov0.len > 0 => iov0.at = h_writeBuff.readPos
        /\ h_iovCnt = 2 /\ iov1.len > 0 => iov1.of = mmFile /\ mmFile \in maps

\* iov[1] has a length left from a former client, and no file to go with it.
Stale == h_iovCnt = 1 /\ iov1.len > 0

\* When Write returns, ToWriteBytes is 0 exactly if everything announced has
\* been sent, unless the second iovec is stale: then OnWrite closes a connection
\* that was announced as keep-alive.
DoneIsSeen ==
    pc = "decide" =>
        /\ ToWriteBytes = 0 => got = want
        /\ got = want /\ ~Stale => ToWriteBytes = 0

\* The iovecs are what is left to send, in memory and in number.
IovecsExact == PointersValid /\ DoneIsSeen

\* A closed connection has given back its files and mappings, but for those of
\* odd files, on every way an answer can end.
NothingLeaked ==
    pc = "closed" => Cardinality(maps) = odd /\ Cardinality(srcFds) = odd
===============================================================================
