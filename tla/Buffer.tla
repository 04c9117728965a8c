--------------------------------- MODULE Buffer ---------------------------------
(***************************************************************************)
(* code/buffer/buffer.cpp: a vector of cells, a position up to which it    *)
(* has been read and one up to which it has been written.  The positions   *)
(* count from 0, the cells from 1.                                         *)
(***************************************************************************)
EXTENDS Integers, Sequences

CONSTANT Zero       \* what resize and bzero put into a cell

ReadableBytes(b) == b.writePos - b.readPos
WritableBytes(b) == Len(b.cells) - b.writePos
PrependBytes(b) == b.readPos

\* The contents: from Peek() to BeginWrite().
Readable(b) == SubSeq(b.cells, b.readPos + 1, b.writePos)

IsBuffer(b, Cell) ==
    /\ b \in [cells : Seq(Cell), readPos : Nat, writePos : Nat]
    /\ b.readPos <= b.writePos
    /\ b.writePos <= Len(b.cells)

NewBuffer(size) ==
    [cells |-> [i \in 1..size |-> Zero], readPos |-> 0, writePos |-> 0]

\* s is put over the cells behind position p.
Over(cells, p, s) ==
    [i \in 1..Len(cells) |-> IF i > p /\ i <= p + Len(s) THEN s[i - p] ELSE cells[i]]

Retrieve(b, len) == [b EXCEPT !.readPos = @ + len]

\* Mutant: the vector grows by what is missing, and nothing is moved.
AdjustInPlace(b, len) ==
    IF WritableBytes(b) + PrependBytes(b) < len
      THEN [b EXCEPT !.cells = [i \in 1..(b.writePos + len + 1) |->
                                   IF i <= Len(b.cells) THEN b.cells[i] ELSE Zero]]
      ELSE [b EXCEPT !.readPos = 0, !.writePos = ReadableBytes(b)]

\* The vector grows, or what is readable moves to its beginning.
AdjustSpace(b, len) ==
    IF WritableBytes(b) + PrependBytes(b) < len
      THEN [b EXCEPT !.cells = [i \in 1..(b.writePos + len + 1) |->
                                   IF i <= Len(b.cells) THEN b.cells[i] ELSE Zero]]
      ELSE [cells |-> Over(b.cells, 0, Readable(b)),
            readPos |-> 0,
            writePos |-> ReadableBytes(b)]

EnsureWriteable(b, len) == IF WritableBytes(b) < len THEN AdjustSpace(b, len) ELSE b

\* std::copy to BeginWrite(), and HasWritten.
Put(b, s) ==
    [cells |-> Over(b.cells, b.writePos, s),
     readPos |-> b.readPos,
     writePos |-> b.writePos + Len(s)]

Appended(b, s) == Put(EnsureWriteable(b, Len(s)), s)

\* ReadFd when readv returns s: first into the cells that are writable, then into
\* an array on the stack, which is appended.
ReadFd(b, s) ==
    LET room == WritableBytes(b) IN
    IF Len(s) <= room THEN Put(b, s)
    ELSE Appended(Put(b, SubSeq(s, 1, room)), SubSeq(s, room + 1, Len(s)))
===============================================================================
