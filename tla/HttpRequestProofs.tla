---------------------------- MODULE HttpRequestProofs ----------------------------
(***************************************************************************)
(* Theorems about HttpRequest and the operators of Buffer that it is built *)
(* from.                                                                   *)
(*                                                                         *)
(* For buffers of every size and content what is readable is a queue:      *)
(* ReadFd puts what readv has read behind it, whether it fits, is moved to *)
(* the beginning, or makes the vector grow; Retrieve takes bytes from its  *)
(* front.  For every client, every cut of what it sends, both event modes  *)
(* and whatever Parse takes, the read buffer of a connection is therefore  *)
(* the queue of what has been received and not been taken (IInv).          *)
(*                                                                         *)
(* With it, Parse can be followed along the stream (PInv).  Between two    *)
(* requests either the request that is due follows, with no more in front  *)
(* of its path than the rest of a form and what is left of its method; or  *)
(* the line ends before there is a path, and the next answer is 400.       *)
(* Within a request Parse stands where one of its lines begins, and knows  *)
(* what the lines before have said, but for a method that was cut.         *)
(***************************************************************************)
EXTENDS HttpRequest, SequenceTheorems, WellFoundedInduction, TLAPS

\* The inductive invariant of the buffer.
IInv ==
    /\ convo \in Conversations
    /\ socket \in Seq(Symbols)
    /\ unsent \in Seq(Symbols)
    /\ taken \in 0..Len(Stream)
    /\ BufferIsQueue

-------------------------------------------------------------------------------
(* Sequences *)

\* A set of naturals has a least member.
LEMMA LeastOf ==
    ASSUME NEW S, S \subseteq Nat, S # {}
    PROVE  \E x : x \in S /\ \A y \in S : x <= y
  <1> DEFINE R == {xy \in Nat \X Nat : xy[1] < xy[2]}
  <1>1. IsWellFoundedOn(R, Nat)
    BY NatLessThanWellFounded, Zenon DEF OpToRel
  <1> HIDE DEF R
  <1>2. PICK x \in S : \A y \in S : ~(<<y, x>> \in R)
    BY <1>1, WFMin
  <1>3. ASSUME NEW y \in S PROVE x <= y
    <2>1. x \in Nat /\ y \in Nat
      OBVIOUS
    <2>2. <<y, x>> \in R <=> y < x
      BY <2>1 DEF R
    <2>3. ~(y < x)
      BY <1>2, <2>2
    <2> QED
      BY <2>1, <2>3
  <1> QED
    BY <1>3

\* What Min returns is a member, and no member is less.
LEMMA MinIsMember ==
    ASSUME NEW S, S \subseteq Nat, S # {}
    PROVE  Min(S) \in S /\ \A y \in S : Min(S) <= y
  BY LeastOf DEF Min

\* A sequence is its first n elements and the others.
LEMMA Split ==
    ASSUME NEW S, NEW s, s \in Seq(S), NEW n, n \in 0..Len(s)
    PROVE  /\ SubSeq(s, 1, n) \in Seq(S)
           /\ SubSeq(s, n + 1, Len(s)) \in Seq(S)
           /\ SubSeq(s, 1, n) \o SubSeq(s, n + 1, Len(s)) = s
  <1>1. Len(s) \in Nat /\ \A i \in 1..Len(s) : s[i] \in S
    BY LenProperties, ElementOfSeq
  <1>2. SubSeq(s, 1, n) \in Seq(S)
    <2>1. n \in Int /\ \A i \in 1..n : s[i] \in S
      BY <1>1
    <2> QED
      BY <2>1, SubSeqProperties
  <1>3. SubSeq(s, n + 1, Len(s)) \in Seq(S)
    <2>1. n + 1 \in Int /\ Len(s) \in Int /\ \A i \in (n + 1)..Len(s) : s[i] \in S
      BY <1>1
    <2> QED
      BY <2>1, SubSeqProperties
  <1>4. SubSeq(s, 1, n) \o SubSeq(s, n + 1, Len(s)) = SubSeq(s, 1, Len(s))
    <2>1. /\ 1 \in 1..(Len(s) + 1) /\ n \in (1 - 1)..Len(s) /\ Len(s) \in n..Len(s)
      BY <1>1
    <2> QED
      BY <2>1, ConcatAdjacentSubSeq
  <1>5. SubSeq(s, 1, Len(s)) = s
    BY SubSeqFull
  <1> QED
    BY <1>2, <1>3, <1>4, <1>5

\* Before stream position k, everything has been taken: q and t are the rest.
Behind(stream, k, q, t) ==
    /\ k \in 0..Len(stream)
    /\ q \in Seq(Symbols)
    /\ t \in Seq(Symbols)
    /\ q \o t = SubSeq(stream, k + 1, Len(stream))

\* p is q without its first n elements.
Without(p, q, n) ==
    /\ n \in 0..Len(q)
    /\ p \in Seq(Symbols)
    /\ Len(p) = Len(q) - n
    /\ \A i \in 1..(Len(q) - n) : p[i] = q[n + i]

\* What is taken off q is taken off the rest of the stream.
LEMMA Drop ==
    ASSUME NEW st, st \in Seq(Symbols), NEW k, NEW q, NEW t, NEW n, NEW p,
           Behind(st, k, q, t), Without(p, q, n)
    PROVE  Behind(st, k + n, p, t)
  <1> DEFINE S == Symbols
  <1>0. /\ k \in 0..Len(st) /\ q \in Seq(S) /\ t \in Seq(S)
        /\ q \o t = SubSeq(st, k + 1, Len(st))
        /\ n \in 0..Len(q) /\ p \in Seq(S) /\ Len(p) = Len(q) - n
        /\ \A i \in 1..(Len(q) - n) : p[i] = q[n + i]
    BY DEF Behind, Without
  <1> HIDE DEF S
  <1>1. Len(st) \in Nat /\ Len(q) \in Nat /\ Len(t) \in Nat
    BY <1>0, LenProperties DEF S
  <1>2. \A i \in 1..Len(st) : st[i] \in S
    BY ElementOfSeq DEF S
  <1>3. ASSUME NEW m, m \in 0..Len(st)
        PROVE  /\ SubSeq(st, m + 1, Len(st)) \in Seq(S)
               /\ Len(SubSeq(st, m + 1, Len(st))) = Len(st) - m
               /\ \A i \in 1..(Len(st) - m) : SubSeq(st, m + 1, Len(st))[i] = st[m + i]
    <2>1. PICK a, b : a = m + 1 /\ b = Len(st)
      OBVIOUS
    <2>2. a \in Int /\ b \in Int /\ \A i \in a..b : st[i] \in S
      BY <1>0, <1>1, <1>2, <1>3, <2>1
    <2>3. /\ SubSeq(st, a, b) \in Seq(S)
          /\ Len(SubSeq(st, a, b)) = IF a <= b THEN b - a + 1 ELSE 0
          /\ \A i \in 1..(b - a + 1) : SubSeq(st, a, b)[i] = st[a + i - 1]
      BY <1>0, <2>2, SubSeqProperties
    <2>4. (IF a <= b THEN b - a + 1 ELSE 0) = Len(st) - m /\ b - a + 1 = Len(st) - m
      BY <1>0, <1>1, <1>3, <2>1
    <2>5. \A i \in 1..(Len(st) - m) : a + i - 1 = m + i
      BY <1>0, <1>1, <1>3, <2>1
    <2> QED
      BY <1>0, <2>1, <2>3, <2>4, <2>5
  <1>4. PICK r : r = SubSeq(st, k + 1, Len(st))
    OBVIOUS
  <1>5. /\ Len(r) = Len(st) - k
        /\ \A i \in 1..(Len(st) - k) : r[i] = st[k + i]
    BY <1>0, <1>3, <1>4
  <1>6. PICK c : c = q \o t
    OBVIOUS
  <1>7. /\ Len(c) = Len(q) + Len(t)
        /\ \A i \in 1..(Len(q) + Len(t)) : c[i] = IF i <= Len(q) THEN q[i] ELSE t[i - Len(q)]
    BY <1>0, <1>6, ConcatProperties
  <1>8. c = r
    BY <1>0, <1>4, <1>6
  <1>9. PICK d : d = p \o t
    OBVIOUS
  <1>10. /\ d \in Seq(S) /\ Len(d) = Len(p) + Len(t)
         /\ \A i \in 1..(Len(p) + Len(t)) : d[i] = IF i <= Len(p) THEN p[i] ELSE t[i - Len(p)]
    BY <1>0, <1>9, ConcatProperties
  <1>11. Len(q) + Len(t) = Len(st) - k /\ k + n \in 0..Len(st)
    BY <1>0, <1>1, <1>5, <1>7, <1>8
  <1>12. PICK e : e = SubSeq(st, (k + n) + 1, Len(st))
    OBVIOUS
  <1>13. /\ e \in Seq(S) /\ Len(e) = Len(st) - (k + n)
         /\ \A i \in 1..(Len(st) - (k + n)) : e[i] = st[(k + n) + i]
    BY <1>0, <1>3, <1>11, <1>12
  <1>14. Len(d) = Len(e)
    BY <1>0, <1>1, <1>10, <1>11, <1>13
  <1>15. ASSUME NEW i \in 1..Len(d) PROVE d[i] = e[i]
    <2>1. e[i] = st[k + (n + i)] /\ n + i \in 1..(Len(q) + Len(t))
      <3>1. i \in Nat /\ k \in Nat /\ n \in Nat /\ i \in 1..(Len(st) - (k + n))
        BY <1>0, <1>1, <1>13, <1>14
      <3>2. (k + n) + i = k + (n + i)
        BY <1>0, <3>1
      <3>3. n + i \in 1..(Len(q) + Len(t))
        BY <1>0, <1>1, <1>11, <3>1
      <3> QED
        BY <1>0, <1>13, <3>1, <3>2, <3>3
    <2>2. e[i] = c[n + i]
      BY <1>0, <1>5, <1>8, <1>11, <2>1
    <2>3. CASE i <= Len(p)
      <3>1. n + i <= Len(q) /\ i \in 1..(Len(q) - n) /\ i \in 1..(Len(p) + Len(t))
        BY <1>0, <1>1, <2>3
      <3> QED
        BY <1>0, <1>7, <1>10, <2>1, <2>2, <2>3, <3>1
    <2>4. CASE ~(i <= Len(p))
      <3>1. ~(n + i <= Len(q)) /\ (n + i) - Len(q) = i - Len(p) /\ i \in 1..(Len(p) + Len(t))
        BY <1>0, <1>1, <1>10, <2>4
      <3> QED
        BY <1>0, <1>7, <1>10, <2>1, <2>2, <2>4, <3>1
    <2> QED
      BY <1>0, <2>3, <2>4
  <1>16. d = e
    BY <1>0, <1>10, <1>13, <1>14, <1>15, SeqEqual
  <1> QED
    BY <1>0, <1>9, <1>11, <1>12, <1>16 DEF Behind, S

\* Concatenation is associative.
LEMMA Regroup ==
    \A q, a, b \in Seq(Symbols) : (q \o a) \o b = q \o (a \o b)
  BY ConcatAssociative

-------------------------------------------------------------------------------
(* The buffer *)

\* b holds the contents q.
Holds(b, Cell, q) ==
    /\ IsBuffer(b, Cell)
    /\ q \in Seq(Cell)
    /\ Len(q) = b.writePos - b.readPos
    /\ \A i \in 1..Len(q) : q[i] = b.cells[b.readPos + i]

\* A function on 1..n is a sequence of length n.
LEMMA FunctionIsSeq ==
    ASSUME NEW S, NEW n \in Nat, NEW f, f \in [1..n -> S]
    PROVE  f \in Seq(S) /\ Len(f) = n
  <1>1. f \in UNION {[1..m -> S] : m \in Nat}
    OBVIOUS
  <1>2. f \in Seq(S)
    BY <1>1, SeqDef, Zenon
  <1> QED
    BY <1>2

\* The elements of s from m to n.
LEMMA Middle ==
    ASSUME NEW S, NEW s, s \in Seq(S), NEW m \in Nat, NEW n \in Nat,
           1 <= m, m <= n + 1, n <= Len(s)
    PROVE  /\ SubSeq(s, m, n) \in Seq(S)
           /\ Len(SubSeq(s, m, n)) = n - m + 1
           /\ \A i \in 1..(n - m + 1) : SubSeq(s, m, n)[i] = s[m + i - 1]
  <1>1. m \in Int /\ n \in Int /\ \A i \in m..n : i \in 1..Len(s)
    BY LenProperties
  <1>2. \A i \in m..n : s[i] \in S
    BY <1>1, ElementOfSeq
  <1>3. /\ SubSeq(s, m, n) \in Seq(S)
        /\ Len(SubSeq(s, m, n)) = IF m <= n THEN n - m + 1 ELSE 0
        /\ \A i \in 1..(n - m + 1) : SubSeq(s, m, n)[i] = s[m + i - 1]
    BY <1>1, <1>2, SubSeqProperties
  <1>4. m <= n \/ m = n + 1
    OBVIOUS
  <1> QED
    BY <1>3, <1>4

\* The fields of a well-formed buffer.
LEMMA BufferFields ==
    ASSUME NEW Cell, NEW b, IsBuffer(b, Cell)
    PROVE  /\ b.cells \in Seq(Cell) /\ Len(b.cells) \in Nat
           /\ b.readPos \in Nat /\ b.writePos \in Nat
           /\ b.readPos <= b.writePos /\ b.writePos <= Len(b.cells)
           /\ b = [cells |-> b.cells, readPos |-> b.readPos, writePos |-> b.writePos]
  BY LenProperties DEF IsBuffer

\* A buffer holds what is readable in it, and nothing else.
LEMMA HoldsReadable ==
    ASSUME NEW Cell, NEW b, IsBuffer(b, Cell)
    PROVE  Holds(b, Cell, Readable(b))
  <1> DEFINE m == b.readPos + 1
             n == b.writePos
  <1>1. /\ b.cells \in Seq(Cell) /\ m \in Nat /\ n \in Nat
        /\ 1 <= m /\ m <= n + 1 /\ n <= Len(b.cells)
    BY BufferFields
  <1>2. /\ SubSeq(b.cells, m, n) \in Seq(Cell)
        /\ Len(SubSeq(b.cells, m, n)) = n - m + 1
        /\ \A i \in 1..(n - m + 1) : SubSeq(b.cells, m, n)[i] = b.cells[m + i - 1]
    BY <1>1, Middle
  <1>3. n - m + 1 = b.writePos - b.readPos /\ \A i \in Nat : m + i - 1 = b.readPos + i
    BY BufferFields
  <1> QED
    BY <1>2, <1>3 DEF Holds, Readable

\* What a buffer holds is what is readable.
LEMMA HoldsOnly ==
    ASSUME NEW Cell, NEW b, NEW q, Holds(b, Cell, q)
    PROVE  Readable(b) = q
  <1>1. IsBuffer(b, Cell)
    BY DEF Holds
  <1>2. Holds(b, Cell, Readable(b))
    BY <1>1, HoldsReadable
  <1>3. PICK r : r = Readable(b)
    OBVIOUS
  <1>4. /\ r \in Seq(Cell) /\ q \in Seq(Cell) /\ Len(r) = Len(q)
        /\ \A i \in 1..Len(r) : r[i] = q[i]
    BY <1>2, <1>3 DEF Holds
  <1>5. r = q
    BY <1>4, SeqEqual
  <1> QED
    BY <1>3, <1>5

\* Over writes s behind position p and nothing else.
LEMMA OverShape ==
    ASSUME NEW Cell, NEW c, c \in Seq(Cell), NEW p \in Nat, NEW s, s \in Seq(Cell),
           p + Len(s) <= Len(c)
    PROVE  /\ Over(c, p, s) \in Seq(Cell) /\ Len(Over(c, p, s)) = Len(c)
           /\ \A i \in 1..Len(c) :
                Over(c, p, s)[i] = IF i > p /\ i <= p + Len(s) THEN s[i - p] ELSE c[i]
  <1> DEFINE e(i) == IF i > p /\ i <= p + Len(s) THEN s[i - p] ELSE c[i]
  <1>1. Len(c) \in Nat /\ Len(s) \in Nat
    BY LenProperties
  <1>2. \A i \in 1..Len(c) : e(i) \in Cell
    <2> SUFFICES ASSUME NEW i \in 1..Len(c) PROVE e(i) \in Cell
      OBVIOUS
    <2>1. CASE i > p /\ i <= p + Len(s)
      <3>1. i - p \in 1..Len(s)
        BY <1>1, <2>1
      <3> QED
        BY <2>1, <3>1, ElementOfSeq
    <2>2. CASE ~(i > p /\ i <= p + Len(s))
      BY <2>2, ElementOfSeq
    <2> QED
      BY <2>1, <2>2
  <1>3. Over(c, p, s) = [i \in 1..Len(c) |-> e(i)]
    BY DEF Over
  <1> HIDE DEF e
  <1>4. Over(c, p, s) \in [1..Len(c) -> Cell]
    BY <1>2, <1>3
  <1>5. Over(c, p, s) \in Seq(Cell) /\ Len(Over(c, p, s)) = Len(c)
    BY <1>1, <1>4, FunctionIsSeq
  <1>6. \A i \in 1..Len(c) : Over(c, p, s)[i] = e(i)
    BY <1>3
  <1> QED
    BY <1>5, <1>6 DEF e

\* c is q with s behind it.
IsConcat(c, Cell, q, s) ==
    /\ c \in Seq(Cell)
    /\ Len(c) = Len(q) + Len(s)
    /\ \A i \in 1..Len(c) : c[i] = IF i <= Len(q) THEN q[i] ELSE s[i - Len(q)]

\* What concatenation gives.
LEMMA ConcatIs ==
    \A Cell : \A q, s \in Seq(Cell) : IsConcat(q \o s, Cell, q, s)
  BY ConcatProperties DEF IsConcat

\* What fits is put behind the contents.
LEMMA PutHolds ==
    ASSUME NEW Cell, NEW b, NEW q, Holds(b, Cell, q), NEW s, s \in Seq(Cell),
           Len(s) <= WritableBytes(b)
    PROVE  Holds(Put(b, s), Cell, q \o s)
  <1>1. IsBuffer(b, Cell) /\ q \in Seq(Cell) /\ Len(q) \in Nat /\ Len(s) \in Nat
    BY LenProperties DEF Holds
  <1>2. PICK c, r, w : c = b.cells /\ r = b.readPos /\ w = b.writePos
    OBVIOUS
  <1>3. /\ c \in Seq(Cell) /\ Len(c) \in Nat /\ r \in Nat /\ w \in Nat
        /\ r <= w /\ w + Len(s) <= Len(c) /\ b = [cells |-> c, readPos |-> r, writePos |-> w]
    <2>1. /\ c \in Seq(Cell) /\ Len(c) \in Nat /\ r \in Nat /\ w \in Nat
          /\ r <= w /\ b = [cells |-> c, readPos |-> r, writePos |-> w]
      BY <1>1, <1>2, BufferFields
    <2>2. Len(s) <= Len(c) - w
      BY <1>2 DEF WritableBytes
    <2> QED
      BY <1>1, <2>1, <2>2
  <1>4. PICK d : d = Over(c, w, s)
    OBVIOUS
  <1>5. /\ d \in Seq(Cell) /\ Len(d) = Len(c)
        /\ \A i \in 1..Len(c) : d[i] = IF i > w /\ i <= w + Len(s) THEN s[i - w] ELSE c[i]
    BY <1>3, <1>4, OverShape
  <1>6. Put(b, s) = [cells |-> d, readPos |-> r, writePos |-> w + Len(s)]
    BY <1>2, <1>4 DEF Put
  <1>7. PICK t : t = q \o s
    OBVIOUS
  <1>8. IsConcat(t, Cell, q, s)
    <2>1. IsConcat(q \o s, Cell, q, s)
      BY <1>1, ConcatIs, Zenon
    <2> QED
      BY <1>7, <2>1, Zenon
  <1>9. Len(q) = w - r /\ \A i \in 1..Len(q) : q[i] = c[r + i]
    BY <1>2 DEF Holds
  <1>10. t \in Seq(Cell) /\ Len(t) = Len(q) + Len(s)
    BY <1>8 DEF IsConcat
  <1>11. ASSUME NEW i \in 1..Len(t) PROVE t[i] = d[r + i]
    <2>1. t[i] = IF i <= Len(q) THEN q[i] ELSE s[i - Len(q)]
      BY <1>8 DEF IsConcat
    <2>2. i \in Nat /\ r + i \in 1..Len(c)
      BY <1>1, <1>3, <1>9, <1>10
    <2>3. CASE i <= Len(q)
      <3>1. ~(r + i > w) /\ i \in 1..Len(q)
        BY <1>3, <1>9, <2>2, <2>3
      <3> QED
        BY <1>5, <1>9, <2>1, <2>2, <2>3, <3>1
    <2>4. CASE i > Len(q)
      <3>1. r + i > w /\ r + i <= w + Len(s) /\ (r + i) - w = i - Len(q) /\ ~(i <= Len(q))
        BY <1>1, <1>3, <1>9, <1>10, <2>2, <2>4
      <3> QED
        BY <1>5, <2>1, <2>2, <3>1
    <2> QED
      BY <1>1, <2>2, <2>3, <2>4
  <1>12. IsBuffer([cells |-> d, readPos |-> r, writePos |-> w + Len(s)], Cell)
    BY <1>1, <1>3, <1>5 DEF IsBuffer
  <1>13. Len(t) = (w + Len(s)) - r
    BY <1>1, <1>3, <1>9, <1>10
  <1>14. Holds([cells |-> d, readPos |-> r, writePos |-> w + Len(s)], Cell, t)
    BY <1>10, <1>11, <1>12, <1>13 DEF Holds
  <1> QED
    BY <1>6, <1>7, <1>14

\* Room is made without touching the contents.
LEMMA AdjustHolds ==
    ASSUME NEW Cell, Nul \in Cell, NEW b, NEW q, Holds(b, Cell, q), NEW len \in Nat
    PROVE  /\ Holds(AdjustSpace(b, len), Cell, q)
           /\ WritableBytes(AdjustSpace(b, len)) >= len
  <1>1. IsBuffer(b, Cell) /\ q \in Seq(Cell) /\ Len(q) \in Nat
    BY LenProperties DEF Holds
  <1>2. PICK c, r, w : c = b.cells /\ r = b.readPos /\ w = b.writePos
    OBVIOUS
  <1>3. /\ c \in Seq(Cell) /\ Len(c) \in Nat /\ r \in Nat /\ w \in Nat
        /\ r <= w /\ w <= Len(c) /\ b = [cells |-> c, readPos |-> r, writePos |-> w]
    BY <1>1, <1>2, BufferFields
  <1>4. Len(q) = w - r /\ \A i \in 1..Len(q) : q[i] = c[r + i]
    BY <1>2 DEF Holds
  <1>5. CASE (Len(c) - w) + r < len
    <2> DEFINE n == w + len + 1
               e(i) == IF i <= Len(c) THEN c[i] ELSE Nul
    <2>1. n \in Nat /\ Len(c) <= n /\ w <= n
      BY <1>3, <1>5
    <2>2. \A i \in 1..n : e(i) \in Cell
      BY <1>3, ElementOfSeq
    <2>3. PICK d : d = [i \in 1..n |-> e(i)]
      OBVIOUS
    <2>4. AdjustSpace(b, len) = [cells |-> d, readPos |-> r, writePos |-> w]
      BY <1>2, <1>3, <1>5, <2>3 DEF AdjustSpace, WritableBytes, PrependBytes
    <2>8. n - w >= len
      BY <1>3
    <2> HIDE DEF n, e
    <2>5. d \in Seq(Cell) /\ Len(d) = n
      <3>1. d \in [1..n -> Cell]
        BY <2>2, <2>3
      <3> QED
        BY <2>1, <3>1, FunctionIsSeq
    <2>6. ASSUME NEW i \in 1..Len(q) PROVE q[i] = d[r + i]
      <3>1. r + i \in 1..n /\ r + i <= Len(c)
        BY <1>1, <1>3, <1>4, <2>1
      <3> QED
        BY <1>4, <2>3, <3>1 DEF e
    <2>7. Holds([cells |-> d, readPos |-> r, writePos |-> w], Cell, q)
      BY <1>1, <1>3, <1>4, <2>1, <2>5, <2>6 DEF Holds, IsBuffer
    <2> QED
      BY <2>4, <2>5, <2>7, <2>8 DEF WritableBytes
  <1>6. CASE ~((Len(c) - w) + r < len)
    <2>1. Readable(b) = q
      BY HoldsOnly
    <2>2. PICK d : d = Over(c, 0, q)
      OBVIOUS
    <2>3. PICK z : z \in Nat /\ z = 0
      OBVIOUS
    <2>4. z + Len(q) <= Len(c) /\ d = Over(c, z, q)
      BY <1>1, <1>3, <1>4, <2>2, <2>3
    <2>5. /\ d \in Seq(Cell) /\ Len(d) = Len(c)
          /\ \A i \in 1..Len(c) : d[i] = IF i > z /\ i <= z + Len(q) THEN q[i - z] ELSE c[i]
      BY <1>1, <1>3, <2>3, <2>4, OverShape
    <2>6. AdjustSpace(b, len) = [cells |-> d, readPos |-> z, writePos |-> Len(q)]
      BY <1>2, <1>4, <1>6, <2>1, <2>2, <2>3
      DEF AdjustSpace, WritableBytes, PrependBytes, ReadableBytes
    <2>7. ASSUME NEW i \in 1..Len(q) PROVE q[i] = d[z + i]
      <3>1. z + i \in 1..Len(c) /\ z + i > z /\ z + i <= z + Len(q) /\ (z + i) - z = i
        BY <1>1, <1>3, <2>3, <2>4
      <3> QED
        BY <2>5, <3>1
    <2>8. Holds([cells |-> d, readPos |-> z, writePos |-> Len(q)], Cell, q)
      BY <1>1, <1>3, <2>3, <2>4, <2>5, <2>7 DEF Holds, IsBuffer
    <2>9. Len(d) - Len(q) >= len
      BY <1>1, <1>3, <1>4, <1>6, <2>5
    <2> QED
      BY <2>6, <2>8, <2>9 DEF WritableBytes
  <1> QED
    BY <1>5, <1>6

\* Append puts its bytes behind the contents.
LEMMA AppendedHolds ==
    ASSUME NEW Cell, Nul \in Cell, NEW b, NEW q, Holds(b, Cell, q), NEW s, s \in Seq(Cell)
    PROVE  Holds(Appended(b, s), Cell, q \o s)
  <1>1. Len(s) \in Nat
    BY LenProperties
  <1>2. PICK b2 : b2 = EnsureWriteable(b, Len(s))
    OBVIOUS
  <1>3. Holds(b2, Cell, q) /\ Len(s) <= WritableBytes(b2)
    <2>1. CASE WritableBytes(b) < Len(s)
      <3>1. b2 = AdjustSpace(b, Len(s))
        BY <1>2, <2>1 DEF EnsureWriteable
      <3>2. Holds(AdjustSpace(b, Len(s)), Cell, q)
            /\ WritableBytes(AdjustSpace(b, Len(s))) >= Len(s)
        BY <1>1, AdjustHolds
      <3> QED
        BY <3>1, <3>2
    <2>2. CASE ~(WritableBytes(b) < Len(s))
      <3>1. b2 = b
        BY <1>2, <2>2 DEF EnsureWriteable
      <3>2. IsBuffer(b, Cell)
        BY DEF Holds
      <3>3. WritableBytes(b) \in Int
        BY <3>2, BufferFields DEF WritableBytes
      <3> QED
        BY <1>1, <2>2, <3>1, <3>3
    <2> QED
      BY <2>1, <2>2
  <1>4. Holds(Put(b2, s), Cell, q \o s)
    BY <1>3, PutHolds
  <1> QED
    BY <1>2, <1>4 DEF Appended

\* A new buffer is well formed.
LEMMA NewIsBuffer ==
    ASSUME NEW Cell, Nul \in Cell, NEW size \in Nat
    PROVE  IsBuffer(NewBuffer(size), Cell)
  <1>1. PICK c : c = [i \in 1..size |-> Nul]
    OBVIOUS
  <1>2. c \in Seq(Cell) /\ Len(c) = size
    <2>1. c \in [1..size -> Cell]
      BY <1>1
    <2> QED
      BY <2>1, FunctionIsSeq
  <1> QED
    BY <1>1, <1>2 DEF NewBuffer, IsBuffer

-------------------------------------------------------------------------------
(* What is readable is a queue *)

\* A buffer of Buffer's constructor is empty.
THEOREM NewIsEmpty ==
    ASSUME NEW Cell, Nul \in Cell, NEW size \in Nat
    PROVE  IsBuffer(NewBuffer(size), Cell) /\ Readable(NewBuffer(size)) = <<>>
  <1>1. IsBuffer(NewBuffer(size), Cell)
    BY NewIsBuffer
  <1>2. Holds(NewBuffer(size), Cell, Readable(NewBuffer(size)))
    BY <1>1, HoldsReadable
  <1>3. NewBuffer(size).readPos = 0 /\ NewBuffer(size).writePos = 0
    BY DEF NewBuffer
  <1>4. PICK q : q = Readable(NewBuffer(size))
    OBVIOUS
  <1>5. q \in Seq(Cell) /\ Len(q) = 0
    BY <1>2, <1>3, <1>4 DEF Holds
  <1> QED
    BY <1>1, <1>4, <1>5, EmptySeq

\* What is appended is behind the contents, for every size of the vector.
THEOREM AppendIsPut ==
    ASSUME NEW Cell, Nul \in Cell, NEW b, IsBuffer(b, Cell), NEW s, s \in Seq(Cell)
    PROVE  IsBuffer(Appended(b, s), Cell) /\ Readable(Appended(b, s)) = Readable(b) \o s
  <1>1. Holds(b, Cell, Readable(b))
    BY HoldsReadable
  <1>2. Holds(Appended(b, s), Cell, Readable(b) \o s)
    BY <1>1, AppendedHolds
  <1> QED
    BY <1>2, HoldsOnly DEF Holds

\* ReadFd loses and doubles nothing of what readv has read, whichever part of it
\* went into the vector and whichever into the array on the stack.
THEOREM ReadFdIsPut ==
    ASSUME NEW Cell, Nul \in Cell, NEW b, IsBuffer(b, Cell), NEW s, s \in Seq(Cell)
    PROVE  IsBuffer(ReadFd(b, s), Cell) /\ Readable(ReadFd(b, s)) = Readable(b) \o s
  <1>1. PICK q, room : q = Readable(b) /\ room = WritableBytes(b)
    OBVIOUS
  <1>2. Holds(b, Cell, q) /\ q \in Seq(Cell)
    BY <1>1, HoldsReadable DEF Holds
  <1>3. Len(s) \in Nat /\ room \in Nat
    BY <1>1, BufferFields, LenProperties DEF WritableBytes
  <1>4. Holds(ReadFd(b, s), Cell, q \o s)
    <2>1. CASE Len(s) <= room
      <3>1. ReadFd(b, s) = Put(b, s)
        BY <1>1, <2>1 DEF ReadFd
      <3>2. Holds(Put(b, s), Cell, q \o s)
        BY <1>1, <1>2, <2>1, PutHolds
      <3> QED
        BY <3>1, <3>2
    <2>2. CASE Len(s) > room
      <3>1. PICK s1, s2 : s1 = SubSeq(s, 1, room) /\ s2 = SubSeq(s, room + 1, Len(s))
        OBVIOUS
      <3>2. s1 \in Seq(Cell) /\ Len(s1) = room /\ \A i \in 1..room : s1[i] = s[i]
        <4>1. PICK m : m \in Nat /\ m = 1
          OBVIOUS
        <4>2. 1 <= m /\ m <= room + 1 /\ room <= Len(s)
          BY <1>3, <2>2, <4>1
        <4>3. /\ SubSeq(s, m, room) \in Seq(Cell)
              /\ Len(SubSeq(s, m, room)) = room - m + 1
              /\ \A i \in 1..(room - m + 1) : SubSeq(s, m, room)[i] = s[m + i - 1]
          BY <1>3, <4>1, <4>2, Middle
        <4> QED
          BY <1>3, <3>1, <4>1, <4>3
      <3>3. /\ s2 \in Seq(Cell) /\ Len(s2) = Len(s) - room
            /\ \A i \in 1..(Len(s) - room) : s2[i] = s[room + i]
        <4>1. PICK m, n : m \in Nat /\ n \in Nat /\ m = room + 1 /\ n = Len(s)
          BY <1>3
        <4>2. 1 <= m /\ m <= n + 1 /\ n <= Len(s)
          BY <1>3, <2>2, <4>1
        <4>3. /\ SubSeq(s, m, n) \in Seq(Cell)
              /\ Len(SubSeq(s, m, n)) = n - m + 1
              /\ \A i \in 1..(n - m + 1) : SubSeq(s, m, n)[i] = s[m + i - 1]
          BY <4>1, <4>2, Middle
        <4> QED
          BY <1>3, <3>1, <4>1, <4>3
      <3>4. Holds(Put(b, s1), Cell, q \o s1)
        BY <1>1, <1>2, <3>2, PutHolds
      <3>5. Holds(Appended(Put(b, s1), s2), Cell, (q \o s1) \o s2)
        BY <3>3, <3>4, AppendedHolds
      <3>6. s1 \o s2 = s
        <4>1. PICK t : t = s1 \o s2
          OBVIOUS
        <4>2. IsConcat(t, Cell, s1, s2)
          BY <3>2, <3>3, <4>1, ConcatIs, Zenon
        <4>3. t \in Seq(Cell) /\ Len(t) = Len(s)
          BY <1>3, <3>2, <3>3, <4>2 DEF IsConcat
        <4>4. ASSUME NEW i \in 1..Len(s) PROVE t[i] = s[i]
          <5>1. t[i] = IF i <= room THEN s1[i] ELSE s2[i - room]
            BY <3>2, <4>2, <4>3 DEF IsConcat
          <5>2. CASE i <= room
            BY <1>3, <3>2, <5>1, <5>2
          <5>3. CASE i > room
            <6>1. i - room \in 1..(Len(s) - room) /\ room + (i - room) = i /\ ~(i <= room)
              BY <1>3, <5>3
            <6> QED
              BY <3>3, <5>1, <6>1
          <5>4. i <= room \/ i > room
            BY <1>3
          <5> QED
            BY <5>2, <5>3, <5>4
        <4>5. t = s
          BY <4>3, <4>4, SeqEqual
        <4> QED
          BY <4>1, <4>5
      <3>7. (q \o s1) \o s2 = q \o s
        <4>1. (q \o s1) \o s2 = q \o (s1 \o s2)
          <5>1. q \in Seq(Cell) /\ s1 \in Seq(Cell) /\ s2 \in Seq(Cell)
            BY <1>2, <3>2, <3>3
          <5> QED
            BY <5>1, ConcatAssociative
        <4> QED
          BY <3>6, <4>1, Zenon
      <3>8. ReadFd(b, s) = Appended(Put(b, s1), s2)
        <4>1. ~(Len(s) <= room)
          BY <1>3, <2>2
        <4> QED
          BY <1>1, <3>1, <4>1 DEF ReadFd
      <3> QED
        BY <3>5, <3>7, <3>8
    <2> QED
      BY <1>3, <2>1, <2>2
  <1> QED
    BY <1>1, <1>4, HoldsOnly DEF Holds

\* Retrieve takes bytes from the front and leaves the others.
THEOREM RetrieveIsTake ==
    ASSUME NEW Cell, NEW b, IsBuffer(b, Cell), NEW len \in Nat, len <= ReadableBytes(b)
    PROVE  /\ IsBuffer(Retrieve(b, len), Cell)
           /\ Len(Readable(Retrieve(b, len))) = Len(Readable(b)) - len
           /\ \A i \in 1..(Len(Readable(b)) - len) :
                Readable(Retrieve(b, len))[i] = Readable(b)[len + i]
  <1>1. PICK c, r, w : c = b.cells /\ r = b.readPos /\ w = b.writePos
    OBVIOUS
  <1>2. /\ c \in Seq(Cell) /\ Len(c) \in Nat /\ r \in Nat /\ w \in Nat
        /\ r + len <= w /\ w <= Len(c) /\ b = [cells |-> c, readPos |-> r, writePos |-> w]
    BY <1>1, BufferFields DEF ReadableBytes
  <1>3. Retrieve(b, len) = [cells |-> c, readPos |-> r + len, writePos |-> w]
    BY <1>2 DEF Retrieve
  <1>4. IsBuffer(Retrieve(b, len), Cell)
    BY <1>2, <1>3 DEF IsBuffer
  <1>5. PICK p, q : p = Readable(b) /\ q = Readable(Retrieve(b, len))
    OBVIOUS
  <1>6. Holds(b, Cell, p) /\ Holds(Retrieve(b, len), Cell, q)
    BY <1>4, <1>5, HoldsReadable
  <1>7. /\ Len(p) = w - r /\ \A i \in 1..Len(p) : p[i] = c[r + i]
        /\ Len(q) = w - (r + len) /\ \A i \in 1..Len(q) : q[i] = c[(r + len) + i]
    BY <1>1, <1>3, <1>6 DEF Holds
  <1>8. Len(q) = Len(p) - len
    BY <1>2, <1>7
  <1>9. ASSUME NEW i \in 1..(Len(p) - len) PROVE q[i] = p[len + i]
    <2>1. i \in 1..Len(q) /\ len + i \in 1..Len(p) /\ (r + len) + i = r + (len + i)
      BY <1>2, <1>7, <1>8
    <2> QED
      BY <1>7, <2>1
  <1> QED
    BY <1>4, <1>5, <1>8, <1>9

-------------------------------------------------------------------------------
(* The buffer of a connection *)

\* A cell of a new vector holds a symbol.
LEMMA NulIsSymbol == Nul \in Symbols
  BY RequestAssumption DEF Nul, Mark, Sym, Symbols, Kinds

-------------------------------------------------------------------------------
(* The stream of a client *)

\* f lists the concatenations of the first sequences of s, up to the first m.
Joins(f, s, m) == f = [i \in 1..m |-> IF i = 1 THEN s[i] ELSE f[i - 1] \o s[i]]

\* There is such a list for every number of sequences.
LEMMA JoinsExist ==
    ASSUME NEW s, NEW n \in Nat
    PROVE  \E f : Joins(f, s, n)
  <1> DEFINE Bad == {m \in Nat : ~\E f : Joins(f, s, m)}
  <1>1. SUFFICES Bad = {}
    OBVIOUS
  <1>2. SUFFICES ASSUME Bad # {} PROVE FALSE
    OBVIOUS
  <1>3. PICK m : m \in Bad /\ \A k \in Bad : m <= k
    BY <1>2, LeastOf
  <1>4. m \in Nat /\ ~\E f : Joins(f, s, m)
    BY <1>3
  <1>5. m # 0
    <2>1. SUFFICES ASSUME m = 0 PROVE Joins([i \in 1..0 |-> 0], s, m)
      BY <1>4
    <2>2. 1..0 = {}
      OBVIOUS
    <2> QED
      BY <2>1, <2>2 DEF Joins
  <1>6. m - 1 \in Nat
    BY <1>4, <1>5
  <1>7. PICK g : Joins(g, s, m - 1)
    BY <1>3, <1>4, <1>6
  <1> DEFINE h == [i \in 1..m |-> IF i < m THEN g[i] ELSE IF m = 1 THEN s[m] ELSE g[m - 1] \o s[m]]
             e == [i \in 1..m |-> IF i = 1 THEN s[i] ELSE h[i - 1] \o s[i]]
  <1>8. ASSUME NEW i \in 1..m PROVE h[i] = e[i]
    <2>0. i \in Nat /\ i >= 1 /\ i <= m
      BY <1>4
    <2>1. CASE i < m
      <3>1. i \in 1..(m - 1)
        BY <1>4, <2>0, <2>1
      <3>2. g[i] = IF i = 1 THEN s[i] ELSE g[i - 1] \o s[i]
        BY <1>7, <3>1 DEF Joins
      <3>3. h[i] = g[i]
        BY <2>1
      <3>4. i # 1 => h[i - 1] = g[i - 1]
        <4>1. i # 1 => i - 1 \in 1..m /\ i - 1 < m
          BY <1>4, <2>0, <2>1
        <4> QED
          BY <4>1
      <3> QED
        BY <3>2, <3>3, <3>4
    <2>2. CASE i = m
      <3>1. h[i] = IF m = 1 THEN s[m] ELSE g[m - 1] \o s[m]
        BY <1>4, <2>2
      <3>2. m # 1 => h[m - 1] = g[m - 1]
        <4>1. m # 1 => m - 1 \in 1..m /\ m - 1 < m
          BY <1>4, <1>5
        <4> QED
          BY <4>1
      <3> QED
        BY <2>2, <3>1, <3>2
    <2> QED
      BY <2>0, <1>4, <2>1, <2>2
  <1>9. h = e
    <2>1. DOMAIN h = 1..m /\ DOMAIN e = 1..m
      OBVIOUS
    <2> QED
      BY <1>8, <2>1
  <1>10. Joins(h, s, m)
    BY <1>9 DEF Joins
  <1> QED
    BY <1>4, <1>10

\* What FlattenSeq of a sequence of sequences is.
LEMMA FlattenIs ==
    ASSUME NEW s, Len(s) \in Nat, Len(s) # 0
    PROVE  \E f : Joins(f, s, Len(s)) /\ FlattenSeq(s) = f[Len(s)]
  <1> DEFINE g == CHOOSE f : Joins(f, s, Len(s))
  <1>1. Joins(g, s, Len(s))
    BY JoinsExist
  <1>2. FlattenSeq(s) = g[Len(s)]
    BY Zenon DEF FlattenSeq, Joins
  <1> QED
    BY <1>1, <1>2

\* How long the first k sequences are together.
Upto(f, k) == IF k = 0 THEN 0 ELSE Len(f[k])

\* The first m sequences of s lie one behind the other in f[m].
LaidOut(f, s, m) ==
    \A k \in 1..m :
        /\ Upto(f, k) = Upto(f, k - 1) + Len(s[k])
        /\ Upto(f, k) <= Len(f[m])
        /\ \A i \in 1..Len(s[k]) : f[m][Upto(f, k - 1) + i] = s[k][i]

\* In a join of sequences each of them lies where the one before ends.
LEMMA JoinsLayOut ==
    ASSUME NEW S, NEW s, s \in Seq(Seq(S)), NEW f, Joins(f, s, Len(s))
    PROVE  \A m \in 1..Len(s) : f[m] \in Seq(S) /\ LaidOut(f, s, m)
  <1> DEFINE n == Len(s)
             Bad == {m \in 1..n : ~(f[m] \in Seq(S) /\ LaidOut(f, s, m))}
  <1>0. n \in Nat /\ \A i \in 1..n : s[i] \in Seq(S) /\ Len(s[i]) \in Nat
    BY LenProperties, ElementOfSeq
  <1> HIDE DEF n
  <1>1. SUFFICES ASSUME Bad # {} PROVE FALSE
    BY DEF n
  <1>2. Bad \subseteq Nat
    BY <1>0
  <1>3. PICK m : m \in Bad /\ \A k \in Bad : m <= k
    BY <1>1, <1>2, LeastOf
  <1>4. m \in 1..n /\ m \in Nat /\ m >= 1 /\ m <= n
    BY <1>0, <1>3
  <1>5. ASSUME NEW k \in 1..n PROVE f[k] = IF k = 1 THEN s[k] ELSE f[k - 1] \o s[k]
    BY <1>5 DEF Joins, n
  <1>6. CASE m = 1
    <2>1. f[1] = s[1] /\ s[1] \in Seq(S) /\ Len(s[1]) \in Nat
      BY <1>0, <1>4, <1>5, <1>6
    <2>2. LaidOut(f, s, 1)
      <3>1. Upto(f, 1) = Len(s[1]) /\ Upto(f, 0) = 0
        BY <2>1 DEF Upto
      <3>2. \A k \in 1..1 : k = 1 /\ k - 1 = 0
        OBVIOUS
      <3>3. \A i \in 1..Len(s[1]) : 0 + i = i
        BY <2>1
      <3> QED
        BY <2>1, <3>1, <3>2, <3>3 DEF LaidOut
    <2> QED
      BY <1>3, <1>6, <2>1, <2>2
  <1>7. CASE m # 1
    <2>1. m - 1 \in 1..n /\ ~(m <= m - 1)
      BY <1>4, <1>7, <1>0
    <2>2. f[m - 1] \in Seq(S) /\ LaidOut(f, s, m - 1)
      BY <1>3, <2>1
    <2>3. PICK a, b : a = f[m - 1] /\ b = s[m]
      OBVIOUS
    <2>4. a \in Seq(S) /\ b \in Seq(S) /\ Len(a) \in Nat /\ Len(b) \in Nat
      BY <1>0, <1>4, <2>2, <2>3, LenProperties
    <2>5. f[m] = a \o b
      BY <1>4, <1>5, <1>7, <2>3
    <2>6. /\ f[m] \in Seq(S) /\ Len(f[m]) = Len(a) + Len(b)
          /\ \A i \in 1..(Len(a) + Len(b)) : f[m][i] = IF i <= Len(a) THEN a[i] ELSE b[i - Len(a)]
      BY <2>4, <2>5, ConcatProperties
    <2>7. ASSUME NEW k \in 1..m
          PROVE  /\ Upto(f, k) = Upto(f, k - 1) + Len(s[k])
                 /\ Upto(f, k) <= Len(f[m])
                 /\ \A i \in 1..Len(s[k]) : f[m][Upto(f, k - 1) + i] = s[k][i]
      <3>0. k \in Nat /\ k >= 1 /\ k <= m /\ k \in 1..n /\ Len(s[k]) \in Nat
        BY <1>0, <1>4
      <3>1. CASE k = m
        <4>1. Upto(f, k) = Len(f[m]) /\ Upto(f, k - 1) = Len(a) /\ s[k] = b
          BY <1>4, <1>7, <2>3, <3>1, <3>0 DEF Upto
        <4>2. ASSUME NEW i \in 1..Len(b) PROVE f[m][Len(a) + i] = b[i]
          <5>1. Len(a) + i \in 1..(Len(a) + Len(b)) /\ ~(Len(a) + i <= Len(a)) /\ (Len(a) + i) - Len(a) = i
            BY <2>4
          <5> QED
            BY <2>6, <5>1
        <4>3. Len(f[m]) = Len(a) + Len(b) /\ Len(f[m]) \in Nat
          BY <2>4, <2>6
        <4>4. /\ Upto(f, k) = Upto(f, k - 1) + Len(s[k])
              /\ Upto(f, k) <= Len(f[m])
          BY <4>1, <4>3
        <4>5. \A i \in 1..Len(s[k]) : f[m][Upto(f, k - 1) + i] = s[k][i]
          BY <4>1, <4>2
        <4> QED
          BY <4>4, <4>5
      <3>2. CASE k # m
        <4>1. k \in 1..(m - 1)
          BY <1>4, <3>0, <3>2
        <4>2. /\ Upto(f, k) = Upto(f, k - 1) + Len(s[k])
              /\ Upto(f, k) <= Len(a)
              /\ \A i \in 1..Len(s[k]) : a[Upto(f, k - 1) + i] = s[k][i]
          BY <2>2, <2>3, <4>1 DEF LaidOut
        <4>3. Upto(f, k - 1) \in Nat
          <5>1. CASE k = 1
            BY <5>1 DEF Upto
          <5>2. CASE k # 1
            <6>1. k - 1 \in 1..n /\ ~(m <= k - 1) /\ k - 1 # 0
              BY <1>0, <3>0, <4>1, <5>2, <1>4
            <6>2. f[k - 1] \in Seq(S)
              BY <1>3, <6>1
            <6> QED
              BY <6>1, <6>2, LenProperties DEF Upto
          <5> QED
            BY <5>1, <5>2
        <4>4. PICK u, l : u = Upto(f, k - 1) /\ l = Len(s[k])
          OBVIOUS
        <4>5. u \in Nat /\ l \in Nat /\ u + l <= Len(a) /\ Upto(f, k) = u + l
          BY <3>0, <4>2, <4>3, <4>4
        <4>6. ASSUME NEW i \in 1..l PROVE f[m][u + i] = s[k][i]
          <5>1. u + i \in 1..(Len(a) + Len(b)) /\ u + i <= Len(a)
            BY <2>4, <4>5
          <5>2. f[m][u + i] = a[u + i]
            BY <2>6, <5>1
          <5> QED
            BY <4>2, <4>4, <5>2
        <4>7. u + l <= Len(f[m])
          BY <2>4, <2>6, <4>5
        <4> QED
          BY <4>2, <4>4, <4>5, <4>6, <4>7
      <3> QED
        BY <3>1, <3>2
    <2>8. LaidOut(f, s, m)
      BY <2>7 DEF LaidOut
    <2> QED
      BY <1>3, <2>6, <2>8
  <1> QED
    BY <1>6, <1>7

\* x lies in s behind position o.
Part(s, o, x) ==
    /\ o \in Nat /\ Len(x) \in Nat /\ o + Len(x) <= Len(s)
    /\ \A i \in 1..Len(x) : s[o + i] = x[i]

\* Where the two halves of a concatenation lie, and what lay in the first of them.
LEMMA PartsOfTwo ==
    ASSUME NEW S, NEW s \in Seq(S), NEW t \in Seq(S)
    PROVE  /\ s \o t \in Seq(S) /\ Len(s \o t) = Len(s) + Len(t)
           /\ Len(s) \in Nat /\ Len(t) \in Nat
           /\ Part(s \o t, 0, s) /\ Part(s \o t, Len(s), t)
           /\ \A o, x : Part(s, o, x) => Part(s \o t, o, x)
  <1>1. PICK u : u = s \o t
    OBVIOUS
  <1>2. /\ u \in Seq(S) /\ Len(u) = Len(s) + Len(t)
        /\ \A i \in 1..(Len(s) + Len(t)) : u[i] = IF i <= Len(s) THEN s[i] ELSE t[i - Len(s)]
    BY <1>1, ConcatProperties
  <1>3. PICK m, n : m = Len(s) /\ n = Len(t)
    OBVIOUS
  <1>4. m \in Nat /\ n \in Nat
    BY <1>3, LenProperties
  <1>5. \A i \in 1..m : u[i] = s[i]
    BY <1>2, <1>3, <1>4
  <1>6. ASSUME NEW i \in 1..n PROVE u[m + i] = t[i]
    <2>1. m + i \in 1..(m + n) /\ ~(m + i <= m) /\ (m + i) - m = i
      BY <1>4
    <2> QED
      BY <1>2, <1>3, <2>1
  <1>7. Part(u, 0, s)
    <2>1. 0 + m <= m + n /\ \A i \in 1..m : 0 + i = i
      BY <1>4
    <2> QED
      BY <1>2, <1>3, <1>4, <1>5, <2>1 DEF Part
  <1>8. Part(u, m, t)
    <2>1. m + n <= m + n
      BY <1>4
    <2> QED
      BY <1>2, <1>3, <1>4, <1>6, <2>1 DEF Part
  <1>9. ASSUME NEW o, NEW x, Part(s, o, x) PROVE Part(u, o, x)
    <2>1. PICK l : l = Len(x)
      OBVIOUS
    <2>2. o \in Nat /\ l \in Nat /\ o + l <= m /\ \A i \in 1..l : s[o + i] = x[i]
      BY <1>3, <1>9, <2>1 DEF Part
    <2>3. o + l <= m + n /\ \A i \in 1..l : o + i \in 1..m
      BY <1>4, <2>2
    <2> QED
      BY <1>2, <1>3, <1>5, <2>1, <2>2, <2>3 DEF Part
  <1> QED
    BY <1>1, <1>2, <1>3, <1>4, <1>7, <1>8, <1>9

-------------------------------------------------------------------------------
(* A request on the wire *)

\* How many header lines it has, and what they say.
Lines(r) == 1 + (IF r.keep THEN 1 ELSE 0) + (IF r.form # <<>> THEN 1 ELSE 0)
Name(r, j) == IF j = 1 THEN "Host" ELSE IF j = 2 /\ r.keep THEN "Connection" ELSE "Content-Type"
Value(r, j) == IF j = 1 THEN Sym("value", "server") ELSE IF j = 2 /\ r.keep THEN KeepAlive ELSE UrlEncoded

Body(r) == <<Mark("username=")>> \o r.form[1] \o <<Mark("&password=")>> \o r.form[2]

\* The request line, the header lines, an empty line, and the form.
Shape(w, r) ==
    /\ w \in Seq(Symbols)
    /\ w[1] = Mark(r.method) /\ w[2] = Sym("HTTP/", r.path) /\ w[3] = Sym("version", "1.1")
    /\ w[4] = CR /\ w[5] = LF
    /\ \A j \in 1..Lines(r) :
         /\ w[5 * j + 1] = Sym("name", Name(r, j))
         /\ w[5 * j + 2] = Mark(":")
         /\ w[5 * j + 3] = Value(r, j)
         /\ w[5 * j + 4] = CR /\ w[5 * j + 5] = LF
    /\ w[5 * Lines(r) + 6] = CR /\ w[5 * Lines(r) + 7] = LF
    /\ IF r.form = <<>> THEN Len(w) = 5 * Lines(r) + 7
       ELSE /\ Part(w, 5 * Lines(r) + 7, Body(r))
            /\ Len(w) = 5 * Lines(r) + 7 + Len(Body(r))

\* What a client sends is made of symbols.
LEMMA SymIsSymbol ==
    /\ Nul \in Symbols /\ CR \in Symbols /\ LF \in Symbols
    /\ KeepAlive \in Symbols /\ UrlEncoded \in Symbols
    /\ \A k \in Kinds, t \in Words : Sym(k, t) \in Symbols
    /\ \A k \in Kinds : Mark(k) \in Symbols
  <1>1. ASSUME NEW k \in Kinds, NEW t \in Words PROVE Sym(k, t) \in Symbols
    BY DEF Sym, Symbols
  <1>2. {"NUL", "CR", "LF", "value"} \subseteq Kinds
    BY DEF Kinds
  <1>3. {"-", "keep-alive", "application/x-www-form-urlencoded"} \subseteq Words
    BY RequestAssumption
  <1>4. Nul = Mark("NUL") /\ CR = Mark("CR") /\ LF = Mark("LF")
    BY DEF Nul, CR, LF
  <1>6. ASSUME NEW k \in Kinds PROVE Mark(k) \in Symbols
    BY <1>1, <1>3 DEF Mark
  <1>5. /\ KeepAlive = Sym("value", "keep-alive")
        /\ UrlEncoded = Sym("value", "application/x-www-form-urlencoded")
    BY DEF KeepAlive, UrlEncoded
  <1> QED
    BY <1>1, <1>2, <1>3, <1>4, <1>5, <1>6

\* l is a line of three symbols.
IsLine(l, a, b, c) ==
    /\ l \in Seq(Symbols) /\ Len(l) = 5
    /\ l[1] = a /\ l[2] = b /\ l[3] = c /\ l[4] = CR /\ l[5] = LF

\* A line of three symbols is one.
LEMMA LineOfThree ==
    ASSUME NEW a \in Symbols, NEW b \in Symbols, NEW c \in Symbols
    PROVE  IsLine(Line(<<a, b, c>>), a, b, c)
  <1> DEFINE l == Line(<<a, b, c>>)
  <1>1. PICK s, t : s = <<a, b, c>> /\ t = <<CR, LF>>
    OBVIOUS
  <1>2. /\ s \in Seq(Symbols) /\ Len(s) = 3 /\ s[1] = a /\ s[2] = b /\ s[3] = c
        /\ t \in Seq(Symbols) /\ Len(t) = 2 /\ t[1] = CR /\ t[2] = LF
    BY <1>1, SymIsSymbol
  <1>3. l = s \o t
    BY <1>1 DEF Line
  <1>4. /\ l \in Seq(Symbols) /\ Len(l) = Len(s) + Len(t)
        /\ Part(l, 0, s) /\ Part(l, Len(s), t)
    BY <1>2, <1>3, PartsOfTwo
  <1>5. /\ \A i \in 1..3 : l[0 + i] = s[i]
        /\ \A i \in 1..2 : l[3 + i] = t[i]
    BY <1>2, <1>4 DEF Part
  <1> HIDE DEF l
  <1>6. IsLine(l, a, b, c)
    BY <1>2, <1>4, <1>5 DEF IsLine
  <1> QED
    BY <1>6 DEF l

\* An empty line is its end.
LEMMA EmptyLine ==
    Line(<<>>) \in Seq(Symbols) /\ Len(Line(<<>>)) = 2 /\ Line(<<>>)[1] = CR /\ Line(<<>>)[2] = LF
  <1>1. PICK t : t = <<CR, LF>>
    OBVIOUS
  <1>2. t \in Seq(Symbols) /\ Len(t) = 2 /\ t[1] = CR /\ t[2] = LF
    BY <1>1, SymIsSymbol
  <1>3. <<>> \o t = t
    BY <1>2, ConcatEmptySeq
  <1> QED
    BY <1>1, <1>2, <1>3 DEF Line

\* A form is a name and a password, and is sent as symbols.
LEMMA BodyIsSymbols ==
    ASSUME NEW r \in Request, r.form # <<>>
    PROVE  /\ Body(r) \in Seq(Symbols)
           /\ r.form[1] \in Text /\ r.form[2] \in Text
           /\ r.form = <<r.form[1], r.form[2]>>
           /\ r.form[1] \in Seq(Symbols) /\ r.form[2] \in Seq(Symbols)
  <1>1. r.form \in Text \X Text
    BY DEF Request
  <1>2. PICK a, b : r.form = <<a, b>> /\ a \in Text /\ b \in Text
    BY <1>1
  <1>3. a = r.form[1] /\ b = r.form[2]
    BY <1>2
  <1>4. [kind : {"text"}, text : Words] \subseteq Symbols
    BY DEF Symbols, Kinds
  <1>5. a \in Seq(Symbols) /\ b \in Seq(Symbols)
    <2>1. ASSUME NEW s \in Text PROVE s \in Seq(Symbols)
      <3>1. s \in Seq([kind : {"text"}, text : Words])
        BY <2>1 DEF Text
      <3>2. Len(s) \in Nat /\ \A i \in 1..Len(s) : s[i] \in Symbols
        <4>1. Len(s) \in Nat /\ \A i \in 1..Len(s) : s[i] \in [kind : {"text"}, text : Words]
          BY <3>1, LenProperties, ElementOfSeq
        <4> QED
          BY <1>4, <4>1
      <3>3. SubSeq(s, 1, Len(s)) \in Seq(Symbols) /\ SubSeq(s, 1, Len(s)) = s
        <4>1. 1 \in Int /\ Len(s) \in Int
          BY <3>2
        <4> QED
          BY <3>1, <3>2, <4>1, SubSeqProperties, SubSeqFull
      <3> QED
        BY <3>3
    <2> QED
      BY <1>2, <2>1
  <1>6. <<Mark("username=")>> \in Seq(Symbols) /\ <<Mark("&password=")>> \in Seq(Symbols)
    <2>1. \A x \in Symbols : <<x>> \in Seq(Symbols)
      OBVIOUS
    <2>2. "username=" \in Kinds /\ "&password=" \in Kinds /\ "-" \in Words
      BY RequestAssumption DEF Kinds
    <2> QED
      BY <2>1, <2>2, SymIsSymbol
  <1>7. <<Mark("username=")>> \o a \in Seq(Symbols)
    BY <1>5, <1>6, ConcatProperties
  <1>8. <<Mark("username=")>> \o a \o <<Mark("&password=")>> \in Seq(Symbols)
    BY <1>6, <1>7, ConcatProperties
  <1>9. <<Mark("username=")>> \o a \o <<Mark("&password=")>> \o b \in Seq(Symbols)
    BY <1>5, <1>8, ConcatProperties
  <1> QED
    BY <1>2, <1>3, <1>5, <1>9 DEF Body

\* w is a, b, c, d, e and f, one behind the other.
IsSix(w, a, b, c, d, e, f) ==
    /\ Part(w, 0, a) /\ Part(w, Len(a), b) /\ Part(w, Len(a) + Len(b), c)
    /\ Part(w, Len(a) + Len(b) + Len(c), d)
    /\ Part(w, Len(a) + Len(b) + Len(c) + Len(d), e)
    /\ Part(w, Len(a) + Len(b) + Len(c) + Len(d) + Len(e), f)
    /\ Len(w) = Len(a) + Len(b) + Len(c) + Len(d) + Len(e) + Len(f)

\* Where six sequences lie in their concatenation.
LEMMA PartsOfSix ==
    ASSUME NEW S, NEW a \in Seq(S), NEW b \in Seq(S), NEW c \in Seq(S), NEW d \in Seq(S),
           NEW e \in Seq(S), NEW f \in Seq(S)
    PROVE  /\ a \o b \o c \o d \o e \o f \in Seq(S)
           /\ IsSix(a \o b \o c \o d \o e \o f, a, b, c, d, e, f)
  <1>0. PICK w : w = a \o b \o c \o d \o e \o f
    OBVIOUS
  <1>1. PICK w2, w3, w4, w5 : w2 = a \o b /\ w3 = w2 \o c /\ w4 = w3 \o d /\ w5 = w4 \o e
    OBVIOUS
  <1>2. w = w5 \o f
    BY <1>0, <1>1
  <1>3. /\ w2 \in Seq(S) /\ Len(w2) = Len(a) + Len(b)
        /\ Part(w2, 0, a) /\ Part(w2, Len(a), b)
    BY <1>1, PartsOfTwo
  <1>4. /\ w3 \in Seq(S) /\ Len(w3) = Len(w2) + Len(c)
        /\ Part(w3, 0, a) /\ Part(w3, Len(a), b) /\ Part(w3, Len(w2), c)
    BY <1>1, <1>3, PartsOfTwo
  <1>5. /\ w4 \in Seq(S) /\ Len(w4) = Len(w3) + Len(d)
        /\ Part(w4, 0, a) /\ Part(w4, Len(a), b) /\ Part(w4, Len(w2), c) /\ Part(w4, Len(w3), d)
    BY <1>1, <1>4, PartsOfTwo
  <1>6. /\ w5 \in Seq(S) /\ Len(w5) = Len(w4) + Len(e)
        /\ Part(w5, 0, a) /\ Part(w5, Len(a), b) /\ Part(w5, Len(w2), c) /\ Part(w5, Len(w3), d)
        /\ Part(w5, Len(w4), e)
    BY <1>1, <1>5, PartsOfTwo
  <1>7. /\ w \in Seq(S) /\ Len(w) = Len(w5) + Len(f)
        /\ Part(w, 0, a) /\ Part(w, Len(a), b) /\ Part(w, Len(w2), c) /\ Part(w, Len(w3), d)
        /\ Part(w, Len(w4), e) /\ Part(w, Len(w5), f)
    <2>1. /\ w \in Seq(S) /\ Len(w) = Len(w5) + Len(f) /\ Part(w, Len(w5), f)
          /\ \A o, x : Part(w5, o, x) => Part(w, o, x)
      BY <1>2, <1>6, PartsOfTwo
    <2> QED
      BY <1>6, <2>1, Zenon
  <1>8. /\ Len(w2) = Len(a) + Len(b) /\ Len(w3) = Len(a) + Len(b) + Len(c)
        /\ Len(w4) = Len(a) + Len(b) + Len(c) + Len(d)
        /\ Len(w5) = Len(a) + Len(b) + Len(c) + Len(d) + Len(e)
        /\ Len(w) = Len(a) + Len(b) + Len(c) + Len(d) + Len(e) + Len(f)
    BY <1>3, <1>4, <1>5, <1>6, <1>7
  <1>9. /\ Part(w, Len(a) + Len(b), c) /\ Part(w, Len(a) + Len(b) + Len(c), d)
        /\ Part(w, Len(a) + Len(b) + Len(c) + Len(d), e)
        /\ Part(w, Len(a) + Len(b) + Len(c) + Len(d) + Len(e), f)
    BY <1>7, <1>8, Zenon
  <1>10. IsSix(w, a, b, c, d, e, f)
    BY <1>7, <1>8, <1>9, Zenon DEF IsSix
  <1> QED
    BY <1>0, <1>7, <1>10

\* A header line has three symbols and its end.
LEMMA HeaderLineIs ==
    ASSUME NEW n \in Words, NEW v \in Words
    PROVE  IsLine(HeaderLine(n, v), Sym("name", n), Mark(":"), Sym("value", v))
  <1>1. "name" \in Kinds /\ ":" \in Kinds /\ "value" \in Kinds /\ "-" \in Words
    BY RequestAssumption DEF Kinds
  <1>2. Sym("name", n) \in Symbols /\ Mark(":") \in Symbols /\ Sym("value", v) \in Symbols
    BY <1>1, SymIsSymbol
  <1> QED
    BY <1>2, LineOfThree DEF HeaderLine

\* What a client sends for a request has the shape of one.
LEMMA WireShape ==
    ASSUME NEW r \in Request
    PROVE  Shape(Wire(r), r)
  <1>1. r.method \in {"GET", "POST"} /\ r.path \in Words /\ r.keep \in BOOLEAN
    BY DEF Request
  <1>2. /\ {"GET", "POST", "HTTP/", "version"} \subseteq Kinds
        /\ {"-", "1.1", "Host", "server", "Connection", "keep-alive", "Content-Type",
            "application/x-www-form-urlencoded"} \subseteq Words
    BY RequestAssumption DEF Kinds
  <1>3. /\ Mark(r.method) \in Symbols /\ Sym("HTTP/", r.path) \in Symbols
        /\ Sym("version", "1.1") \in Symbols
    BY <1>1, <1>2, SymIsSymbol
  <1>4. PICK a : a = Line(<<Mark(r.method), Sym("HTTP/", r.path), Sym("version", "1.1")>>)
    OBVIOUS
  <1>5. IsLine(a, Mark(r.method), Sym("HTTP/", r.path), Sym("version", "1.1"))
    BY <1>3, <1>4, LineOfThree
  <1>6. PICK h1, h2, h3 :
          /\ h1 = HeaderLine("Host", "server")
          /\ h2 = IF r.keep THEN HeaderLine("Connection", KeepAlive.text) ELSE <<>>
          /\ h3 = IF r.form # <<>> THEN HeaderLine("Content-Type", UrlEncoded.text) ELSE <<>>
    OBVIOUS
  <1>7. PICK e, b :
          /\ e = Line(<<>>)
          /\ b = IF r.form # <<>> THEN Body(r) ELSE <<>>
    OBVIOUS
  <1>8. Wire(r) = a \o h1 \o h2 \o h3 \o e \o b
    BY <1>4, <1>6, <1>7 DEF Wire, Body
  <1>9. /\ KeepAlive = Sym("value", "keep-alive") /\ KeepAlive.text = "keep-alive"
        /\ UrlEncoded = Sym("value", "application/x-www-form-urlencoded")
        /\ UrlEncoded.text = "application/x-www-form-urlencoded"
    BY DEF KeepAlive, UrlEncoded, Sym
  <1>10. IsLine(h1, Sym("name", "Host"), Mark(":"), Sym("value", "server"))
    BY <1>2, <1>6, HeaderLineIs
  <1>11. r.keep => IsLine(h2, Sym("name", "Connection"), Mark(":"), KeepAlive)
    <2>1. r.keep => h2 = HeaderLine("Connection", "keep-alive")
      BY <1>6, <1>9
    <2> QED
      BY <1>2, <1>9, <2>1, HeaderLineIs
  <1>12. r.form # <<>> => IsLine(h3, Sym("name", "Content-Type"), Mark(":"), UrlEncoded)
    <2>1. r.form # <<>> => h3 = HeaderLine("Content-Type", "application/x-www-form-urlencoded")
      BY <1>6, <1>9
    <2> QED
      BY <1>2, <1>9, <2>1, HeaderLineIs
  <1>13. e \in Seq(Symbols) /\ Len(e) = 2 /\ e[1] = CR /\ e[2] = LF
    BY <1>7, EmptyLine
  <1>14. /\ ~r.keep => h2 = <<>> /\ h2 \in Seq(Symbols) /\ Len(h2) = 0
         /\ r.form = <<>> => h3 = <<>> /\ h3 \in Seq(Symbols) /\ Len(h3) = 0
         /\ r.form = <<>> => b \in Seq(Symbols) /\ Len(b) = 0
         /\ r.form # <<>> => b \in Seq(Symbols) /\ b = Body(r)
    BY <1>6, <1>7, BodyIsSymbols, EmptySeq
  <1>15. /\ h2 \in Seq(Symbols) /\ h3 \in Seq(Symbols) /\ b \in Seq(Symbols)
         /\ Len(h2) = IF r.keep THEN 5 ELSE 0
         /\ Len(h3) = IF r.form # <<>> THEN 5 ELSE 0
         /\ Len(b) \in Nat
    <2>1. /\ r.keep => h2 \in Seq(Symbols) /\ Len(h2) = 5
          /\ r.form # <<>> => h3 \in Seq(Symbols) /\ Len(h3) = 5
      BY <1>11, <1>12 DEF IsLine
    <2> QED
      BY <1>14, <2>1, LenProperties
  <1>16. PICK w : w = Wire(r)
    OBVIOUS
  <1>17. /\ w \in Seq(Symbols)
         /\ Part(w, 0, a) /\ Part(w, Len(a), h1) /\ Part(w, Len(a) + Len(h1), h2)
         /\ Part(w, Len(a) + Len(h1) + Len(h2), h3)
         /\ Part(w, Len(a) + Len(h1) + Len(h2) + Len(h3), e)
         /\ Part(w, Len(a) + Len(h1) + Len(h2) + Len(h3) + Len(e), b)
         /\ Len(w) = Len(a) + Len(h1) + Len(h2) + Len(h3) + Len(e) + Len(b)
    <2>1. a \in Seq(Symbols) /\ h1 \in Seq(Symbols)
      BY <1>5, <1>10 DEF IsLine
    <2>2. w = a \o h1 \o h2 \o h3 \o e \o b
      BY <1>8, <1>16
    <2>3. w \in Seq(Symbols) /\ IsSix(w, a, h1, h2, h3, e, b)
      BY <1>13, <1>15, <2>1, <2>2, PartsOfSix, Zenon
    <2> QED
      BY <2>3 DEF IsSix
  <1>18. PICK k, f : k = Len(h2) /\ f = Len(h3)
    OBVIOUS
  <1>19. /\ k = IF r.keep THEN 5 ELSE 0
         /\ f = IF r.form # <<>> THEN 5 ELSE 0
         /\ Part(w, 0, a) /\ Part(w, 5, h1) /\ Part(w, 10, h2)
         /\ Part(w, 10 + k, h3) /\ Part(w, 10 + k + f, e)
         /\ Part(w, 12 + k + f, b)
         /\ Len(w) = 12 + k + f + Len(b)
    <2>1. k \in Nat /\ f \in Nat /\ Len(a) = 5 /\ Len(h1) = 5 /\ Len(e) = 2
      <3>1. Len(a) = 5 /\ Len(h1) = 5
        BY <1>5, <1>10 DEF IsLine
      <3> QED
        BY <1>13, <1>15, <1>18, <3>1
    <2>2. /\ Len(a) + Len(h1) = 10 /\ Len(a) + Len(h1) + Len(h2) = 10 + k
          /\ Len(a) + Len(h1) + Len(h2) + Len(h3) = 10 + k + f
          /\ Len(a) + Len(h1) + Len(h2) + Len(h3) + Len(e) = 12 + k + f
          /\ Len(a) + Len(h1) + Len(h2) + Len(h3) + Len(e) + Len(b) = 12 + k + f + Len(b)
      BY <1>15, <1>18, <2>1
    <2>3. Part(w, Len(a), h1) /\ Len(a) = 5
      BY <1>17, <2>1
    <2>4. /\ Part(w, 0, a) /\ Part(w, 5, h1) /\ Part(w, 10, h2)
          /\ Part(w, 10 + k, h3) /\ Part(w, 10 + k + f, e)
          /\ Part(w, 12 + k + f, b)
          /\ Len(w) = 12 + k + f + Len(b)
      BY <1>17, <2>2, <2>3, Zenon
    <2> QED
      BY <1>15, <1>18, <2>4
  <1>20. 10 + k + f = 5 * Lines(r) + 5 /\ 12 + k + f = 5 * Lines(r) + 7 /\ Lines(r) \in Nat
    BY <1>19, <1>1 DEF Lines
  <1>21. /\ w[1] = Mark(r.method) /\ w[2] = Sym("HTTP/", r.path) /\ w[3] = Sym("version", "1.1")
         /\ w[4] = CR /\ w[5] = LF
    <2>1. \A i \in 1..5 : w[0 + i] = a[i]
      BY <1>5, <1>19 DEF Part, IsLine
    <2>2. /\ w[0 + 1] = a[1] /\ w[0 + 2] = a[2] /\ w[0 + 3] = a[3] /\ w[0 + 4] = a[4]
          /\ w[0 + 5] = a[5]
      BY <2>1
    <2>3. 0 + 1 = 1 /\ 0 + 2 = 2 /\ 0 + 3 = 3 /\ 0 + 4 = 4 /\ 0 + 5 = 5
      OBVIOUS
    <2> QED
      BY <1>5, <2>2, <2>3 DEF IsLine
  <1>22. w[5 * Lines(r) + 6] = CR /\ w[5 * Lines(r) + 7] = LF
    <2>1. PICK o : o = 5 * Lines(r) + 5
      OBVIOUS
    <2>2. \A i \in 1..2 : w[o + i] = e[i]
      BY <1>13, <1>19, <1>20, <2>1 DEF Part
    <2>3. o + 1 = 5 * Lines(r) + 6 /\ o + 2 = 5 * Lines(r) + 7
      BY <1>20, <2>1
    <2> QED
      BY <1>13, <2>2, <2>3
  <1>23. IF r.form = <<>> THEN Len(w) = 5 * Lines(r) + 7
         ELSE /\ Part(w, 5 * Lines(r) + 7, Body(r))
              /\ Len(w) = 5 * Lines(r) + 7 + Len(Body(r))
    <2>1. CASE r.form = <<>>
      <3>1. Len(w) = 12 + k + f
        BY <1>14, <1>19, <1>20, <2>1
      <3> QED
        BY <1>20, <2>1, <3>1
    <2>2. CASE r.form # <<>>
      BY <1>14, <1>19, <1>20, <2>2
    <2> QED
      BY <2>1, <2>2
  <1>24. ASSUME NEW j \in 1..Lines(r)
         PROVE  /\ w[5 * j + 1] = Sym("name", Name(r, j))
                /\ w[5 * j + 2] = Mark(":")
                /\ w[5 * j + 3] = Value(r, j)
                /\ w[5 * j + 4] = CR /\ w[5 * j + 5] = LF
    <2>1. ASSUME NEW h, Part(w, 5 * j, h),
                 IsLine(h, Sym("name", Name(r, j)), Mark(":"), Value(r, j))
          PROVE  /\ w[5 * j + 1] = Sym("name", Name(r, j))
                 /\ w[5 * j + 2] = Mark(":")
                 /\ w[5 * j + 3] = Value(r, j)
                 /\ w[5 * j + 4] = CR /\ w[5 * j + 5] = LF
      <3>1. \A i \in 1..5 : w[5 * j + i] = h[i]
        BY <2>1 DEF Part, IsLine
      <3>2. /\ w[5 * j + 1] = h[1] /\ w[5 * j + 2] = h[2] /\ w[5 * j + 3] = h[3]
            /\ w[5 * j + 4] = h[4] /\ w[5 * j + 5] = h[5]
        BY <3>1
      <3> QED
        BY <2>1, <3>2 DEF IsLine
    <2>2. CASE j = 1
      <3>1. 5 * j = 5 /\ Name(r, j) = "Host" /\ Value(r, j) = Sym("value", "server")
        BY <2>2 DEF Name, Value
      <3> QED
        BY <1>10, <1>19, <2>1, <3>1
    <2>3. CASE j = 2 /\ r.keep
      <3>1. 5 * j = 10 /\ Name(r, j) = "Connection" /\ Value(r, j) = KeepAlive
        BY <2>3 DEF Name, Value
      <3> QED
        BY <1>11, <1>15, <1>19, <2>1, <2>3, <3>1
    <2>4. CASE ~(j = 1) /\ ~(j = 2 /\ r.keep)
      <3>1. j = Lines(r) /\ r.form # <<>> /\ 5 * j = 10 + k
        BY <1>1, <1>19, <2>4 DEF Lines
      <3>2. Name(r, j) = "Content-Type" /\ Value(r, j) = UrlEncoded
        BY <2>4 DEF Name, Value
      <3> QED
        BY <1>12, <1>19, <2>1, <3>1, <3>2
    <2> QED
      BY <2>2, <2>3, <2>4
  <1>25. Shape(w, r)
    BY <1>17, <1>21, <1>22, <1>23, <1>24, Zenon DEF Shape
  <1> QED
    BY <1>16, <1>25

\* p tells where each request of c ends in the stream.
IsCut(c, p) ==
    /\ p \in [0..Len(c) -> Nat]
    /\ p[0] = 0 /\ p[Len(c)] = Len(StreamOf(c))
    /\ \A k \in 1..Len(c) :
         /\ p[k] = p[k - 1] + Len(Wire(c[k]))
         /\ Part(StreamOf(c), p[k - 1], Wire(c[k]))

\* A stream is the requests, one behind the other.
LEMMA StreamIsCut ==
    ASSUME NEW c \in Conversations
    PROVE  StreamOf(c) \in Seq(Symbols) /\ \E p : IsCut(c, p)
  <1>1. c \in Seq(Request) /\ Len(c) \in Nat /\ DOMAIN c = 1..Len(c)
    <2>1. c \in Seq(Request)
      BY RequestAssumption
    <2> QED
      BY <2>1, LenProperties
  <1>2. PICK n, s : n = Len(c) /\ s = [i \in DOMAIN c |-> Wire(c[i])]
    OBVIOUS
  <1>3. \A i \in 1..n : Wire(c[i]) \in Seq(Symbols)
    BY <1>1, <1>2, WireShape, ElementOfSeq DEF Shape
  <1>4. /\ s \in Seq(Seq(Symbols)) /\ Len(s) = n
        /\ \A i \in 1..n : s[i] = Wire(c[i])
    <2>1. s = [i \in 1..n |-> Wire(c[i])]
      BY <1>1, <1>2
    <2>2. n \in Nat
      BY <1>1, <1>2
    <2> QED
      BY <1>3, <2>1, <2>2
  <1>5. StreamOf(c) = FlattenSeq(s)
    BY <1>2 DEF StreamOf
  <1>6. n \in Nat
    BY <1>1, <1>2
  <1>7. CASE n = 0
    <2>1. FlattenSeq(s) = s /\ s = <<>>
      <3>1. FlattenSeq(s) = s
        BY <1>4, <1>7, Zenon DEF FlattenSeq
      <3> QED
        BY <1>4, <1>7, <3>1, EmptySeq
    <2>2. StreamOf(c) \in Seq(Symbols) /\ Len(StreamOf(c)) = 0
      BY <1>5, <2>1, EmptySeq
    <2> DEFINE p == [k \in 0..0 |-> 0]
    <2>3. p \in [0..0 -> Nat] /\ p[0] = 0
      OBVIOUS
    <2>4. IsCut(c, p)
      <3>1. 1..Len(c) = {}
        BY <1>2, <1>7
      <3> HIDE DEF p
      <3> QED
        BY <1>2, <1>7, <2>2, <2>3, <3>1 DEF IsCut
    <2> QED
      BY <2>2, <2>4
  <1>8. CASE n # 0
    <2>1. PICK f : Joins(f, s, n) /\ FlattenSeq(s) = f[n]
      BY <1>4, <1>6, <1>8, FlattenIs
    <2>2. \A m \in 1..n : f[m] \in Seq(Symbols) /\ LaidOut(f, s, m)
      BY <1>4, <2>1, JoinsLayOut
    <2>3. n \in 1..n
      BY <1>6, <1>8
    <2>4. /\ StreamOf(c) = f[n] /\ f[n] \in Seq(Symbols)
          /\ \A k \in 1..n :
               /\ Upto(f, k) = Upto(f, k - 1) + Len(s[k])
               /\ Upto(f, k) <= Len(f[n])
               /\ \A i \in 1..Len(s[k]) : f[n][Upto(f, k - 1) + i] = s[k][i]
      BY <1>5, <2>1, <2>2, <2>3 DEF LaidOut
    <2> DEFINE p == [k \in 0..n |-> Upto(f, k)]
    <2>5. ASSUME NEW k \in 0..n PROVE Upto(f, k) \in Nat
      <3>1. CASE k = 0
        BY <3>1 DEF Upto
      <3>2. CASE k # 0
        <4>1. k \in 1..n
          BY <1>6, <3>2
        <4>2. f[k] \in Seq(Symbols)
          BY <2>2, <4>1
        <4> QED
          BY <3>2, <4>2, LenProperties DEF Upto
      <3> QED
        BY <3>1, <3>2
    <2>6. /\ p \in [0..n -> Nat] /\ p[0] = 0 /\ p[n] = Len(f[n])
          /\ \A k \in 1..n : p[k] = Upto(f, k) /\ p[k - 1] = Upto(f, k - 1)
      <3>1. p \in [0..n -> Nat]
        BY <2>5
      <3>2. 0 \in 0..n /\ n \in 0..n /\ \A k \in 1..n : k \in 0..n /\ k - 1 \in 0..n
        BY <1>6
      <3>3. Upto(f, 0) = 0 /\ Upto(f, n) = Len(f[n])
        BY <1>8 DEF Upto
      <3> QED
        BY <3>1, <3>2, <3>3
    <2> HIDE DEF p
    <2>7. ASSUME NEW k \in 1..n
          PROVE  /\ p[k] = p[k - 1] + Len(Wire(c[k]))
                 /\ Part(StreamOf(c), p[k - 1], Wire(c[k]))
      <3>1. /\ p[k] = p[k - 1] + Len(s[k]) /\ p[k] <= Len(f[n])
            /\ \A i \in 1..Len(s[k]) : f[n][p[k - 1] + i] = s[k][i]
        BY <2>4, <2>6
      <3>2. s[k] = Wire(c[k]) /\ Len(s[k]) \in Nat
        BY <1>3, <1>4, LenProperties
      <3>3. p[k - 1] \in Nat
        <4>1. k - 1 \in 0..n
          BY <1>6
        <4> QED
          BY <2>6, <4>1
      <3>4. Part(f[n], p[k - 1], s[k])
        BY <3>1, <3>2, <3>3 DEF Part
      <3> QED
        BY <2>4, <3>1, <3>2, <3>4
    <2>8. IsCut(c, p)
      BY <1>2, <2>4, <2>6, <2>7 DEF IsCut
    <2> QED
      BY <2>4, <2>8
  <1> QED
    BY <1>7, <1>8

-------------------------------------------------------------------------------
(* The read buffer is a queue *)

\* What can be read is a sequence of ReadableBytes symbols.
LEMMA Contents ==
    ASSUME NEW b, IsBuffer(b, Symbols)
    PROVE  Readable(b) \in Seq(Symbols) /\ Len(Readable(b)) = ReadableBytes(b)
  BY HoldsReadable DEF Holds, ReadableBytes

\* A buffer of the constructor is empty.
LEMMA Fresh ==
    IsBuffer(NewBuffer(InitSize), Symbols) /\ Readable(NewBuffer(InitSize)) = <<>>
  BY RequestAssumption, NulIsSymbol, NewIsEmpty

-------------------------------------------------------------------------------
(* The steps *)

\* A line ends within the contents, and so does its CRLF if it has one.
LEMMA LineEnds ==
    ASSUME IsBuffer(h_readBuff, Symbols)
    PROVE  /\ LineEnd \in 0..ReadableBytes(h_readBuff)
           /\ LineEnd # ReadableBytes(h_readBuff) => LineEnd + 2 <= ReadableBytes(h_readBuff)
  <1> DEFINE s == Readable(h_readBuff)
             ends == {i \in 0..(Len(s) - 2) : s[i + 1] = CR /\ s[i + 2] = LF}
  <1>1. Len(s) = ReadableBytes(h_readBuff) /\ Len(s) \in Nat
    BY Contents, LenProperties
  <1>2. LineEnd = IF ends = {} THEN Len(s) ELSE Min(ends)
    BY DEF LineEnd
  <1>3. ends # {} => Min(ends) \in ends
    <2>1. ends \subseteq Nat
      OBVIOUS
    <2> HIDE DEF ends
    <2> QED
      BY <2>1, MinIsMember
  <1>4. \A i \in ends : i \in Nat /\ i + 2 <= Len(s)
    BY <1>1
  <1> HIDE DEF s, ends
  <1> QED
    BY <1>1, <1>2, <1>3, <1>4

\* What a connection begins with.
LEMMA InitHolds == Init => IInv
  <1> SUFFICES ASSUME Init PROVE IInv
    OBVIOUS
  <1>1. convo \in Conversations /\ socket = <<>> /\ taken = 0 /\ unsent = Stream
        /\ h_readBuff = NewBuffer(InitSize)
    BY DEF Init
  <1>2. Stream \in Seq(Symbols)
    BY <1>1, StreamIsCut DEF Stream
  <1>3. Len(Stream) \in Nat /\ SubSeq(Stream, 1, Len(Stream)) = Stream
    BY <1>2, LenProperties, SubSeqFull
  <1>4. <<>> \in Seq(Symbols) /\ <<>> \o <<>> = <<>> /\ <<>> \o Stream = Stream
    BY <1>2, EmptySeq, ConcatEmptySeq
  <1>5. (<<>> \o <<>>) \o Stream = SubSeq(Stream, 0 + 1, Len(Stream))
    <2>1. 0 + 1 = 1
      OBVIOUS
    <2> QED
      BY <1>3, <1>4, <2>1
  <1>6. BufferIsQueue
    BY <1>1, <1>5, Fresh DEF BufferIsQueue
  <1> QED
    BY <1>1, <1>2, <1>3, <1>4, <1>6 DEF IInv

\* Send and Read move symbols to the next place.
LEMMA MoveHolds ==
    ASSUME IInv, Send \/ Read
    PROVE  IInv'
  <1>1. PICK q : q = Readable(h_readBuff)
    OBVIOUS
  <1>2. /\ convo \in Conversations /\ socket \in Seq(Symbols) /\ unsent \in Seq(Symbols)
        /\ taken \in 0..Len(Stream) /\ IsBuffer(h_readBuff, Symbols)
        /\ (q \o socket) \o unsent = SubSeq(Stream, taken + 1, Len(Stream))
    BY <1>1 DEF IInv, BufferIsQueue
  <1>3. q \in Seq(Symbols)
    BY <1>1, <1>2, Contents
  <1>4. UNCHANGED <<convo, taken>>
    BY DEF Send, Read
  <1>5. Stream' = Stream /\ Symbols' = Symbols
    BY <1>4 DEF Stream
  <1>6. CASE Send
    <2>1. PICK n \in DOMAIN unsent :
            /\ socket' = socket \o SubSeq(unsent, 1, n)
            /\ unsent' = SubSeq(unsent, n + 1, Len(unsent))
      BY <1>6 DEF Send
    <2>2. n \in 0..Len(unsent)
      BY <1>2, LenProperties
    <2>3. PICK a, b : a = SubSeq(unsent, 1, n) /\ b = SubSeq(unsent, n + 1, Len(unsent))
      OBVIOUS
    <2>4. a \in Seq(Symbols) /\ b \in Seq(Symbols) /\ a \o b = unsent
      BY <1>2, <2>2, <2>3, Split
    <2>5. socket \o a \in Seq(Symbols)
      BY <1>2, <2>4, ConcatProperties
    <2>6. (q \o (socket \o a)) \o b = (q \o socket) \o unsent
      <3>1. q \o (socket \o a) = (q \o socket) \o a
        BY <1>3, <1>2, <2>4, Regroup, Zenon
      <3>2. q \o socket \in Seq(Symbols)
        BY <1>2, <1>3, ConcatProperties
      <3>3. ((q \o socket) \o a) \o b = (q \o socket) \o (a \o b)
        BY <2>4, <3>2, Regroup, Zenon
      <3> QED
        BY <2>4, <3>1, <3>3
    <2>7. h_readBuff' = h_readBuff
      BY <1>6 DEF Send
    <2>8. /\ Readable(h_readBuff)' = q /\ socket' = socket \o a /\ unsent' = b
      BY <1>1, <2>1, <2>3, <2>7
    <2>9. BufferIsQueue'
      <3>1. (Readable(h_readBuff)' \o socket') \o unsent' = SubSeq(Stream', taken' + 1, Len(Stream'))
        BY <1>2, <1>4, <1>5, <2>6, <2>8
      <3>2. IsBuffer(h_readBuff', Symbols')
        BY <1>2, <1>5, <2>7
      <3> QED
        BY <3>1, <3>2 DEF BufferIsQueue
    <2> QED
      BY <1>2, <1>4, <1>5, <2>4, <2>5, <2>8, <2>9 DEF IInv
  <1>7. CASE Read
    <2>1. PICK n : n = Min({Len(socket), WritableBytes(h_readBuff) + StackSize})
      OBVIOUS
    <2>2. /\ h_readBuff' = IF n = 0 THEN h_readBuff ELSE ReadFd(h_readBuff, SubSeq(socket, 1, n))
          /\ socket' = SubSeq(socket, n + 1, Len(socket))
          /\ unsent' = unsent
      BY <1>7, <2>1 DEF Read
    <2>3. n \in 0..Len(socket)
      <3>1. Len(socket) \in Nat
        BY <1>2, LenProperties
      <3>2. WritableBytes(h_readBuff) \in Nat
        <4>1. /\ Len(h_readBuff.cells) \in Nat /\ h_readBuff.writePos \in Nat
              /\ h_readBuff.writePos <= Len(h_readBuff.cells)
          BY <1>2, BufferFields
        <4> QED
          BY <4>1 DEF WritableBytes
      <3>3. n = Len(socket) \/ (n \in Nat /\ n <= Len(socket))
        <4>1. PICK x, y : x = Len(socket) /\ y = WritableBytes(h_readBuff) + StackSize
          OBVIOUS
        <4>2. x \in Nat /\ y \in Nat
          BY RequestAssumption, <3>1, <3>2, <4>1
        <4>3. \E m \in {x, y} : \A z \in {x, y} : m <= z
          BY <4>2
        <4>4. n \in {x, y} /\ \A z \in {x, y} : n <= z
          BY <2>1, <4>1, <4>3 DEF Min
        <4> QED
          BY <4>1, <4>2, <4>4
      <3> QED
        BY <3>1, <3>3
    <2>4. PICK a, b : a = SubSeq(socket, 1, n) /\ b = SubSeq(socket, n + 1, Len(socket))
      OBVIOUS
    <2>5. a \in Seq(Symbols) /\ b \in Seq(Symbols) /\ a \o b = socket
      BY <1>2, <2>3, <2>4, Split
    <2>6. IsBuffer(h_readBuff', Symbols) /\ Readable(h_readBuff') = q \o a
      <3>1. CASE n = 0
        <4>1. a = <<>>
          BY <2>4, <3>1, SubSeqEmpty
        <4>2. q \o a = q
          BY <1>3, <4>1, ConcatEmptySeq
        <4> QED
          BY <1>1, <1>2, <2>2, <3>1, <4>2
      <3>2. CASE n # 0
        <4>1. h_readBuff' = ReadFd(h_readBuff, a)
          BY <2>2, <2>4, <3>2
        <4>2. /\ IsBuffer(ReadFd(h_readBuff, a), Symbols)
              /\ Readable(ReadFd(h_readBuff, a)) = Readable(h_readBuff) \o a
          BY <1>2, <2>5, NulIsSymbol, ReadFdIsPut
        <4> QED
          BY <1>1, <4>1, <4>2
      <3> QED
        BY <3>1, <3>2
    <2>7. (q \o a) \o b = q \o socket
      BY <1>3, <2>5, Regroup, Zenon
    <2>8. socket' = b
      BY <2>2, <2>4
    <2>9. BufferIsQueue'
      <3>1. (Readable(h_readBuff') \o socket') \o unsent' = SubSeq(Stream', taken' + 1, Len(Stream'))
        BY <1>2, <1>4, <1>5, <2>2, <2>6, <2>7, <2>8
      <3> QED
        BY <1>5, <2>6, <3>1 DEF BufferIsQueue
    <2> QED
      BY <1>2, <1>4, <1>5, <2>2, <2>5, <2>8, <2>9 DEF IInv
  <1> QED
    BY <1>6, <1>7

\* Whatever Parse takes off the buffer goes from the front of the stream.
LEMMA ConsumeHolds ==
    ASSUME IInv, NEW n, n \in 0..ReadableBytes(h_readBuff), NEW goOn, Consume(n, goOn)
    PROVE  IInv'
  <1>1. PICK q, p : q = Readable(h_readBuff) /\ p = Readable(Retrieve(h_readBuff, n))
    OBVIOUS
  <1>2. /\ convo \in Conversations /\ socket \in Seq(Symbols) /\ unsent \in Seq(Symbols)
        /\ taken \in 0..Len(Stream) /\ IsBuffer(h_readBuff, Symbols)
        /\ (q \o socket) \o unsent = SubSeq(Stream, taken + 1, Len(Stream))
    BY <1>1 DEF IInv, BufferIsQueue
  <1>3. q \in Seq(Symbols) /\ Len(q) = ReadableBytes(h_readBuff) /\ Len(q) \in Nat
    BY <1>1, <1>2, Contents, LenProperties
  <1>4. n \in Nat /\ n <= ReadableBytes(h_readBuff) /\ n \in 0..Len(q)
    BY <1>3
  <1>5. /\ IsBuffer(Retrieve(h_readBuff, n), Symbols)
        /\ Len(p) = Len(q) - n
        /\ \A i \in 1..(Len(q) - n) : p[i] = q[n + i]
    BY <1>1, <1>2, <1>4, RetrieveIsTake
  <1>6. p \in Seq(Symbols)
    BY <1>1, <1>5, Contents
  <1>7. Stream \in Seq(Symbols)
    BY <1>2, StreamIsCut DEF Stream
  <1>8. PICK t : t = socket \o unsent
    OBVIOUS
  <1>9. /\ t \in Seq(Symbols)
        /\ q \o t = SubSeq(Stream, taken + 1, Len(Stream))
        /\ (p \o socket) \o unsent = p \o t
    <2>1. t \in Seq(Symbols)
      BY <1>2, <1>8, ConcatProperties
    <2>2. (q \o socket) \o unsent = q \o t
      BY <1>2, <1>3, <1>8, Regroup, Zenon
    <2>3. (p \o socket) \o unsent = p \o t
      BY <1>2, <1>6, <1>8, Regroup, Zenon
    <2> QED
      BY <1>2, <2>1, <2>2, <2>3
  <1>10. /\ taken + n \in 0..Len(Stream)
         /\ p \o t = SubSeq(Stream, (taken + n) + 1, Len(Stream))
    <2>1. taken \in 0..Len(Stream) /\ q \in Seq(Symbols) /\ n \in 0..Len(q)
      BY <1>2, <1>3, <1>4
    <2>2. PICK st : st = Stream
      OBVIOUS
    <2>3. /\ st \in Seq(Symbols) /\ taken \in 0..Len(st)
          /\ q \o t = SubSeq(st, taken + 1, Len(st))
      BY <1>7, <1>9, <2>1, <2>2
    <2>4. Behind(st, taken, q, t)
      BY <1>9, <2>1, <2>3 DEF Behind
    <2>5. Without(p, q, n)
      BY <1>5, <1>6, <2>1 DEF Without
    <2>6. Behind(st, taken + n, p, t)
      BY <2>3, <2>4, <2>5, Drop
    <2> QED
      BY <2>2, <2>6 DEF Behind
  <1>11. /\ h_readBuff' = Retrieve(h_readBuff, n) /\ taken' = taken + n
         /\ UNCHANGED <<convo, socket, unsent>>
    BY DEF Consume
  <1>12. Stream' = Stream /\ Symbols' = Symbols
    BY <1>11 DEF Stream
  <1>13. BufferIsQueue'
    <2>1. (Readable(h_readBuff') \o socket') \o unsent' = SubSeq(Stream', taken' + 1, Len(Stream'))
      BY <1>1, <1>9, <1>10, <1>11, <1>12
    <2> QED
      BY <1>5, <1>11, <1>12, <2>1 DEF BufferIsQueue
  <1> QED
    BY <1>2, <1>10, <1>11, <1>12, <1>13 DEF IInv

\* So does a line with its end, the body of a POST, or nothing.
LEMMA EndOfLineHolds == IInv /\ EndOfLine => IInv'
  <1> SUFFICES ASSUME IInv, EndOfLine PROVE IInv'
    OBVIOUS
  <1>1. /\ LineEnd \in 0..ReadableBytes(h_readBuff)
        /\ LineEnd # ReadableBytes(h_readBuff) => LineEnd + 2 <= ReadableBytes(h_readBuff)
    BY LineEnds DEF IInv, BufferIsQueue
  <1>2. ReadableBytes(h_readBuff) \in Nat
    BY Contents, LenProperties DEF IInv, BufferIsQueue
  <1>3. CASE LineEnd = ReadableBytes(h_readBuff)
    <2>1. CASE h_method' = "POST" /\ h_state' = "FINISH"
      <3>1. Consume(LineEnd, FALSE)
        BY <1>3, <2>1 DEF EndOfLine
      <3> QED
        BY <1>1, <3>1, ConsumeHolds
    <2>2. CASE ~(h_method' = "POST" /\ h_state' = "FINISH")
      <3>1. Consume(0, FALSE)
        BY <1>3, <2>2 DEF EndOfLine
      <3>2. 0 \in 0..ReadableBytes(h_readBuff)
        BY <1>2
      <3> QED
        BY <3>1, <3>2, ConsumeHolds
    <2> QED
      BY <2>1, <2>2
  <1>4. CASE LineEnd # ReadableBytes(h_readBuff)
    <2>1. Consume(LineEnd + 2, h_state' # "FINISH")
      BY <1>4 DEF EndOfLine
    <2>2. LineEnd + 2 \in 0..ReadableBytes(h_readBuff)
      BY <1>1, <1>2, <1>4
    <2> QED
      BY <2>1, <2>2, ConsumeHolds
  <1> QED
    BY <1>3, <1>4

\* Every step keeps the invariant.
LEMMA StepHolds == IInv /\ [Next]_vars => IInv'
  <1> SUFFICES ASSUME IInv, [Next]_vars PROVE IInv'
    OBVIOUS
  <1>1. ASSUME UNCHANGED <<convo, socket, unsent, taken, h_readBuff>> PROVE IInv'
    <2>1. Stream' = Stream /\ Symbols' = Symbols
      BY <1>1 DEF Stream
    <2> QED
      BY <1>1, <2>1 DEF IInv, BufferIsQueue
  <1>2. CASE Send \/ Read
    BY <1>2, MoveHolds
  <1>3. CASE ParseRequestLine \/ ParseHeader \/ ParseBody
    BY <1>3, EndOfLineHolds DEF ParseRequestLine, ParseHeader, ParseBody
  <1>4. CASE Readiness \/ Process \/ BadRequestLine \/ Answer
    BY <1>1, <1>4 DEF Readiness, Process, BadRequestLine, Answer
  <1>5. CASE UNCHANGED vars
    BY <1>1, <1>5 DEF vars
  <1> QED
    BY <1>2, <1>3, <1>4, <1>5 DEF Next

-------------------------------------------------------------------------------
(* Where Parse is in the stream *)

\* Request r lies in st behind position q and ends at position e.
ShapeAt(st, q, e, r) ==
    /\ q \in Nat /\ e \in Nat /\ e <= Len(st)
    /\ st[q + 1] = Mark(r.method) /\ st[q + 2] = Sym("HTTP/", r.path)
    /\ st[q + 3] = Sym("version", "1.1") /\ st[q + 4] = CR /\ st[q + 5] = LF
    /\ \A j \in 1..Lines(r) :
         /\ st[q + 5 * j + 1] = Sym("name", Name(r, j))
         /\ st[q + 5 * j + 2] = Mark(":")
         /\ st[q + 5 * j + 3] = Value(r, j)
         /\ st[q + 5 * j + 4] = CR /\ st[q + 5 * j + 5] = LF
    /\ st[q + 5 * Lines(r) + 6] = CR /\ st[q + 5 * Lines(r) + 7] = LF
    /\ IF r.form = <<>> THEN e = q + 5 * Lines(r) + 7
       ELSE /\ Part(st, q + 5 * Lines(r) + 7, Body(r))
            /\ e = q + 5 * Lines(r) + 7 + Len(Body(r))

\* A request has one to three header lines.
LEMMA LinesAre ==
    ASSUME NEW r \in Request
    PROVE  /\ Lines(r) \in 1..3 /\ Lines(r) \in Nat
           /\ r.keep => 2 <= Lines(r)
           /\ r.form # <<>> /\ r.keep => Lines(r) = 3
           /\ r.form # <<>> => 2 <= Lines(r)
           /\ r.form = <<>> /\ ~r.keep => Lines(r) = 1
  BY DEF Request, Lines

\* Where a request lies in a stream, the stream has its shape.
LEMMA PartShape ==
    ASSUME NEW st, Len(st) \in Nat, NEW q, NEW r \in Request, NEW w,
           Shape(w, r), Part(st, q, w)
    PROVE  ShapeAt(st, q, q + Len(w), r)
  <1>1. PICK h : h = Lines(r)
    OBVIOUS
  <1>2. h \in Nat /\ h \in 1..3
    BY <1>1, LinesAre
  <1>3. PICK n : n = Len(w)
    OBVIOUS
  <1>4. /\ q \in Nat /\ n \in Nat /\ q + n <= Len(st) /\ \A i \in 1..n : st[q + i] = w[i]
    BY <1>3 DEF Part
  <1>5. r.form # <<>> => Len(Body(r)) \in Nat
    BY BodyIsSymbols, LenProperties
  <1>6. 5 * h + 7 <= n
    <2>1. IF r.form = <<>> THEN n = 5 * h + 7 ELSE n = 5 * h + 7 + Len(Body(r))
      BY <1>1, <1>3 DEF Shape
    <2>2. PICK l : l = Len(Body(r))
      OBVIOUS
    <2>3. CASE r.form = <<>>
      BY <1>2, <2>1, <2>3
    <2>4. CASE r.form # <<>>
      BY <1>2, <1>5, <2>1, <2>2, <2>4
    <2> QED
      BY <2>3, <2>4
  <1>7. \A i \in 1..(5 * h + 7) : st[q + i] = w[i]
    BY <1>2, <1>4, <1>6
  <1>8. /\ st[q + 1] = Mark(r.method) /\ st[q + 2] = Sym("HTTP/", r.path)
        /\ st[q + 3] = Sym("version", "1.1") /\ st[q + 4] = CR /\ st[q + 5] = LF
    <2>1. \A i \in 1..5 : st[q + i] = w[i]
      BY <1>2, <1>7
    <2>2. /\ st[q + 1] = w[1] /\ st[q + 2] = w[2] /\ st[q + 3] = w[3] /\ st[q + 4] = w[4]
          /\ st[q + 5] = w[5]
      BY <2>1
    <2> QED
      BY <2>2 DEF Shape
  <1>9. ASSUME NEW j \in 1..h
        PROVE  /\ st[q + 5 * j + 1] = Sym("name", Name(r, j))
               /\ st[q + 5 * j + 2] = Mark(":")
               /\ st[q + 5 * j + 3] = Value(r, j)
               /\ st[q + 5 * j + 4] = CR /\ st[q + 5 * j + 5] = LF
    <2>0. j \in Nat /\ 1 <= j /\ j <= h
      BY <1>2
    <2>4. PICK o : o = 5 * j
      OBVIOUS
    <2>5. o \in Nat /\ 5 <= o /\ o <= 5 * h
      BY <1>2, <2>0, <2>4
    <2>6. \A i \in 1..5 : o + i \in 1..(5 * h + 7) /\ q + (o + i) = q + o + i
      BY <1>2, <1>4, <2>5
    <2>1. \A i \in 1..5 : 5 * j + i \in 1..(5 * h + 7) /\ q + (5 * j + i) = q + 5 * j + i
      BY <2>4, <2>6
    <2>2. \A i \in 1..5 : st[q + 5 * j + i] = w[5 * j + i]
      BY <1>7, <2>1
    <2>3. /\ st[q + 5 * j + 1] = w[5 * j + 1] /\ st[q + 5 * j + 2] = w[5 * j + 2]
          /\ st[q + 5 * j + 3] = w[5 * j + 3] /\ st[q + 5 * j + 4] = w[5 * j + 4]
          /\ st[q + 5 * j + 5] = w[5 * j + 5]
      BY <2>2
    <2> QED
      BY <1>1, <2>3 DEF Shape
  <1>10. st[q + 5 * h + 6] = CR /\ st[q + 5 * h + 7] = LF
    <2>1. /\ 5 * h + 6 \in 1..(5 * h + 7) /\ 5 * h + 7 \in 1..(5 * h + 7)
          /\ q + (5 * h + 6) = q + 5 * h + 6 /\ q + (5 * h + 7) = q + 5 * h + 7
      BY <1>2, <1>4
    <2>2. st[q + 5 * h + 6] = w[5 * h + 6] /\ st[q + 5 * h + 7] = w[5 * h + 7]
      BY <1>7, <2>1
    <2> QED
      BY <1>1, <2>2 DEF Shape
  <1>11. IF r.form = <<>> THEN q + n = q + 5 * h + 7
         ELSE /\ Part(st, q + 5 * h + 7, Body(r))
              /\ q + n = q + 5 * h + 7 + Len(Body(r))
    <2>1. CASE r.form = <<>>
      <3>1. n = 5 * h + 7
        BY <1>1, <1>3, <2>1 DEF Shape
      <3> QED
        BY <1>2, <1>4, <2>1, <3>1
    <2>2. CASE r.form # <<>>
      <3>1. PICK b, l : b = Body(r) /\ l = Len(b)
        OBVIOUS
      <3>2. l \in Nat /\ n = 5 * h + 7 + l /\ Part(w, 5 * h + 7, b)
        BY <1>1, <1>3, <1>5, <2>2, <3>1 DEF Shape
      <3>3. \A i \in 1..l : w[5 * h + 7 + i] = b[i]
        BY <3>1, <3>2 DEF Part
      <3>4. ASSUME NEW i \in 1..l PROVE st[q + 5 * h + 7 + i] = b[i]
        <4>1. 5 * h + 7 + i \in 1..n /\ q + (5 * h + 7 + i) = q + 5 * h + 7 + i
          BY <1>2, <1>4, <3>2
        <4>2. st[q + (5 * h + 7 + i)] = w[5 * h + 7 + i]
          BY <1>4, <4>1
        <4> QED
          BY <3>3, <4>1, <4>2
      <3>5. q + 5 * h + 7 \in Nat /\ q + 5 * h + 7 + l <= Len(st) /\ q + n = q + 5 * h + 7 + l
        BY <1>2, <1>4, <3>2
      <3>6. Part(st, q + 5 * h + 7, b)
        BY <3>1, <3>2, <3>4, <3>5 DEF Part
      <3> QED
        BY <2>2, <3>1, <3>5, <3>6
    <2> QED
      BY <2>1, <2>2
  <1>12. q \in Nat /\ q + n \in Nat /\ q + n <= Len(st)
    BY <1>4
  <1> QED
    BY <1>1, <1>3, <1>8, <1>9, <1>10, <1>11, <1>12 DEF ShapeAt

\* Where the requests of this client end in its stream.
Ends == CHOOSE p : IsCut(convo, p)

\* The requests of a client lie one behind the other in its stream.
LEMMA EndsAre ==
    ASSUME convo \in Conversations
    PROVE  /\ convo \in Seq(Request) /\ Len(convo) \in Nat
           /\ Stream \in Seq(Symbols) /\ Len(Stream) \in Nat
           /\ Ends \in [0..Len(convo) -> Nat]
           /\ Ends[0] = 0 /\ Ends[Len(convo)] = Len(Stream)
           /\ \A k \in 1..Len(convo) :
                /\ convo[k] \in Request
                /\ convo[k].form # <<>> => convo[k].method = "POST"
                /\ Ends[k - 1] \in Nat /\ Ends[k] \in Nat
                /\ Ends[k] = Ends[k - 1] + Len(Wire(convo[k]))
                /\ ShapeAt(Stream, Ends[k - 1], Ends[k], convo[k])
  <1>1. /\ convo \in Seq(Request)
        /\ \A r \in ToSet(convo) : r.form # <<>> => r.method = "POST"
    BY RequestAssumption
  <1>2. Len(convo) \in Nat /\ DOMAIN convo = 1..Len(convo)
    BY <1>1, LenProperties
  <1>3. Stream \in Seq(Symbols) /\ IsCut(convo, Ends) /\ Len(Stream) \in Nat
    BY StreamIsCut, LenProperties DEF Ends, Stream
  <1>4. PICK p : p = Ends
    OBVIOUS
  <1>5. /\ p \in [0..Len(convo) -> Nat]
        /\ p[0] = 0 /\ p[Len(convo)] = Len(Stream)
        /\ \A k \in 1..Len(convo) :
             /\ p[k] = p[k - 1] + Len(Wire(convo[k]))
             /\ Part(Stream, p[k - 1], Wire(convo[k]))
    BY <1>3, <1>4 DEF IsCut, Stream
  <1>6. ASSUME NEW k \in 1..Len(convo)
        PROVE  /\ convo[k] \in Request
               /\ convo[k].form # <<>> => convo[k].method = "POST"
               /\ p[k - 1] \in Nat /\ p[k] \in Nat
               /\ ShapeAt(Stream, p[k - 1], p[k], convo[k])
    <2>1. convo[k] \in Request /\ convo[k] \in ToSet(convo)
      BY <1>1, <1>2, ElementOfSeq DEF ToSet
    <2>2. k - 1 \in 0..Len(convo) /\ k \in 0..Len(convo)
      BY <1>2
    <2>3. Shape(Wire(convo[k]), convo[k])
      BY <2>1, WireShape
    <2>4. ShapeAt(Stream, p[k - 1], p[k - 1] + Len(Wire(convo[k])), convo[k])
      BY <1>3, <1>5, <2>1, <2>3, PartShape
    <2> QED
      BY <1>1, <1>5, <2>1, <2>2, <2>4
  <1> QED
    BY <1>1, <1>2, <1>3, <1>4, <1>5, <1>6

\* What is readable is the stream behind what has been taken.
LEMMA FrontOfStream ==
    ASSUME IInv
    PROVE  /\ ReadableBytes(h_readBuff) \in Nat /\ taken \in Nat
           /\ Readable(h_readBuff) \in Seq(Symbols)
           /\ Len(Readable(h_readBuff)) = ReadableBytes(h_readBuff)
           /\ taken + ReadableBytes(h_readBuff) <= Len(Stream)
           /\ \A i \in 1..ReadableBytes(h_readBuff) :
                Readable(h_readBuff)[i] = Stream[taken + i]
  <1>1. PICK q, t, st : q = Readable(h_readBuff) /\ t = socket \o unsent /\ st = Stream
    OBVIOUS
  <1>2. /\ convo \in Conversations /\ socket \in Seq(Symbols) /\ unsent \in Seq(Symbols)
        /\ taken \in 0..Len(st) /\ IsBuffer(h_readBuff, Symbols)
        /\ (q \o socket) \o unsent = SubSeq(st, taken + 1, Len(st))
    BY <1>1 DEF IInv, BufferIsQueue
  <1>3. q \in Seq(Symbols) /\ Len(q) = ReadableBytes(h_readBuff) /\ Len(q) \in Nat
    BY <1>1, <1>2, Contents, LenProperties
  <1>4. t \in Seq(Symbols) /\ Len(t) \in Nat
    <2>1. t \in Seq(Symbols)
      BY <1>1, <1>2, ConcatProperties
    <2> QED
      BY <2>1, LenProperties
  <1>5. q \o t = SubSeq(st, taken + 1, Len(st))
    BY <1>1, <1>2, <1>3, Regroup, Zenon
  <1>6. st \in Seq(Symbols) /\ Len(st) \in Nat /\ taken \in Nat
    BY <1>1, <1>2, EndsAre
  <1>7. /\ Len(q \o t) = Len(q) + Len(t)
        /\ \A i \in 1..(Len(q) + Len(t)) : (q \o t)[i] = IF i <= Len(q) THEN q[i] ELSE t[i - Len(q)]
    BY <1>3, <1>4, ConcatProperties
  <1>8. PICK a, b, u : a = taken + 1 /\ b = Len(st) /\ u = SubSeq(st, a, b)
    OBVIOUS
  <1>9. /\ Len(u) = IF a <= b THEN b - a + 1 ELSE 0
        /\ \A i \in 1..(b - a + 1) : u[i] = st[a + i - 1]
    <2>1. a \in Int /\ b \in Int /\ \A i \in a..b : st[i] \in Symbols
      BY <1>6, <1>8, ElementOfSeq
    <2> QED
      BY <1>6, <1>8, <2>1, SubSeqProperties
  <1>10. Len(q) + Len(t) = Len(st) - taken
    <2>1. Len(u) = Len(st) - taken
      BY <1>2, <1>6, <1>8, <1>9
    <2> QED
      BY <1>5, <1>7, <1>8, <2>1
  <1>11. taken + Len(q) <= Len(st)
    BY <1>3, <1>4, <1>6, <1>10
  <1>12. ASSUME NEW i \in 1..Len(q) PROVE q[i] = st[taken + i]
    <2>1. i \in 1..(Len(q) + Len(t)) /\ i <= Len(q) /\ i \in 1..(b - a + 1) /\ a + i - 1 = taken + i
      BY <1>3, <1>4, <1>6, <1>8, <1>10
    <2>2. (q \o t)[i] = q[i] /\ u[i] = st[taken + i]
      BY <1>7, <1>9, <2>1
    <2> QED
      BY <1>5, <1>8, <2>2
  <1> QED
    BY <1>1, <1>3, <1>6, <1>11, <1>12

\* The line that Parse sees ends before the first CRLF that has arrived.
LEMMA LineIsUpTo ==
    ASSUME IInv, NEW e \in Nat,
           \A i \in 1..e : Stream[taken + i] # CR,
           Stream[taken + e + 1] = CR, Stream[taken + e + 2] = LF
    PROVE  LineEnd = IF e + 2 <= ReadableBytes(h_readBuff) THEN e ELSE ReadableBytes(h_readBuff)
  <1>1. PICK q, m, t, st :
          /\ q = Readable(h_readBuff) /\ m = ReadableBytes(h_readBuff)
          /\ t = taken /\ st = Stream
    OBVIOUS
  <1>2. m \in Nat /\ t \in Nat /\ Len(q) = m /\ \A i \in 1..m : q[i] = st[t + i]
    BY <1>1, FrontOfStream
  <1> DEFINE ends == {i \in 0..(Len(q) - 2) : q[i + 1] = CR /\ q[i + 2] = LF}
  <1>3. LineEnd = IF ends = {} THEN m ELSE Min(ends)
    BY <1>1, <1>2 DEF LineEnd
  <1>4. ASSUME NEW i \in ends PROVE i \in Nat /\ i + 2 <= m /\ e <= i
    <2>1. i \in Nat /\ i + 2 <= m /\ q[i + 1] = CR
      BY <1>2
    <2>2. i + 1 \in 1..m /\ t + (i + 1) = t + i + 1
      BY <1>2, <2>1
    <2>3. st[t + (i + 1)] = CR
      BY <1>2, <2>1, <2>2
    <2>4. ~(i + 1 \in 1..e)
      BY <1>1, <2>3
    <2> QED
      BY <2>1, <2>4
  <1>5. CASE e + 2 <= m
    <2>1. /\ e \in 0..(Len(q) - 2) /\ e + 1 \in 1..m /\ e + 2 \in 1..m
          /\ t + (e + 1) = t + e + 1 /\ t + (e + 2) = t + e + 2
      BY <1>2, <1>5
    <2>2. q[e + 1] = CR /\ q[e + 2] = LF
      BY <1>1, <1>2, <2>1
    <2>3. e \in ends
      BY <2>1, <2>2
    <2>4. ends \subseteq Nat
      BY <1>4
    <2> HIDE DEF ends
    <2>5. Min(ends) \in ends /\ Min(ends) <= e
      BY <2>3, <2>4, MinIsMember
    <2>6. Min(ends) = e
      <3>1. Min(ends) \in Nat /\ e <= Min(ends)
        BY <1>4, <2>5
      <3> QED
        BY <2>5, <3>1
    <2> QED
      BY <1>1, <1>3, <1>5, <2>3, <2>6
  <1>6. CASE ~(e + 2 <= m)
    <2>1. ends = {}
      BY <1>2, <1>4, <1>6
    <2> QED
      BY <1>1, <1>3, <1>6, <2>1
  <1> QED
    BY <1>5, <1>6

\* Without a CR there is no end.
LEMMA LineIsAll ==
    ASSUME IInv, \A i \in 1..ReadableBytes(h_readBuff) : Stream[taken + i] # CR
    PROVE  LineEnd = ReadableBytes(h_readBuff)
  <1>1. PICK q, m, t, st :
          /\ q = Readable(h_readBuff) /\ m = ReadableBytes(h_readBuff)
          /\ t = taken /\ st = Stream
    OBVIOUS
  <1>2. m \in Nat /\ t \in Nat /\ Len(q) = m /\ \A i \in 1..m : q[i] = st[t + i]
    BY <1>1, FrontOfStream
  <1> DEFINE ends == {i \in 0..(Len(q) - 2) : q[i + 1] = CR /\ q[i + 2] = LF}
  <1>3. LineEnd = IF ends = {} THEN m ELSE Min(ends)
    BY <1>1, <1>2 DEF LineEnd
  <1>4. ASSUME NEW i \in ends PROVE FALSE
    <2>1. i \in Nat /\ i + 1 \in 1..m /\ q[i + 1] = CR
      BY <1>2
    <2> QED
      BY <1>1, <1>2, <2>1
  <1> QED
    BY <1>1, <1>3, <1>4

\* The line itself.
LEMMA TheLineIs ==
    ASSUME IInv
    PROVE  /\ LineEnd \in Nat /\ LineEnd <= ReadableBytes(h_readBuff)
           /\ LineEnd # ReadableBytes(h_readBuff) => LineEnd + 2 <= ReadableBytes(h_readBuff)
           /\ TheLine \in Seq(Symbols) /\ Len(TheLine) = LineEnd
           /\ \A i \in 1..LineEnd : TheLine[i] = Stream[taken + i]
  <1>1. PICK q, m, t, st, l, s :
          /\ q = Readable(h_readBuff) /\ m = ReadableBytes(h_readBuff)
          /\ t = taken /\ st = Stream /\ l = LineEnd /\ s = TheLine
    OBVIOUS
  <1>2. /\ m \in Nat /\ t \in Nat /\ Len(q) = m /\ \A i \in 1..m : q[i] = st[t + i]
        /\ q \in Seq(Symbols)
    BY <1>1, FrontOfStream
  <1>3. l \in 0..m /\ (l # m => l + 2 <= m)
    BY <1>1, LineEnds DEF IInv, BufferIsQueue
  <1>4. s = SubSeq(q, 1, l)
    BY <1>1 DEF TheLine
  <1>5. /\ s \in Seq(Symbols) /\ Len(s) = IF 1 <= l THEN l - 1 + 1 ELSE 0
        /\ \A i \in 1..(l - 1 + 1) : s[i] = q[1 + i - 1]
    <2>1. 1 \in Int /\ l \in Int /\ \A i \in 1..l : q[i] \in Symbols
      BY <1>2, <1>3, ElementOfSeq
    <2> QED
      BY <1>2, <1>4, <2>1, SubSeqProperties
  <1>6. Len(s) = l /\ \A i \in 1..l : s[i] = q[i]
    <2>1. l - 1 + 1 = l /\ \A i \in 1..l : 1 + i - 1 = i
      BY <1>3
    <2> QED
      BY <1>3, <1>5, <2>1
  <1>7. \A i \in 1..l : s[i] = st[t + i]
    BY <1>2, <1>3, <1>6
  <1> QED
    BY <1>1, <1>2, <1>3, <1>5, <1>6, <1>7

\* What Consume leaves.
LEMMA AfterConsume ==
    ASSUME IInv, NEW n \in 0..ReadableBytes(h_readBuff), NEW goOn, Consume(n, goOn)
    PROVE  /\ ReadableBytes(h_readBuff') = ReadableBytes(h_readBuff) - n
           /\ taken' = taken + n
           /\ pc' = IF goOn /\ ReadableBytes(h_readBuff) > n THEN "parse" ELSE "answer"
           /\ ok' = TRUE
           /\ UNCHANGED <<isET, convo, whole, answers>>
  <1>1. /\ h_readBuff.readPos \in Nat /\ h_readBuff.writePos \in Nat
        /\ h_readBuff = [cells |-> h_readBuff.cells, readPos |-> h_readBuff.readPos,
                         writePos |-> h_readBuff.writePos]
    BY BufferFields DEF IInv, BufferIsQueue
  <1>2. h_readBuff' = Retrieve(h_readBuff, n)
    BY DEF Consume
  <1>3. h_readBuff'.readPos = h_readBuff.readPos + n /\ h_readBuff'.writePos = h_readBuff.writePos
    BY <1>1, <1>2 DEF Retrieve
  <1>4. ReadableBytes(h_readBuff') = ReadableBytes(h_readBuff) - n
    BY <1>1, <1>3 DEF ReadableBytes
  <1> QED
    BY <1>4 DEF Consume

\* From t on, request k is what Parse will read: at most a part of its method is gone,
\* and at most the rest of a line that was cut is in front of it.
OnAt(t, k) ==
    /\ k <= Len(convo)
    /\ t <= Ends[k - 1] + 1
    /\ \A i \in (t + 1)..(Ends[k - 1] + 1) : Stream[i].kind \notin {"HTTP/", "CR"}

\* The line that begins behind t ends before there is a path: Parse will find no request.
LostAt(t) ==
    \A i \in (t + 1)..Len(Stream) :
        Stream[i].kind = "HTTP/" =>
            \E j \in (t + 1)..(i - 2) : Stream[j] = CR /\ Stream[j + 1] = LF

Follows(t, k) == OnAt(t, k) \/ LostAt(t)

\* What Parse knows before header line j of request r.
Names == {"Connection", "Content-Type"}
HeaderAt(r, j) ==
    [name \in Names |->
        IF name = "Connection" THEN IF r.keep /\ j > 2 THEN <<KeepAlive>> ELSE <<>>
        ELSE IF r.form # <<>> /\ j > Lines(r) THEN <<UrlEncoded>> ELSE <<>>]

Knows(r, j) ==
    /\ h_method \in {r.method, "other"}
    /\ whole => h_method = r.method
    /\ h_path = Html(r.path)
    /\ h_version = <<Sym("version", "1.1")>>
    /\ h_header = HeaderAt(r, j)

\* The answers so far are those of the first requests, and only the last is 400.
Sent == [page : {"400"} \cup UNION {Pages(r) : r \in Request}, kept : BOOLEAN]
Answered ==
    /\ answers \in Seq(Sent)
    /\ \A i \in DOMAIN answers :
         IF answers[i].page = "400" THEN i = Len(answers) /\ ~answers[i].kept /\ pc = "closed"
         ELSE /\ i <= Len(convo)
              /\ answers[i].page \in Pages(convo[i])
              /\ answers[i].kept => convo[i].keep

\* Where Parse is in the stream.
AtRequestLine ==
    /\ Follows(taken, Due)
    /\ whole => Due <= Len(convo) /\ taken = Ends[Due - 1]
    /\ h_header = [name \in Names |-> <<>>]

AtHeaders ==
    /\ Due <= Len(convo)
    /\ \E j \in 1..(Lines(convo[Due]) + 1) :
         taken = Ends[Due - 1] + 5 * j /\ Knows(convo[Due], j)

AtBody ==
    /\ Due <= Len(convo)
    /\ taken = Ends[Due - 1] + 5 * Lines(convo[Due]) + 7
    /\ Knows(convo[Due], Lines(convo[Due]) + 1)

AtAnswer ==
    IF ok THEN /\ Due <= Len(convo)
               /\ h_path \in Pages(convo[Due])
               /\ IsKeepAlive => convo[Due].keep /\ Follows(taken, Due + 1)
    ELSE h_header["Connection"] = <<>>

\* A request that was alone and whole still ends where the buffer ends.
IsWhole ==
    /\ pc = "parse" /\ whole =>
         /\ Due <= Len(convo)
         /\ taken + ReadableBytes(h_readBuff) = Ends[Due]
    /\ WholeIsParsed

\* The inductive invariant of Parse.
PInv ==
    /\ Answered
    /\ DOMAIN h_header = Names
    /\ pc \in {"wait", "read", "process", "parse", "answer", "closed"}
    /\ pc \in {"wait", "read", "process"} => Follows(taken, Due)
    /\ pc = "parse" =>
         /\ ReadableBytes(h_readBuff) > 0
         /\ h_state \in {"REQUEST_LINE", "HEADERS", "BODY"}
         /\ h_state = "REQUEST_LINE" => AtRequestLine
         /\ h_state = "HEADERS" => AtHeaders
         /\ h_state = "BODY" => AtBody
    /\ pc = "answer" => AtAnswer
    /\ IsWhole

\* The kinds of symbols differ.
LEMMA KindOf ==
    /\ \A k, t : Sym(k, t).kind = k /\ Sym(k, t).text = t
    /\ \A k : Mark(k).kind = k
    /\ CR.kind = "CR" /\ LF.kind = "LF" /\ KeepAlive.kind = "value" /\ UrlEncoded.kind = "value"
    /\ KeepAlive # UrlEncoded
  BY DEF Sym, Mark, CR, LF, KeepAlive, UrlEncoded

\* It holds in the beginning.
LEMMA PInit == Init => PInv
  <1> SUFFICES ASSUME Init PROVE PInv
    OBVIOUS
  <1>1. /\ answers = <<>> /\ convo \in Conversations /\ taken = 0 /\ pc = "wait" 
        /\ h_header = [name \in Names |-> <<>>]
    BY DEF Init, Names
  <1>2. Answered
    BY <1>1, EmptySeq DEF Answered
  <1>3. Follows(taken, Due)
    <2>1. Len(answers) = 0 /\ Len(convo) \in Nat /\ Ends[0] = 0 /\ Ends[Len(convo)] = Len(Stream)
      BY <1>1, EndsAre, EmptySeq
    <2>2. Due = 1 /\ Due - 1 = 0
      BY <2>1 DEF Due
    <2>3. CASE Len(convo) = 0
      <3>1. Len(Stream) = 0 /\ \A i \in (taken + 1)..Len(Stream) : FALSE
        BY <1>1, <2>1, <2>3
      <3> QED
        BY <3>1 DEF Follows, LostAt
    <2>4. CASE Len(convo) # 0
      <3>1. 1 \in 1..Len(convo) /\ 1 - 1 = 0
        BY <2>1, <2>4
      <3>2. ShapeAt(Stream, 0, Ends[1], convo[1]) /\ convo[1] \in Request
        BY <1>1, <2>1, <3>1, EndsAre
      <3>3. Stream[0 + 1] = Mark(convo[1].method) /\ 0 + 1 = 1 /\ convo[1].method \in {"GET", "POST"}
        BY <3>2 DEF ShapeAt, Request
      <3>4. Stream[1].kind \in {"GET", "POST"}
        BY <3>3, KindOf
      <3>5. /\ taken <= Ends[Due - 1] + 1 /\ Due <= Len(convo)
            /\ \A i \in (taken + 1)..(Ends[Due - 1] + 1) : i = 1
        BY <1>1, <2>1, <2>2, <3>1
      <3>6. \A i \in (taken + 1)..(Ends[Due - 1] + 1) : Stream[i].kind \notin {"HTTP/", "CR"}
        BY <3>4, <3>5
      <3> QED
        BY <3>5, <3>6 DEF Follows, OnAt
    <2> QED
      BY <2>3, <2>4
  <1>4. IsWhole
    BY <1>1 DEF IsWhole, WholeIsParsed
  <1> QED
    BY <1>1, <1>2, <1>3, <1>4 DEF PInv

\* Nothing moves in the stream of a client.
LEMMA StreamStays ==
    ASSUME UNCHANGED convo
    PROVE  UNCHANGED Stream /\ UNCHANGED Ends
  BY DEF Stream, Ends, IsCut

\* The requests are counted from 1.
LEMMA DueIs ==
    ASSUME PInv
    PROVE  Len(answers) \in Nat /\ Due \in Nat /\ Due >= 1 /\ Due - 1 \in Nat
  <1>1. Len(answers) \in Nat
    BY LenProperties DEF PInv, Answered
  <1> QED
    BY <1>1 DEF Due

\* Until process runs, only the places of the bytes change.
LEMMA ReceiveHolds ==
    ASSUME PInv, Send \/ Readiness \/ Read
    PROVE  PInv'
  <1>1. UNCHANGED <<convo, taken, request, ok, whole, answers>>
    BY DEF Send, Readiness, Read
  <1>2. UNCHANGED Stream /\ UNCHANGED Ends /\ UNCHANGED Due
    BY <1>1, StreamStays DEF Due
  <1>3. UNCHANGED Follows(taken, Due) /\ UNCHANGED Follows(taken, Due + 1)
    BY <1>1, <1>2 DEF Follows, OnAt, LostAt
  <1>4. CASE Send
    <2>1. UNCHANGED <<pc, h_readBuff>>
      BY <1>4 DEF Send
    <2>2. UNCHANGED Answered /\ UNCHANGED IsWhole /\ UNCHANGED AtBody /\ UNCHANGED AtHeaders
      BY <1>1, <1>2, <2>1
      DEF request, Answered, IsWhole, WholeIsParsed, IsKeepAlive, AtBody, AtHeaders, Knows
    <2>3. UNCHANGED AtAnswer
      BY <1>1, <1>2, <1>3 DEF request, AtAnswer, IsKeepAlive
    <2>4. UNCHANGED AtRequestLine
      BY <1>1, <1>2, <1>3 DEF request, AtRequestLine
    <2> QED
      BY <1>1, <1>3, <2>1, <2>2, <2>3, <2>4 DEF PInv, request
  <1>5. CASE Readiness \/ Read
    <2>1. pc \in {"wait", "read"} /\ pc' \in {"read", "process"}
      BY <1>5 DEF Readiness, Read
    <2>2. Answered'
      BY <1>1, <2>1 DEF PInv, Answered
    <2>3. IsWhole'
      BY <2>1 DEF IsWhole, WholeIsParsed
    <2>4. Follows(taken, Due)'
      BY <1>3, <2>1 DEF PInv
    <2>5. DOMAIN h_header' = Names
      BY <1>1 DEF PInv, request
    <2> QED
      BY <2>1, <2>2, <2>3, <2>4, <2>5 DEF PInv
  <1> QED
    BY <1>4, <1>5

\* The request that is due, in the stream.
LEMMA DueInStream ==
    ASSUME IInv, PInv, Due <= Len(convo)
    PROVE  /\ convo[Due] \in Request /\ Due \in 1..Len(convo)
           /\ convo[Due].form # <<>> => convo[Due].method = "POST"
           /\ Ends[Due - 1] \in Nat /\ Ends[Due] \in Nat
           /\ ShapeAt(Stream, Ends[Due - 1], Ends[Due], convo[Due])
           /\ 12 <= Ends[Due] - Ends[Due - 1]
           /\ Ends[Due - 1] + 5 * Lines(convo[Due]) + 7 <= Ends[Due]
           /\ Len(Stream) \in Nat
  <1>1. Due \in 1..Len(convo)
    BY DueIs, EndsAre DEF IInv
  <1>2. PICK r, q, e, h, b : /\ r = convo[Due] /\ q = Ends[Due - 1] /\ e = Ends[Due]
                             /\ h = Lines(r) /\ b = Len(Body(r))
    OBVIOUS
  <1>3. /\ r \in Request /\ q \in Nat /\ e \in Nat /\ ShapeAt(Stream, q, e, r)
        /\ r.form # <<>> => r.method = "POST"
        /\ Len(Stream) \in Nat
    BY <1>1, <1>2, EndsAre DEF IInv
  <1>4. h \in Nat /\ h >= 1 /\ (r.form # <<>> => b \in Nat)
    BY <1>2, <1>3, LinesAre, BodyIsSymbols, LenProperties
  <1>5. IF r.form = <<>> THEN e = q + 5 * h + 7 ELSE e = q + 5 * h + 7 + b
    BY <1>2, <1>3 DEF ShapeAt
  <1>6. q + 5 * h + 7 <= e /\ 12 <= e - q
    BY <1>3, <1>4, <1>5
  <1> QED
    BY <1>1, <1>2, <1>3, <1>6

\* Before process there is the beginning of a request, or Parse will see that there is none.
LEMMA ProcessHolds ==
    ASSUME IInv, PInv, Process
    PROVE  PInv'
  <1>1. /\ UNCHANGED <<convo, taken, answers, ok, h_readBuff>>
        /\ pc = "process"
        /\ pc' = IF ReadableBytes(h_readBuff) = 0 THEN "wait" ELSE "parse"
        /\ h_state' = "REQUEST_LINE"
        /\ h_header' = [name \in DOMAIN h_header |-> <<>>]
        /\ whole' = (Due <= Len(convo) /\ Readable(h_readBuff) = Wire(convo[Due]))
    BY DEF Process, InitRequest
  <1>2. UNCHANGED Stream /\ UNCHANGED Ends /\ UNCHANGED Due
    BY <1>1, StreamStays DEF Due
  <1>3. Follows(taken, Due) /\ Follows(taken, Due)'
    <2>1. Follows(taken, Due)
      BY <1>1 DEF PInv
    <2> QED
      BY <1>1, <1>2, <2>1 DEF Follows, OnAt, LostAt
  <1>4. Answered'
    BY <1>1 DEF PInv, Answered
  <1>5. DOMAIN h_header = Names /\ h_header' = [name \in Names |-> <<>>]
    BY <1>1 DEF PInv
  <1>6. ASSUME pc' = "parse", whole'
        PROVE  /\ Due <= Len(convo) /\ taken = Ends[Due - 1]
               /\ taken + ReadableBytes(h_readBuff) = Ends[Due]
    <2>1. /\ Due <= Len(convo) /\ Readable(h_readBuff) = Wire(convo[Due])
          /\ ReadableBytes(h_readBuff) # 0
      BY <1>1, <1>6
    <2>2. PICK r, m : r = convo[Due] /\ m = ReadableBytes(h_readBuff)
      OBVIOUS
    <2>3. Due \in 1..Len(convo)
      BY <2>1, DueIs, EndsAre DEF IInv
    <2>4. /\ r \in Request /\ Ends[Due] = Ends[Due - 1] + Len(Wire(r))
      BY <2>2, <2>3, EndsAre DEF IInv
    <2>5. /\ m \in Nat /\ m # 0 /\ Len(Wire(r)) = m
          /\ \A i \in 1..m : Wire(r)[i] = Stream[taken + i]
      BY <2>1, <2>2, FrontOfStream
    <2>6. PICK q, t, st : q = Ends[Due - 1] /\ t = taken /\ st = Stream
      OBVIOUS
    <2>7. /\ q \in Nat /\ t \in Nat /\ t + m <= Len(st) /\ Len(st) \in Nat
          /\ 12 <= Ends[Due] - q /\ Ends[Due] \in Nat
          /\ st[q + 2] = Sym("HTTP/", r.path)
      BY <2>1, <2>2, <2>6, DueInStream, FrontOfStream DEF ShapeAt
    <2>8. 12 <= m /\ m = Ends[Due] - q
      BY <2>4, <2>5, <2>6, <2>7
    <2>9. st[t + 1].kind = r.method /\ r.method # "HTTP/" /\ st[t + 2].kind = "HTTP/"
      <3>1. Wire(r)[1] = Mark(r.method) /\ Wire(r)[2] = Sym("HTTP/", r.path)
        BY <2>4, WireShape DEF Shape
      <3>2. st[t + 1] = Wire(r)[1] /\ st[t + 2] = Wire(r)[2]
        BY <2>5, <2>6, <2>8
      <3> QED
        BY <2>4, <3>1, <3>2, KindOf DEF Request
    <2>10. ~LostAt(t)
      <3>1. SUFFICES ASSUME LostAt(t) PROVE FALSE
        OBVIOUS
      <3>2. PICK i : i = t + 2
        OBVIOUS
      <3>3. i \in (t + 1)..Len(st) /\ (t + 1)..(i - 2) = {}
        BY <2>7, <2>8, <3>2
      <3>4. \E j \in (t + 1)..(i - 2) : st[j] = CR
        BY <2>6, <2>9, <3>1, <3>2, <3>3 DEF LostAt
      <3> QED
        BY <3>3, <3>4
    <2>11. t <= q + 1 /\ \A i \in (t + 1)..(q + 1) : st[i].kind # "HTTP/"
      BY <1>3, <2>6, <2>10 DEF Follows, OnAt
    <2>12. ~(t + 2 \in (t + 1)..(q + 1))
      BY <2>9, <2>11
    <2>13. t # q + 1
      <3>1. t = q + 1 => t + 1 = q + 2
        BY <2>7
      <3> QED
        BY <2>7, <2>9, <3>1, KindOf
    <2>14. t = q
      BY <2>7, <2>11, <2>12, <2>13
    <2>15. t + m = Ends[Due]
      BY <2>7, <2>8, <2>14
    <2> QED
      BY <2>1, <2>2, <2>6, <2>14, <2>15
  <1>7. pc' = "parse" => AtRequestLine'
    BY <1>1, <1>2, <1>3, <1>5, <1>6 DEF AtRequestLine
  <1>8. IsWhole'
    <2>1. WholeIsParsed'
      BY <1>1 DEF WholeIsParsed
    <2> QED
      BY <1>1, <1>2, <1>6, <2>1 DEF IsWhole
  <1>11. pc' = "parse" => ReadableBytes(h_readBuff') > 0
    <2>1. ReadableBytes(h_readBuff) \in Nat
      BY FrontOfStream
    <2> QED
      BY <1>1, <2>1
  <1>9. DOMAIN h_header' = Names
    BY <1>5
  <1>10. pc' \in {"wait", "parse"}
    BY <1>1
  <1> QED
    BY <1>1, <1>3, <1>4, <1>7, <1>8, <1>9, <1>10, <1>11 DEF PInv

\* An answer is for the request that is due, and then the next one is.
LEMMA AnswerHolds ==
    ASSUME IInv, PInv, Answer
    PROVE  PInv'
  <1>1. /\ UNCHANGED <<convo, taken, h_readBuff, request, ok, whole>>
        /\ pc = "answer"
        /\ answers' = Append(answers, [page |-> IF ok THEN h_path ELSE "400", kept |-> IsKeepAlive])
        /\ pc' = IF IsKeepAlive THEN "process" ELSE "closed"
    BY DEF Answer
  <1>2. UNCHANGED Stream /\ UNCHANGED Ends
    BY <1>1, StreamStays
  <1>3. PICK k, r, x : k = Due /\ r = convo[Due]
                    /\ x = [page |-> IF ok THEN h_path ELSE "400", kept |-> IsKeepAlive]
    OBVIOUS
  <1>4. /\ k \in Nat /\ k >= 1 /\ k = Len(answers) + 1 /\ Len(answers) \in Nat
        /\ answers \in Seq(Sent) /\ answers' = Append(answers, x)
        /\ x.kept \in BOOLEAN /\ x.kept = IsKeepAlive
    BY <1>1, <1>3, DueIs DEF Due, PInv, Answered, IsKeepAlive
  <1>5. AtAnswer /\ Answered /\ Len(convo) \in Nat
    BY <1>1, EndsAre DEF PInv, IInv
  <1>6. /\ ok => /\ k \in 1..Len(convo) /\ r \in Request /\ h_path \in Pages(r)
                 /\ x.kept => r.keep /\ Follows(taken, k + 1)
        /\ ~ok => ~x.kept
    <2>1. ok => k \in 1..Len(convo) /\ r = convo[k]
      BY <1>3, <1>4, <1>5 DEF AtAnswer
    <2>2. ok => r \in Request
      BY <2>1, EndsAre DEF IInv
    <2>3. ok => h_path \in Pages(r) /\ (x.kept => r.keep /\ Follows(taken, k + 1))
      BY <1>3, <1>4, <1>5 DEF AtAnswer
    <2>4. ~ok => ~x.kept
      <3>1. ~ok => h_header["Connection"] = <<>>
        BY <1>5 DEF AtAnswer
      <3>2. <<>> # <<KeepAlive>>
        OBVIOUS
      <3> QED
        BY <1>4, <3>1, <3>2 DEF IsKeepAlive
    <2> QED
      BY <2>1, <2>2, <2>3, <2>4
  <1>7. ok => x.page = h_path /\ h_path # "400"
    <2>1. ASSUME ok PROVE h_path # "400"
      <3>1. r \in Request /\ h_path \in Pages(r)
        BY <1>6, <2>1
      <3>2. r.path # "400"
        BY <3>1 DEF Request
      <3>3. Html(r.path) # "400"
        BY <3>2 DEF Html
      <3> QED
        BY <3>1, <3>3 DEF Pages
    <2> QED
      BY <1>3, <2>1
  <1>8. ~ok => x.page = "400"
    BY <1>3
  <1>9. x \in Sent
    <2>1. x.page \in {"400"} \cup UNION {Pages(s) : s \in Request}
      BY <1>6, <1>7, <1>8
    <2> QED
      BY <1>3, <1>4, <2>1 DEF Sent
  <1>10. /\ answers' \in Seq(Sent) /\ Len(answers') = k
         /\ \A i \in 1..Len(answers) : answers'[i] = answers[i]
         /\ answers'[k] = x
    BY <1>4, <1>9, AppendProperties
  <1>11. Answered'
    <2>1. ASSUME NEW i \in DOMAIN answers'
          PROVE  IF answers'[i].page = "400" THEN i = Len(answers') /\ ~answers'[i].kept /\ pc' = "closed"
                 ELSE /\ i <= Len(convo')
                      /\ answers'[i].page \in Pages(convo'[i])
                      /\ answers'[i].kept => convo'[i].keep
      <3>1. i \in 1..k
        BY <1>10, LenProperties
      <3>2. CASE i = k
        <4>1. CASE ok
          BY <1>1, <1>3, <1>6, <1>7, <1>10, <3>2, <4>1
        <4>2. CASE ~ok
          BY <1>1, <1>4, <1>6, <1>8, <1>10, <3>2, <4>2
        <4> QED
          BY <4>1, <4>2
      <3>3. CASE i # k
        <4>1. i \in 1..Len(answers)
          BY <1>4, <3>1, <3>3
        <4>2. answers'[i] = answers[i] /\ i \in DOMAIN answers
          BY <1>4, <1>10, <4>1, LenProperties
        <4> QED
          BY <1>1, <1>5, <4>2 DEF Answered
      <3> QED
        BY <3>2, <3>3
    <2> QED
      BY <1>10, <2>1 DEF Answered
  <1>12. pc' = "process" => Follows(taken, Due)'
    <2>1. ASSUME pc' = "process" PROVE Follows(taken, Due)'
      <3>1. Follows(taken, k + 1)
        BY <1>1, <1>4, <1>6, <2>1
      <3>2. Due' = k + 1
        BY <1>10 DEF Due
      <3> QED
        BY <1>1, <1>2, <3>1, <3>2 DEF Follows, OnAt, LostAt
    <2> QED
      BY <2>1
  <1>13. IsWhole'
    BY <1>1 DEF IsWhole, WholeIsParsed
  <1>14. DOMAIN h_header' = Names /\ pc' \in {"process", "closed"}
    BY <1>1 DEF PInv, request
  <1> QED
    BY <1>11, <1>12, <1>13, <1>14 DEF PInv

\* What it takes for the invariant to hold after a line, if Parse goes on,
GoesOn ==
    /\ h_state' \in {"HEADERS", "BODY"}
    /\ h_state' = "HEADERS" => AtHeaders'
    /\ h_state' = "BODY" => AtBody'

\* and if it returns when n more symbols have been taken.
Returns(n) ==
    /\ Due <= Len(convo)
    /\ h_path' \in Pages(convo[Due])
    /\ IsKeepAlive' => convo[Due].keep /\ Follows(taken + n, Due + 1)
    /\ whole => /\ h_method' = convo[Due].method
                /\ convo[Due].form # <<>> =>
                     /\ h_post' = convo[Due].form
                     /\ h_path' \notin {"/login.html", "/register.html"}
                /\ IsKeepAlive' = convo[Due].keep
                /\ n = ReadableBytes(h_readBuff)

\* A step of Parse keeps the invariant if it goes on or returns as said.
LEMMA AfterLine ==
    ASSUME IInv, PInv, pc = "parse",
           NEW n \in 0..ReadableBytes(h_readBuff), NEW goOn, Consume(n, goOn),
           DOMAIN h_header' = Names,
           goOn /\ ReadableBytes(h_readBuff) > n => GoesOn,
           ~(goOn /\ ReadableBytes(h_readBuff) > n) => Returns(n)
    PROVE  PInv'
  <1>1. /\ ReadableBytes(h_readBuff') = ReadableBytes(h_readBuff) - n
        /\ taken' = taken + n
        /\ pc' = IF goOn /\ ReadableBytes(h_readBuff) > n THEN "parse" ELSE "answer"
        /\ ok' = TRUE
        /\ UNCHANGED <<convo, whole, answers>>
    BY AfterConsume
  <1>2. UNCHANGED Stream /\ UNCHANGED Ends /\ UNCHANGED Due
    BY <1>1, StreamStays DEF Due
  <1>3. PICK m : m = ReadableBytes(h_readBuff)
    OBVIOUS
  <1>4. m \in Nat /\ n \in Nat /\ n <= m /\ taken \in Nat
    BY <1>3, FrontOfStream
  <1>5. Answered'
    BY <1>1 DEF PInv, Answered
  <1>6. CASE goOn /\ m > n
    <2>1. /\ pc' = "parse" /\ ReadableBytes(h_readBuff') > 0
          /\ h_state' \in {"HEADERS", "BODY"}
          /\ h_state' = "HEADERS" => AtHeaders'
          /\ h_state' = "BODY" => AtBody'
      BY <1>1, <1>3, <1>4, <1>6 DEF GoesOn
    <2>2. IsWhole'
      <3>1. whole' => Due <= Len(convo) /\ taken + m = Ends[Due]
        BY <1>1, <1>3 DEF PInv, IsWhole
      <3>2. taken' + ReadableBytes(h_readBuff') = taken + m
        BY <1>1, <1>3, <1>4
      <3> QED
        BY <1>1, <1>2, <2>1, <3>1, <3>2 DEF IsWhole, WholeIsParsed
    <2> QED
      BY <1>5, <2>1, <2>2 DEF PInv
  <1>7. CASE ~(goOn /\ m > n)
    <2>1. pc' = "answer"
      BY <1>1, <1>3, <1>7
    <2>2. AtAnswer'
      BY <1>1, <1>2, <1>3, <1>7 DEF Returns, AtAnswer, Follows, OnAt, LostAt
    <2>3. IsWhole'
      <3>1. whole' => /\ h_method' = convo[Due].method
                      /\ h_path' \in Pages(convo[Due])
                      /\ convo[Due].form # <<>> =>
                              /\ h_post' = convo[Due].form
                              /\ h_path' \notin {"/login.html", "/register.html"}
                      /\ IsKeepAlive' = convo[Due].keep
                      /\ ReadableBytes(h_readBuff') = 0
        BY <1>1, <1>3, <1>4, <1>7 DEF Returns
      <3>2. UNCHANGED convo[Due]
        BY <1>1, <1>2
      <3>3. WholeIsParsed'
        BY <1>1, <3>1, <3>2 DEF WholeIsParsed
      <3> QED
        BY <2>1, <3>3 DEF IsWhole
    <2> QED
      BY <1>5, <2>1, <2>2, <2>3 DEF PInv
  <1> QED
    BY <1>3, <1>6, <1>7

\* A line without a path in it, and Parse is lost in front of it.
LEMMA LineIsLost ==
    ASSUME NEW x \in Nat, NEW n \in Nat, Len(Stream) \in Nat,
           \A i \in 1..n : Stream[x + i].kind # "HTTP/",
           Stream[x + n + 1] = CR, Stream[x + n + 2] = LF
    PROVE  LostAt(x)
  <1>1. SUFFICES ASSUME NEW i \in (x + 1)..Len(Stream), Stream[i].kind = "HTTP/"
                 PROVE  \E j \in (x + 1)..(i - 2) : Stream[j] = CR /\ Stream[j + 1] = LF
    BY DEF LostAt
  <1>2. i \in Nat /\ i >= x + 1
    OBVIOUS
  <1>3. ~(i <= x + n)
    <2>1. SUFFICES ASSUME i <= x + n PROVE FALSE
      OBVIOUS
    <2>2. i - x \in 1..n /\ x + (i - x) = i
      BY <1>2, <2>1
    <2> QED
      BY <1>1, <2>2
  <1>4. i # x + n + 1 /\ i # x + n + 2
    BY <1>1, KindOf
  <1>5. x + n + 1 \in (x + 1)..(i - 2) /\ x + n + 1 + 1 = x + n + 2
    BY <1>2, <1>3, <1>4
  <1> QED
    BY <1>5

\* Where Parse is lost, it finds no path in its line.
LEMMA LostHasNoPath ==
    ASSUME IInv, LostAt(taken), NEW i \in 1..LineEnd
    PROVE  TheLine[i].kind # "HTTP/"
  <1>1. PICK t, m, q, st, l : /\ t = taken /\ m = ReadableBytes(h_readBuff)
                              /\ q = Readable(h_readBuff) /\ st = Stream /\ l = LineEnd
    OBVIOUS
  <1>2. /\ m \in Nat /\ t \in Nat /\ t + m <= Len(st) /\ Len(st) \in Nat /\ Len(q) = m
        /\ \A j \in 1..m : q[j] = st[t + j]
    BY <1>1, FrontOfStream, EndsAre DEF IInv
  <1>3. l \in Nat /\ l <= m /\ i \in 1..l /\ TheLine[i] = st[t + i]
    BY <1>1, TheLineIs
  <1>4. SUFFICES ASSUME st[t + i].kind = "HTTP/" PROVE FALSE
    BY <1>3
  <1>5. PICK j \in (t + 1)..(t + i - 2) : st[j] = CR /\ st[j + 1] = LF
    <2>1. PICK y : y = t + i
      OBVIOUS
    <2>2. y \in (t + 1)..Len(st)
      BY <1>2, <1>3, <2>1
    <2>3. LostAt(t)
      BY <1>1
    <2>4. \E j \in (t + 1)..(y - 2) : st[j] = CR /\ st[j + 1] = LF
      BY <1>1, <1>4, <2>1, <2>2, <2>3 DEF LostAt
    <2> QED
      BY <1>2, <1>3, <2>1, <2>4
  <1>6. PICK p : p = j - t - 1
    OBVIOUS
  <1>7. p \in Nat /\ p + 1 \in 1..m /\ p + 2 \in 1..m /\ p < i /\ t + (p + 1) = j /\ t + (p + 2) = j + 1
    BY <1>2, <1>3, <1>5, <1>6
  <1>8. q[p + 1] = CR /\ q[p + 2] = LF /\ p \in 0..(m - 2)
    <2>1. q[p + 1] = st[t + (p + 1)] /\ q[p + 2] = st[t + (p + 2)]
      BY <1>2, <1>7
    <2>2. p \in 0..(m - 2)
      BY <1>2, <1>7
    <2> QED
      BY <1>5, <1>7, <2>1, <2>2
  <1> DEFINE ends == {x \in 0..(Len(q) - 2) : q[x + 1] = CR /\ q[x + 2] = LF}
  <1>9. l = IF ends = {} THEN m ELSE Min(ends)
    BY <1>1, <1>2 DEF LineEnd
  <1>10. p \in ends /\ ends \subseteq Nat
    BY <1>2, <1>8
  <1> HIDE DEF ends
  <1>11. Min(ends) <= p /\ l = Min(ends)
    BY <1>9, <1>10, MinIsMember
  <1> QED
    BY <1>3, <1>7, <1>11

\* The line in front of a request, or of a part of it, is its request line, behind
\* what was left of a line before.
LEMMA AtStart ==
    ASSUME IInv, PInv, pc = "parse", h_state = "REQUEST_LINE", OnAt(taken, Due),
           NEW r, r = convo[Due], NEW i, i = Ends[Due - 1] + 2 - taken
    PROVE  /\ Due <= Len(convo) /\ i \in Nat /\ i >= 1
           /\ LineEnd = IF i + 3 <= ReadableBytes(h_readBuff) THEN i + 1
                        ELSE ReadableBytes(h_readBuff)
           /\ Len(TheLine) = LineEnd /\ TheLine \in Seq(Symbols) /\ LineEnd \in Nat
           /\ \A j \in 1..LineEnd : TheLine[j].kind = "HTTP/" => j = i
           /\ 2 <= i /\ i - 1 <= LineEnd => TheLine[i - 1] = Mark(r.method)
           /\ i <= LineEnd => TheLine[i] = Sym("HTTP/", r.path)
           /\ i + 1 <= LineEnd => TheLine[i + 1] = Sym("version", "1.1")
           /\ whole => i = 2 /\ 12 <= ReadableBytes(h_readBuff)
  <1>1. PICK t, m, st, q, e, l :
          /\ t = taken /\ m = ReadableBytes(h_readBuff) /\ st = Stream
          /\ q = Ends[Due - 1] /\ e = Ends[Due] /\ l = LineEnd
    OBVIOUS
  <1>2. m \in Nat /\ m > 0 /\ t \in Nat /\ t + m <= Len(st) /\ Len(st) \in Nat
    BY <1>1, FrontOfStream, EndsAre DEF PInv, IInv
  <1>3. /\ Due <= Len(convo) /\ t <= q + 1
        /\ \A j \in (t + 1)..(q + 1) : st[j].kind \notin {"HTTP/", "CR"}
    BY <1>1 DEF OnAt
  <1>4. ShapeAt(st, q, e, r) /\ r \in Request /\ 12 <= e - q /\ e \in Nat /\ q \in Nat
    BY <1>1, <1>3, DueInStream
  <1>5. i = q + 2 - t /\ i \in Nat /\ i >= 1 /\ t + i = q + 2
    <2>1. i = q + 2 - t
      BY <1>1
    <2> QED
      BY <1>2, <1>3, <1>4, <2>1
  <1>6. /\ st[q + 1] = Mark(r.method) /\ st[q + 2] = Sym("HTTP/", r.path)
        /\ st[q + 3] = Sym("version", "1.1") /\ st[q + 4] = CR /\ st[q + 5] = LF
    BY <1>4 DEF ShapeAt
  <1>7. st[q + 2] # CR /\ st[q + 3] # CR /\ st[q + 3].kind # "HTTP/" /\ st[q + 4].kind # "HTTP/"
    BY <1>6, KindOf
  <1>8. \A j \in 1..(i + 1) : st[t + j] # CR
    <2>1. ASSUME NEW j \in 1..(i + 1) PROVE st[t + j] # CR
      <3>1. t + j \in (t + 1)..(q + 1) \/ t + j = q + 2 \/ t + j = q + 3
        BY <1>2, <1>4, <1>5
      <3> QED
        BY <1>3, <1>7, <3>1, KindOf
    <2> QED
      BY <2>1
  <1>9. l = IF i + 3 <= m THEN i + 1 ELSE m
    <2>1. t + (i + 1) + 1 = q + 4 /\ t + (i + 1) + 2 = q + 5 /\ (i + 1) + 2 = i + 3 /\ i + 1 \in Nat
      BY <1>2, <1>4, <1>5
    <2>2. l = IF (i + 1) + 2 <= m THEN i + 1 ELSE m
      BY <1>1, <1>6, <1>8, <2>1, LineIsUpTo
    <2> QED
      BY <2>1, <2>2
  <1>10. /\ TheLine \in Seq(Symbols) /\ Len(TheLine) = l /\ l \in Nat
         /\ \A j \in 1..l : TheLine[j] = st[t + j]
    BY <1>1, TheLineIs
  <1>11. ASSUME NEW j \in 1..l, TheLine[j].kind = "HTTP/" PROVE j = i
    <2>0. l <= i + 2
      BY <1>2, <1>5, <1>9
    <2>1. st[t + j].kind = "HTTP/" /\ j <= i + 2
      <3>1. TheLine[j] = st[t + j]
        BY <1>10
      <3> QED
        BY <1>5, <1>10, <1>11, <2>0, <3>1
    <2>2. t + j \in (t + 1)..(q + 1) \/ t + j = q + 2 \/ t + j = q + 3 \/ t + j = q + 4
      BY <1>2, <1>4, <1>5, <1>10, <2>1
    <2>3. t + j = q + 2
      BY <1>3, <1>7, <2>1, <2>2
    <2> QED
      BY <1>2, <1>4, <1>5, <1>10, <2>3
  <1>12. /\ 2 <= i /\ i - 1 <= l => TheLine[i - 1] = Mark(r.method)
         /\ i <= l => TheLine[i] = Sym("HTTP/", r.path)
         /\ i + 1 <= l => TheLine[i + 1] = Sym("version", "1.1")
    <2>0. l \in Nat /\ i \in Nat /\ i >= 1 /\ t \in Nat /\ q \in Nat /\ t + i = q + 2
      BY <1>2, <1>4, <1>5, <1>10
    <2>1. 2 <= i /\ i - 1 <= l => i - 1 \in 1..l /\ t + (i - 1) = q + 1
      BY <2>0
    <2>2. i <= l => i \in 1..l /\ t + i = q + 2
      BY <2>0
    <2>3. i + 1 <= l => i + 1 \in 1..l /\ t + (i + 1) = q + 3
      BY <2>0
    <2> QED
      BY <1>6, <1>10, <2>1, <2>2, <2>3
  <1>13. whole => i = 2 /\ 12 <= m
    <2>1. whole => t + m = e /\ t = q
      BY <1>1 DEF PInv, IsWhole, AtRequestLine
    <2> QED
      BY <1>2, <1>4, <1>5, <2>1
  <1> QED
    BY <1>1, <1>3, <1>5, <1>9, <1>10, <1>11, <1>12, <1>13

\* One element of a sequence.
LEMMA OneOf ==
    ASSUME NEW S, NEW s \in Seq(S), NEW i \in 1..Len(s)
    PROVE  SubSeq(s, i, i) = <<s[i]>>
  <1>1. PICK u : u = SubSeq(s, i, i)
    OBVIOUS
  <1>2. s[i] \in S /\ i \in Int
    BY LenProperties, ElementOfSeq
  <1>3. u \in Seq(S) /\ Len(u) = 1 /\ u[1] = s[i]
    <2>1. \A j \in i..i : s[j] \in S
      BY <1>2
    <2>2. /\ u \in Seq(S) /\ Len(u) = IF i <= i THEN i - i + 1 ELSE 0
          /\ \A j \in 1..(i - i + 1) : u[j] = s[i + j - 1]
      BY <1>1, <1>2, <2>1, SubSeqProperties
    <2>3. i - i + 1 = 1 /\ i + 1 - 1 = i /\ 1 \in 1..1
      BY <1>2
    <2> QED
      BY <2>2, <2>3
  <1>4. <<s[i]>> \in Seq(S) /\ Len(<<s[i]>>) = 1 /\ <<s[i]>>[1] = s[i]
    BY <1>2
  <1>5. \A j \in 1..Len(u) : u[j] = <<s[i]>>[j]
    BY <1>3
  <1> QED
    BY <1>1, <1>3, <1>4, <1>5, SeqEqual

\* A request that is alone and whole does not begin with a bad line.
LEMMA BadHolds ==
    ASSUME IInv, PInv, BadRequestLine
    PROVE  PInv'
  <1>1. /\ UNCHANGED <<convo, taken, answers, h_readBuff, request, whole>>
        /\ pc = "parse" /\ h_state = "REQUEST_LINE"
        /\ pc' = "answer" /\ ok' = FALSE
    BY DEF BadRequestLine
  <1>2. h_header = [name \in Names |-> <<>>] /\ h_header' = h_header
    BY <1>1 DEF PInv, AtRequestLine, request
  <1>3. Answered'
    BY <1>1 DEF PInv, Answered
  <1>4. AtAnswer'
    BY <1>1, <1>2 DEF AtAnswer, Names
  <1>5. ~whole
    <2>1. SUFFICES ASSUME whole PROVE IsRequestLine(TheLine)
      BY DEF BadRequestLine
    <2>2. PICK r, q, t : r = convo[Due] /\ q = Ends[Due - 1] /\ t = taken
      OBVIOUS
    <2>3. Due <= Len(convo) /\ t = q
      BY <1>1, <2>1, <2>2 DEF PInv, AtRequestLine
    <2>4. r \in Request /\ q \in Nat /\ ShapeAt(Stream, q, Ends[Due], r)
      BY <2>2, <2>3, DueInStream
    <2>5. OnAt(taken, Due)
      <3>1. Stream[q + 1].kind = r.method /\ r.method \in {"GET", "POST"}
        BY <2>4, KindOf DEF ShapeAt, Request
      <3>2. t <= q + 1 /\ \A j \in (t + 1)..(q + 1) : j = q + 1
        BY <2>3, <2>4
      <3>3. \A j \in (t + 1)..(q + 1) : Stream[j].kind \notin {"HTTP/", "CR"}
        BY <3>1, <3>2
      <3> QED
        BY <2>2, <2>3, <3>2, <3>3 DEF OnAt
    <2>6. PICK i : i = Ends[Due - 1] + 2 - taken
      OBVIOUS
    <2>7. PICK m, l : m = ReadableBytes(h_readBuff) /\ l = LineEnd
      OBVIOUS
    <2>8. /\ i = 2 /\ 12 <= m
          /\ l = IF i + 3 <= m THEN i + 1 ELSE m
          /\ Len(TheLine) = l /\ TheLine \in Seq(Symbols)
          /\ 2 <= i /\ i - 1 <= l => TheLine[i - 1] = Mark(r.method)
          /\ i <= l => TheLine[i] = Sym("HTTP/", r.path)
          /\ i + 1 <= l => TheLine[i + 1] = Sym("version", "1.1")
          /\ m \in Nat
      BY <1>1, <2>1, <2>2, <2>5, <2>6, <2>7, AtStart, FrontOfStream
    <2>9. l = 3 /\ TheLine[1] = Mark(r.method) /\ TheLine[2] = Sym("HTTP/", r.path)
          /\ TheLine[3] = Sym("version", "1.1")
      BY <2>8
    <2>10. /\ TheLine[1].kind \in {"GET", "POST"} /\ TheLine[2].kind = "HTTP/"
           /\ TheLine[3].kind = "version" /\ DOMAIN TheLine = 1..3
      BY <2>4, <2>8, <2>9, KindOf, LenProperties DEF Request
    <2>11. \A j \in (1..3) \ {2} : TheLine[j].kind \notin {"HTTP/", ":"}
      BY <2>10
    <2> QED
      BY <2>10, <2>11 DEF IsRequestLine
  <1>6. IsWhole'
    BY <1>1, <1>5 DEF IsWhole, WholeIsParsed
  <1> QED
    BY <1>1, <1>2, <1>3, <1>4, <1>6 DEF PInv

\* The first n elements.
LEMMA FrontIs ==
    ASSUME NEW s, s \in Seq(Symbols), NEW n \in Nat, n <= Len(s), NEW u, u = SubSeq(s, 1, n)
    PROVE  u \in Seq(Symbols) /\ Len(u) = n /\ \A j \in 1..n : u[j] = s[j]
  <1>1. 1 \in Int /\ n \in Int /\ \A j \in 1..n : s[j] \in Symbols
    BY LenProperties, ElementOfSeq
  <1>2. /\ u \in Seq(Symbols) /\ Len(u) = IF 1 <= n THEN n - 1 + 1 ELSE 0
        /\ \A j \in 1..(n - 1 + 1) : u[j] = s[1 + j - 1]
    BY <1>1, SubSeqProperties
  <1>3. n - 1 + 1 = n /\ \A j \in 1..n : 1 + j - 1 = j
    OBVIOUS
  <1> QED
    BY <1>2, <1>3

\* What stands in front of the path of request r is its method or none.
LEMMA MethodIs ==
    ASSUME NEW r \in Request, NEW s, s \in Seq(Symbols), NEW i \in Nat, i >= 1, i <= Len(s),
           2 <= i => s[i - 1] = Mark(r.method)
    PROVE  /\ Method(SubSeq(s, 1, i - 1)) \in {r.method, "other"}
           /\ i = 2 => Method(SubSeq(s, 1, i - 1)) = r.method
  <1>1. PICK n, u : n = i - 1 /\ u = SubSeq(s, 1, n)
    OBVIOUS
  <1>2. n \in Nat /\ n <= Len(s) /\ (n >= 1 => s[n] = Mark(r.method))
    BY <1>1, LenProperties
  <1>3. u \in Seq(Symbols) /\ Len(u) = n /\ \A j \in 1..n : u[j] = s[j]
    BY <1>1, <1>2, FrontIs
  <1>4. r.method \in {"GET", "POST"}
    BY DEF Request
  <1>5. ASSUME NEW x, u = <<Mark(x)>> PROVE r.method = x
    <2>1. n = 1 /\ u[1] = Mark(x)
      BY <1>3, <1>5
    <2>2. Mark(x) = Mark(r.method)
      BY <1>2, <1>3, <2>1
    <2> QED
      BY <2>2, KindOf
  <1>6. ASSUME i = 2 PROVE u = <<Mark(r.method)>>
    <2>1. n = 1 /\ u[1] = Mark(r.method)
      BY <1>1, <1>2, <1>3, <1>6
    <2>2. Mark(r.method) \in Symbols
      BY <1>4, SymIsSymbol DEF Kinds
    <2>3. <<Mark(r.method)>> \in Seq(Symbols) /\ Len(<<Mark(r.method)>>) = 1
      BY <2>2
    <2>4. \A j \in 1..Len(u) : u[j] = <<Mark(r.method)>>[j]
      BY <1>3, <2>1
    <2> QED
      BY <1>3, <2>1, <2>3, <2>4, SeqEqual
  <1>7. Mark("GET") # Mark("POST")
    BY KindOf
  <1>8. Method(u) \in {r.method, "other"}
    BY <1>4, <1>5, Zenon DEF Method
  <1>9. i = 2 => Method(u) = r.method
    <2>1. <<Mark("GET")>> # <<Mark("POST")>>
      BY <1>7
    <2>2. CASE r.method = "GET"
      <3>1. i = 2 => u = <<Mark("GET")>>
        BY <1>6, <2>2
      <3> QED
        BY <2>1, <2>2, <3>1, Zenon DEF Method
    <2>3. CASE r.method = "POST"
      <3>1. i = 2 => u = <<Mark("POST")>>
        BY <1>6, <2>3
      <3> QED
        BY <2>1, <2>3, <3>1, Zenon DEF Method
    <2> QED
      BY <1>4, <2>2, <2>3
  <1> QED
    BY <1>1, <1>8, <1>9

\* A request line goes with its CRLF, or stays, and it is that of the request that is due.
LEMMA RequestLineHolds ==
    ASSUME IInv, PInv, ParseRequestLine
    PROVE  PInv'
  <1>1. /\ pc = "parse" /\ h_state = "REQUEST_LINE"
        /\ IsRequestLine(TheLine)
        /\ h_state' = "HEADERS"
        /\ h_method' = Method(SubSeq(TheLine, 1, PathIn(TheLine) - 1))
        /\ h_path' = Html(TheLine[PathIn(TheLine)].text)
        /\ h_version' = SubSeq(TheLine, PathIn(TheLine) + 1, Len(TheLine))
        /\ UNCHANGED <<h_header, h_post>>
        /\ EndOfLine
    BY DEF ParseRequestLine
  <1>2. AtRequestLine
    BY <1>1 DEF PInv
  <1>3. PICK m, r, l, i : /\ m = ReadableBytes(h_readBuff) /\ r = convo[Due] /\ l = LineEnd
                          /\ i = Ends[Due - 1] + 2 - taken
    OBVIOUS
  <1>4. PICK p \in DOMAIN TheLine : TheLine[p].kind = "HTTP/"
    BY <1>1 DEF IsRequestLine
  <1>5. p \in 1..l
    BY <1>3, <1>4, TheLineIs, LenProperties
  <1>6. OnAt(taken, Due)
    <2>1. ~LostAt(taken)
      BY <1>3, <1>4, <1>5, LostHasNoPath
    <2> QED
      BY <1>2, <2>1 DEF AtRequestLine, Follows
  <1>7. /\ Due <= Len(convo) /\ i \in Nat /\ i >= 1
        /\ l = IF i + 3 <= m THEN i + 1 ELSE m
        /\ Len(TheLine) = l /\ TheLine \in Seq(Symbols) /\ l \in Nat
        /\ \A j \in 1..l : TheLine[j].kind = "HTTP/" => j = i
        /\ 2 <= i /\ i - 1 <= l => TheLine[i - 1] = Mark(r.method)
        /\ i <= l => TheLine[i] = Sym("HTTP/", r.path)
        /\ i + 1 <= l => TheLine[i + 1] = Sym("version", "1.1")
        /\ whole => i = 2 /\ 12 <= m
    BY <1>1, <1>3, <1>6, AtStart
  <1>8. i \in 1..l /\ TheLine[i].kind = "HTTP/"
    BY <1>4, <1>5, <1>7
  <1>9. PathIn(TheLine) = i
    <2>1. DOMAIN TheLine = 1..l
      BY <1>7, LenProperties
    <2> QED
      BY <1>7, <1>8, <2>1 DEF PathIn
  <1>10. r \in Request /\ Ends[Due - 1] \in Nat /\ taken \in Nat /\ taken + i = Ends[Due - 1] + 2
    <2>1. r \in Request /\ Ends[Due - 1] \in Nat /\ taken \in Nat
      BY <1>3, <1>7, DueInStream, FrontOfStream
    <2> QED
      BY <1>3, <2>1
  <1>11. /\ h_method' \in {r.method, "other"} /\ (whole => h_method' = r.method)
         /\ h_path' = Html(r.path)
    <2>1. /\ Method(SubSeq(TheLine, 1, i - 1)) \in {r.method, "other"}
          /\ i = 2 => Method(SubSeq(TheLine, 1, i - 1)) = r.method
      <3>0. i \in 1..l /\ l \in Nat /\ Len(TheLine) = l
        BY <1>7, <1>8
      <3>1. i <= Len(TheLine) /\ i - 1 <= l
        BY <3>0
      <3>2. 2 <= i => TheLine[i - 1] = Mark(r.method)
        BY <1>7, <3>1
      <3> QED
        BY <1>7, <1>10, <3>1, <3>2, MethodIs
    <2>2. TheLine[i].text = r.path
      BY <1>7, <1>8, KindOf
    <2> QED
      BY <1>1, <1>7, <1>9, <2>1, <2>2
  <1>12. h_header' = [name \in Names |-> <<>>] /\ DOMAIN h_header' = Names
    BY <1>1, <1>2 DEF AtRequestLine
  <1>13. ~IsKeepAlive'
    <2>1. h_header'["Connection"] = <<>>
      BY <1>12 DEF Names
    <2> QED
      BY <2>1 DEF IsKeepAlive
  <1>14. h_path' \in Pages(r)
    BY <1>11 DEF Pages
  <1>15. m \in Nat /\ m > 0
    BY <1>1, <1>3, FrontOfStream DEF PInv
  <1>16. CASE i + 3 <= m
    <2>1. l = i + 1 /\ l # m
      BY <1>7, <1>15, <1>16
    <2>2. Consume(i + 3, TRUE)
      <3>1. Consume(l + 2, h_state' # "FINISH")
        BY <1>1, <1>3, <2>1 DEF EndOfLine
      <3>2. l + 2 = i + 3 /\ (h_state' # "FINISH") = TRUE
        BY <1>1, <1>7, <2>1
      <3> QED
        BY <3>1, <3>2
    <2>3. i + 3 \in 0..m
      BY <1>7, <1>15, <1>16
    <2>4. AtHeaders'
      <3>1. h_version' = <<Sym("version", "1.1")>>
        <4>1. h_version' = SubSeq(TheLine, l, l) /\ TheLine[l] = Sym("version", "1.1")
          <5>0. l \in Nat /\ i + 1 = l /\ Len(TheLine) = l
            BY <1>7, <2>1
          <5>1. i + 1 <= l
            BY <5>0
          <5>2. TheLine[i + 1] = Sym("version", "1.1")
            BY <1>7, <5>1
          <5>3. h_version' = SubSeq(TheLine, i + 1, Len(TheLine))
            BY <1>1, <1>9
          <5> QED
            BY <5>0, <5>2, <5>3
        <4>2. SubSeq(TheLine, l, l) = <<TheLine[l]>>
          <5>1. l \in 1..Len(TheLine)
            BY <1>7, <2>1
          <5> QED
            BY <1>7, <5>1, OneOf
        <4> QED
          BY <4>1, <4>2
      <3>2. HeaderAt(r, 1) = [name \in Names |-> <<>>]
        <4>1. ~(1 > 2) /\ ~(1 > Lines(r))
          BY <1>10, LinesAre
        <4> QED
          BY <4>1 DEF HeaderAt
      <3>3. taken' = taken + (i + 3) /\ UNCHANGED <<convo, answers, whole>>
        BY <1>3, <2>2, <2>3, AfterConsume
      <3>4. UNCHANGED Ends /\ UNCHANGED Due
        BY <3>3, StreamStays DEF Due
      <3>5. taken' = Ends'[Due' - 1] + 5 * 1
        <4>1. taken + (i + 3) = Ends[Due - 1] + 5
          BY <1>7, <1>10
        <4> QED
          BY <3>3, <3>4, <4>1
      <3>6. convo'[Due'] = r
        BY <1>3, <3>3, <3>4
      <3>7. Knows(r, 1)'
        BY <1>11, <1>12, <3>1, <3>2, <3>3, <3>4, <1>3 DEF Knows, HeaderAt
      <3>8. 1 \in 1..(Lines(r) + 1)
        BY <1>10, LinesAre
      <3> QED
        BY <1>7, <3>3, <3>4, <3>5, <3>6, <3>7, <3>8 DEF AtHeaders
    <2>5. GoesOn
      BY <1>1, <2>4 DEF GoesOn
    <2>6. ~(TRUE /\ m > i + 3) => Returns(i + 3)
      <3>1. ~(TRUE /\ m > i + 3) => ~whole
        BY <1>7, <1>15
      <3> QED
        BY <1>3, <1>7, <1>13, <1>14, <3>1 DEF Returns
    <2> QED
      BY <1>1, <1>3, <1>12, <2>2, <2>3, <2>5, <2>6, AfterLine
  <1>17. CASE ~(i + 3 <= m)
    <2>1. l = m
      BY <1>7, <1>17
    <2>2. Consume(0, FALSE)
      BY <1>1, <1>3, <2>1 DEF EndOfLine
    <2>3. 0 \in 0..m
      BY <1>15
    <2>4. ~whole
      BY <1>7, <1>15, <1>17
    <2>5. Returns(0)
      BY <1>3, <1>7, <1>13, <1>14, <2>4 DEF Returns
    <2> QED
      BY <1>1, <1>3, <1>12, <2>2, <2>3, <2>5, AfterLine
  <1> QED
    BY <1>16, <1>17

\* A header line is one, and names the field that it sets.
LEMMA HeaderLineSeen ==
    ASSUME NEW s, s \in Seq(Symbols), Len(s) = 3, NEW n,
           s[1] = Sym("name", n), s[2] = Mark(":"), s[3].kind = "value"
    PROVE  /\ IsHeader(s)
           /\ Header(s) = IF n \in DOMAIN h_header THEN [h_header EXCEPT ![n] = <<s[3]>>] ELSE h_header
  <1>1. s[1].kind = "name" /\ s[1].text = n /\ s[2].kind = ":"
    BY KindOf
  <1>2. DOMAIN s = 1..3 /\ 3 \in 1..3
    BY LenProperties
  <1>3. {i \in DOMAIN s : s[i].kind = ":"} = {2}
    <2>1. \A i \in 1..3 : s[i].kind = ":" <=> i = 2
      BY <1>1
    <2> QED
      BY <1>2, <2>1
  <1>4. Min({2}) = 2
    <2>1. {2} \subseteq Nat /\ {2} # {}
      OBVIOUS
    <2>2. Min({2}) \in {2}
      BY <2>1, MinIsMember
    <2> QED
      BY <2>2
  <1>5. Colon(s) = 2
    BY <1>3, <1>4 DEF Colon
  <1>6. ":" \in KindsOf(s)
    BY <1>1, <1>2 DEF KindsOf
  <1>7. KindsOf(SubSeq(s, 2, 3)) \cap {"CR", "LF"} = {}
    <2>1. PICK u : u = SubSeq(s, 2, 3)
      OBVIOUS
    <2>2. u \in Seq(Symbols) /\ Len(u) = 2 /\ u[1] = s[2] /\ u[2] = s[3]
      <3>1. \A j \in 2..3 : s[j] \in Symbols
        BY <1>2, ElementOfSeq
      <3>2. /\ u \in Seq(Symbols) /\ Len(u) = IF 2 <= 3 THEN 3 - 2 + 1 ELSE 0
            /\ \A j \in 1..(3 - 2 + 1) : u[j] = s[2 + j - 1]
        BY <2>1, <3>1, SubSeqProperties
      <3>3. u[1] = s[2 + 1 - 1] /\ u[2] = s[2 + 2 - 1]
        BY <3>2
      <3> QED
        BY <3>2, <3>3
    <2>3. DOMAIN u = 1..2
      BY <2>2, LenProperties
    <2>4. KindsOf(u) = {":", "value"}
      BY <1>1, <2>2, <2>3 DEF KindsOf
    <2> QED
      BY <2>1, <2>4
  <1>8. IsHeader(s)
    BY <1>5, <1>6, <1>7 DEF IsHeader
  <1>9. SubSeq(s, 3, Len(s)) = <<s[3]>>
    BY <1>2, OneOf
  <1> QED
    BY <1>1, <1>5, <1>8, <1>9 DEF Header

\* What Parse knows before the next header line.
LEMMA HeaderAtNext ==
    ASSUME NEW r \in Request, NEW j \in 1..Lines(r)
    PROVE  /\ DOMAIN HeaderAt(r, j) = Names
           /\ HeaderAt(r, j + 1) =
                IF Name(r, j) \in Names THEN [HeaderAt(r, j) EXCEPT ![Name(r, j)] = <<Value(r, j)>>]
                ELSE HeaderAt(r, j)
  <1>1. Lines(r) \in 1..3 /\ j \in Nat /\ r.keep \in BOOLEAN
    BY LinesAre DEF Request
  <1>2. DOMAIN HeaderAt(r, j) = Names /\ DOMAIN HeaderAt(r, j + 1) = Names
    BY DEF HeaderAt
  <1>3. /\ HeaderAt(r, j)["Connection"] = IF r.keep /\ j > 2 THEN <<KeepAlive>> ELSE <<>>
        /\ HeaderAt(r, j)["Content-Type"] = IF r.form # <<>> /\ j > Lines(r) THEN <<UrlEncoded>> ELSE <<>>
        /\ HeaderAt(r, j + 1)["Connection"] = IF r.keep /\ j + 1 > 2 THEN <<KeepAlive>> ELSE <<>>
        /\ HeaderAt(r, j + 1)["Content-Type"] =
             IF r.form # <<>> /\ j + 1 > Lines(r) THEN <<UrlEncoded>> ELSE <<>>
    BY DEF HeaderAt, Names
  <1>4. CASE j = 1
    <2>1. Name(r, j) = "Host" /\ "Host" \notin Names
      BY <1>4 DEF Name, Names
    <2>2. /\ HeaderAt(r, j + 1)["Connection"] = HeaderAt(r, j)["Connection"]
          /\ HeaderAt(r, j + 1)["Content-Type"] = HeaderAt(r, j)["Content-Type"]
      <3>1. r.form # <<>> => ~(j + 1 > Lines(r)) /\ ~(j > Lines(r))
        BY <1>1, <1>4, LinesAre
      <3>2. ~(j + 1 > 2) /\ ~(j > 2)
        BY <1>4
      <3> QED
        BY <1>3, <3>1, <3>2
    <2>3. HeaderAt(r, j + 1) = HeaderAt(r, j)
      BY <2>2 DEF HeaderAt, Names
    <2> QED
      BY <1>2, <2>1, <2>3
  <1>5. CASE j # 1 /\ j = 2 /\ r.keep
    <2>1. Name(r, j) = "Connection" /\ Value(r, j) = KeepAlive
      BY <1>5 DEF Name, Value
    <2>2. /\ HeaderAt(r, j + 1)["Connection"] = <<KeepAlive>>
          /\ HeaderAt(r, j + 1)["Content-Type"] = HeaderAt(r, j)["Content-Type"]
      <3>1. r.form # <<>> => ~(j + 1 > Lines(r)) /\ ~(j > Lines(r))
        BY <1>1, <1>5, LinesAre
      <3>2. j + 1 > 2
        BY <1>5
      <3> QED
        BY <1>3, <1>5, <3>1, <3>2
    <2> QED
      BY <1>2, <2>1, <2>2 DEF HeaderAt, Names
  <1>6. CASE j # 1 /\ ~(j = 2 /\ r.keep)
    <2>1. Name(r, j) = "Content-Type" /\ Value(r, j) = UrlEncoded
      BY <1>6 DEF Name, Value
    <2>2. j = Lines(r) /\ r.form # <<>>
      BY <1>1, <1>6 DEF Lines
    <2>3. /\ HeaderAt(r, j + 1)["Content-Type"] = <<UrlEncoded>>
          /\ HeaderAt(r, j + 1)["Connection"] = HeaderAt(r, j)["Connection"]
      <3>1. j + 1 > Lines(r)
        BY <1>1, <2>2
      <3>2. r.keep => j > 2 /\ j + 1 > 2
        BY <1>1, <1>6, <2>2
      <3> QED
        BY <1>3, <2>2, <3>1, <3>2
    <2> QED
      BY <1>2, <2>1, <2>3 DEF HeaderAt, Names
  <1> QED
    BY <1>4, <1>5, <1>6

\* The form of a request, in parts.
LEMMA BodyParts ==
    ASSUME NEW r \in Request, r.form # <<>>
    PROVE  /\ Body(r) \in Seq(Symbols) /\ Len(r.form[1]) \in Nat /\ Len(r.form[2]) \in Nat
           /\ Len(Body(r)) = 2 + Len(r.form[1]) + Len(r.form[2])
           /\ Body(r)[1] = Mark("username=")
           /\ Part(Body(r), 1, r.form[1])
           /\ Body(r)[2 + Len(r.form[1])] = Mark("&password=")
           /\ Part(Body(r), 2 + Len(r.form[1]), r.form[2])
           /\ r.form[1] \in Text /\ r.form[2] \in Text
  <1>1. PICK a, c, u, p : /\ a = r.form[1] /\ c = r.form[2]
                          /\ u = <<Mark("username=")>> /\ p = <<Mark("&password=")>>
    OBVIOUS
  <1>2. /\ a \in Text /\ c \in Text /\ a \in Seq(Symbols) /\ c \in Seq(Symbols)
        /\ Body(r) \in Seq(Symbols)
    BY <1>1, BodyIsSymbols
  <1>3. /\ u \in Seq(Symbols) /\ Len(u) = 1 /\ u[1] = Mark("username=")
        /\ p \in Seq(Symbols) /\ Len(p) = 1 /\ p[1] = Mark("&password=")
    <2>1. Mark("username=") \in Symbols /\ Mark("&password=") \in Symbols
      BY SymIsSymbol DEF Kinds
    <2> QED
      BY <1>1, <2>1
  <1>4. <<>> \in Seq(Symbols) /\ Len(<<>>) = 0
    BY EmptySeq
  <1>5. Body(r) = u \o a \o p \o c \o <<>> \o <<>>
    <2>1. Body(r) = u \o a \o p \o c
      BY <1>1 DEF Body
    <2>2. Body(r) \o <<>> = Body(r)
      BY <1>2, ConcatEmptySeq
    <2> QED
      BY <2>1, <2>2
  <1>6. IsSix(Body(r), u, a, p, c, <<>>, <<>>)
    <2>1. IsSix(u \o a \o p \o c \o <<>> \o <<>>, u, a, p, c, <<>>, <<>>)
      <3>1. PICK z : z = <<>>
        OBVIOUS
      <3>2. u \in Seq(Symbols) /\ p \in Seq(Symbols) /\ z \in Seq(Symbols)
        BY <1>3, <1>4, <3>1
      <3>3. IsSix(u \o a \o p \o c \o z \o z, u, a, p, c, z, z)
        BY <1>2, <3>2, PartsOfSix, Zenon
      <3> QED
        BY <3>1, <3>3
    <2> QED
      BY <1>5, <2>1
  <1>7. PICK b, n, m : b = Body(r) /\ n = Len(a) /\ m = Len(c)
    OBVIOUS
  <1>8. n \in Nat /\ m \in Nat
    BY <1>2, <1>7, LenProperties
  <1>9. /\ Part(b, 0, u) /\ Part(b, Len(u), a) /\ Part(b, Len(u) + Len(a), p)
        /\ Part(b, Len(u) + Len(a) + Len(p), c)
        /\ Len(b) = Len(u) + Len(a) + Len(p) + Len(c) + Len(<<>>) + Len(<<>>)
    BY <1>6, <1>7, Zenon DEF IsSix
  <1>10. /\ Len(u) + Len(a) = 1 + n /\ Len(u) + Len(a) + Len(p) = 2 + n
         /\ Len(u) + Len(a) + Len(p) + Len(c) + Len(<<>>) + Len(<<>>) = 2 + n + m
    BY <1>3, <1>4, <1>7, <1>8
  <1>11. /\ Part(b, 0, u) /\ Part(b, 1, a) /\ Part(b, 1 + n, p) /\ Part(b, 2 + n, c)
         /\ Len(b) = 2 + n + m
    BY <1>3, <1>9, <1>10, Zenon
  <1>12. b[0 + 1] = u[1] /\ b[1 + n + 1] = p[1]
    BY <1>3, <1>11 DEF Part
  <1>13. 0 + 1 = 1 /\ 1 + n + 1 = 2 + n
    BY <1>8
  <1> QED
    BY <1>1, <1>2, <1>3, <1>7, <1>8, <1>11, <1>12, <1>13

\* Parse at header line j of request r: what it has learnt is what follows from the lines
\* before it, and what it sees is the line, or the part of it that has arrived.
LEMMA HeaderLineHolds ==
    ASSUME IInv, PInv, ParseHeader,
           NEW r, r = convo[Due], Due <= Len(convo), NEW j, j \in 1..Lines(r),
           taken = Ends[Due - 1] + 5 * j, Knows(r, j)
    PROVE  PInv'
  <1>1. /\ pc = "parse" /\ h_state = "HEADERS"
        /\ h_header' = IF IsHeader(TheLine) THEN Header(TheLine) ELSE h_header
        /\ h_state' = IF AtMostCRLF THEN "FINISH"
                      ELSE IF IsHeader(TheLine) THEN "HEADERS" ELSE "BODY"
        /\ UNCHANGED <<h_method, h_path, h_version, h_post>>
        /\ EndOfLine
    BY DEF ParseHeader
  <1>2. PICK m, l, t, st, q, e, h : /\ m = ReadableBytes(h_readBuff) /\ l = LineEnd
                                    /\ t = taken /\ st = Stream
                                    /\ q = Ends[Due - 1] /\ e = Ends[Due] /\ h = Lines(r)
    OBVIOUS
  <1>3. /\ r \in Request /\ q \in Nat /\ e \in Nat /\ ShapeAt(st, q, e, r)
        /\ r.form # <<>> => r.method = "POST"
        /\ Len(st) \in Nat /\ e <= Len(st) /\ q + 5 * h + 7 <= e
    BY <1>2, DueInStream DEF ShapeAt
  <1>4. h \in 1..3 /\ j \in Nat /\ j >= 1 /\ j <= h /\ t = q + 5 * j /\ t \in Nat
    BY <1>2, <1>3, LinesAre
  <1>5. /\ st[t + 1] = Sym("name", Name(r, j)) /\ st[t + 2] = Mark(":")
        /\ st[t + 3] = Value(r, j) /\ st[t + 4] = CR /\ st[t + 5] = LF
    BY <1>2, <1>3, <1>4 DEF ShapeAt
  <1>6. /\ st[t + 1].kind = "name" /\ st[t + 2].kind = ":" /\ st[t + 3].kind = "value"
    <2>1. Value(r, j).kind = "value"
      BY KindOf DEF Value
    <2> QED
      BY <1>5, <2>1, KindOf
  <1>7. m \in Nat /\ m > 0 /\ t + m <= Len(st)
    BY <1>1, <1>2, FrontOfStream DEF PInv
  <1>8. l = IF 5 <= m THEN 3 ELSE m
    <2>1. \A i \in 1..3 : st[t + i] # CR
      <3>1. st[t + 1] # CR /\ st[t + 2] # CR /\ st[t + 3] # CR
        BY <1>6, KindOf
      <3> QED
        BY <3>1
    <2>2. t + 3 + 1 = t + 4 /\ t + 3 + 2 = t + 5
      BY <1>4
    <2>3. l = IF 3 + 2 <= m THEN 3 ELSE m
      BY <1>2, <1>5, <2>1, <2>2, LineIsUpTo
    <2> QED
      BY <2>3
  <1>9. /\ TheLine \in Seq(Symbols) /\ Len(TheLine) = l /\ l \in Nat /\ l >= 1
        /\ \A i \in 1..l : TheLine[i] = st[t + i]
    <2>1. l \in Nat /\ l >= 1
      BY <1>7, <1>8
    <2> QED
      BY <1>2, <2>1, TheLineIs
  <1>10. ~AtMostCRLF
    <2>1. Readable(h_readBuff)[1] = st[t + 1] /\ 1 \in DOMAIN Readable(h_readBuff)
      <3>1. 1 \in 1..m
        BY <1>7
      <3> QED
        BY <1>2, <3>1, FrontOfStream, LenProperties
    <2>2. "name" \in KindsOf(Readable(h_readBuff))
      BY <1>6, <2>1 DEF KindsOf
    <2> QED
      BY <2>2 DEF AtMostCRLF
  <1>11. h_state' # "FINISH" /\ h_state' \in {"HEADERS", "BODY"}
    BY <1>1, <1>10
  <1>12. /\ h_method' \in {r.method, "other"} /\ (whole => h_method' = r.method)
         /\ h_path' = Html(r.path)
         /\ h_version' = <<Sym("version", "1.1")>>
         /\ h_header = HeaderAt(r, j) /\ DOMAIN h_header = Names
         /\ h_path' \in Pages(r)
    BY <1>1 DEF Knows, PInv, Pages
  <1>13. LostAt(t)
    <2>1. \A i \in 1..3 : st[t + i].kind # "HTTP/"
      <3>1. \A i \in 1..3 : i = 1 \/ i = 2 \/ i = 3
        OBVIOUS
      <3> QED
        BY <1>6, <3>1
    <2>2. t + 3 + 1 = t + 4 /\ t + 3 + 2 = t + 5 /\ 3 \in Nat
      BY <1>4
    <2> QED
      BY <1>2, <1>3, <1>4, <1>5, <2>1, <2>2, LineIsLost
  <1>14. whole => 7 <= m
    <2>1. whole => t + m = e
      BY <1>1, <1>2 DEF PInv, IsWhole
    <2>2. 5 * j <= 5 * h
      BY <1>4
    <2> QED
      BY <1>3, <1>4, <1>7, <2>1, <2>2
  <1>15. CASE 5 <= m
    <2>1. l = 3 /\ l # m
      BY <1>7, <1>8, <1>15
    <2>2. TheLine[1] = Sym("name", Name(r, j)) /\ TheLine[2] = Mark(":") /\ TheLine[3] = Value(r, j)
      BY <1>5, <1>9, <2>1
    <2>3. /\ IsHeader(TheLine)
          /\ Header(TheLine) = IF Name(r, j) \in DOMAIN h_header
                               THEN [h_header EXCEPT ![Name(r, j)] = <<Value(r, j)>>] ELSE h_header
      <3>1. TheLine[3].kind = "value"
        BY <1>5, <1>6, <2>2
      <3> QED
        BY <1>9, <2>1, <2>2, <3>1, HeaderLineSeen
    <2>4. h_header' = HeaderAt(r, j + 1) /\ h_state' = "HEADERS"
      <3>1. j \in 1..Lines(r)
        BY <1>2, <1>4
      <3> QED
        BY <1>1, <1>3, <1>10, <1>12, <2>3, <3>1, HeaderAtNext
    <2>5. Consume(5, TRUE)
      <3>1. Consume(l + 2, h_state' # "FINISH")
        BY <1>1, <1>2, <2>1 DEF EndOfLine
      <3>2. l + 2 = 5 /\ (h_state' # "FINISH") = TRUE
        BY <1>11, <2>1
      <3> QED
        BY <3>1, <3>2
    <2>6. 5 \in 0..m
      BY <1>7, <1>15
    <2>7. DOMAIN h_header' = Names
      BY <2>4 DEF HeaderAt
    <2>8. GoesOn
      <3>1. taken' = taken + 5 /\ UNCHANGED <<convo, answers, whole>>
        BY <1>2, <2>5, <2>6, AfterConsume
      <3>2. UNCHANGED Ends /\ UNCHANGED Due
        BY <3>1, StreamStays DEF Due
      <3>3. taken' = Ends'[Due' - 1] + 5 * (j + 1)
        <4>1. q + 5 * j + 5 = q + 5 * (j + 1)
          BY <1>3, <1>4
        <4>2. Ends'[Due' - 1] = q /\ taken' = q + 5 * j + 5
          BY <1>2, <1>4, <3>1, <3>2
        <4> QED
          BY <4>1, <4>2
      <3>4. convo'[Due'] = r /\ Due' <= Len(convo')
        BY <3>1, <3>2
      <3>5. Knows(r, j + 1)'
        BY <1>12, <2>4, <3>1, <3>4 DEF Knows, HeaderAt
      <3>6. j + 1 \in 1..(Lines(r) + 1)
        BY <1>2, <1>4
      <3>7. AtHeaders'
        BY <3>3, <3>4, <3>5, <3>6 DEF AtHeaders
      <3> QED
        BY <2>4, <3>7 DEF GoesOn
    <2>9. ~(TRUE /\ m > 5) => Returns(5)
      <3>1. ~(TRUE /\ m > 5) => ~whole
        BY <1>7, <1>14
      <3>2. IsKeepAlive' => r.keep
        <4>1. h_header'["Connection"] = IF r.keep /\ j + 1 > 2 THEN <<KeepAlive>> ELSE <<>>
          BY <2>4 DEF HeaderAt, Names
        <4>2. <<>> # <<KeepAlive>>
          OBVIOUS
        <4> QED
          BY <4>1, <4>2 DEF IsKeepAlive
      <3>3. LostAt(t + 5)
        <4>1. CASE j = h
          <5>1. t + 5 + 0 + 1 = q + 5 * h + 6 /\ t + 5 + 0 + 2 = q + 5 * h + 7
                /\ t + 5 \in Nat /\ 0 \in Nat
            BY <1>3, <1>4, <4>1
          <5>2. st[q + 5 * h + 6] = CR /\ st[q + 5 * h + 7] = LF
            BY <1>2, <1>3 DEF ShapeAt
          <5>3. \A i \in 1..0 : Stream[t + 5 + i].kind # "HTTP/"
            OBVIOUS
          <5> QED
            BY <1>2, <1>3, <5>1, <5>2, <5>3, LineIsLost
        <4>2. CASE j # h
          <5>1. PICK x : x = q + 5 * (j + 1)
            OBVIOUS
          <5>2. j + 1 \in 1..h /\ t + 5 = x /\ x \in Nat
            BY <1>3, <1>4, <4>2, <5>1
          <5>3. /\ st[x + 1] = Sym("name", Name(r, j + 1)) /\ st[x + 2] = Mark(":")
                /\ st[x + 3] = Value(r, j + 1) /\ st[x + 4] = CR /\ st[x + 5] = LF
            BY <1>2, <1>3, <5>1, <5>2 DEF ShapeAt
          <5>4. Value(r, j + 1).kind = "value"
            BY KindOf DEF Value
          <5>5. \A i \in 1..3 : st[x + i].kind # "HTTP/"
            <6>1. \A i \in 1..3 : i = 1 \/ i = 2 \/ i = 3
              OBVIOUS
            <6> QED
              BY <5>3, <5>4, <6>1, KindOf
          <5>6. x + 3 + 1 = x + 4 /\ x + 3 + 2 = x + 5 /\ 3 \in Nat
            BY <5>2
          <5> QED
            BY <1>2, <1>3, <5>2, <5>3, <5>5, <5>6, LineIsLost
        <4> QED
          BY <4>1, <4>2
      <3> QED
        BY <1>2, <1>12, <3>1, <3>2, <3>3 DEF Returns, Follows
    <2> QED
      BY <1>1, <1>2, <2>5, <2>6, <2>7, <2>8, <2>9, AfterLine
  <1>16. CASE ~(5 <= m)
    <2>1. l = m /\ ~whole
      BY <1>7, <1>8, <1>14, <1>16
    <2>2. Consume(0, FALSE)
      BY <1>1, <1>2, <1>11, <2>1 DEF EndOfLine
    <2>3. 0 \in 0..m
      BY <1>7
    <2>4. TheLine[1].text = Name(r, j)
      <3>1. TheLine[1] = st[t + 1]
        BY <1>9
      <3> QED
        BY <1>5, <3>1, KindOf
    <2>5. \/ h_header' = h_header
          \/ h_header' = [h_header EXCEPT ![Name(r, j)] = SubSeq(TheLine, 3, Len(TheLine))]
      BY <1>1, <2>4 DEF Header
    <2>6. DOMAIN h_header' = Names
      BY <1>12, <2>5
    <2>7. IsKeepAlive' => r.keep
      <3>1. SUFFICES ASSUME ~r.keep PROVE h_header'["Connection"] = <<>>
        <4>1. <<>> # <<KeepAlive>>
          OBVIOUS
        <4> QED
          BY <4>1 DEF IsKeepAlive
      <3>2. Name(r, j) # "Connection"
        BY <3>1 DEF Name
      <3>3. h_header["Connection"] = <<>>
        BY <1>12, <3>1 DEF HeaderAt, Names
      <3> QED
        BY <1>12, <2>5, <3>2, <3>3 DEF Names
    <2>8. Returns(0)
      <3>1. t + 0 = t
        BY <1>4
      <3> QED
        BY <1>2, <1>12, <1>13, <2>1, <2>7, <3>1 DEF Returns, Follows
    <2> QED
      BY <1>1, <1>2, <2>2, <2>3, <2>6, <2>8, AfterLine
  <1> QED
    BY <1>15, <1>16

\* The first symbol of a form is not the beginning of a request.
LEMMA BehindEmptyLine ==
    ASSUME NEW r \in Request, NEW st, NEW q, NEW e, ShapeAt(st, q, e, r),
           Len(st) \in Nat, NEW b, b = q + 5 * Lines(r) + 7
    PROVE  /\ b \in Nat
           /\ r.form = <<>> => b = e
           /\ r.form # <<>> => b < e /\ b < Len(st) /\ st[b + 1] = Mark("username=")
  <1>1. /\ q \in Nat /\ e \in Nat /\ e <= Len(st)
        /\ IF r.form = <<>> THEN e = q + 5 * Lines(r) + 7
           ELSE Part(st, b, Body(r)) /\ e = b + Len(Body(r))
    BY DEF ShapeAt
  <1>2. b \in Nat /\ Lines(r) \in Nat
    BY <1>1, LinesAre
  <1>3. ASSUME r.form # <<>> PROVE b < e /\ b < Len(st) /\ st[b + 1] = Mark("username=")
    <2>1. PICK n : n = Len(Body(r))
      OBVIOUS
    <2>2. n \in Nat /\ n >= 2 /\ Body(r)[1] = Mark("username=")
      <3>1. PICK x, y : x = Len(r.form[1]) /\ y = Len(r.form[2])
        OBVIOUS
      <3>2. x \in Nat /\ y \in Nat /\ n = 2 + x + y /\ Body(r)[1] = Mark("username=")
        BY <1>3, <2>1, <3>1, BodyParts
      <3> QED
        BY <3>2
    <2>3. st[b + 1] = Body(r)[1]
      BY <1>1, <1>3, <2>1, <2>2 DEF Part
    <2>4. e = b + n
      BY <1>1, <1>3, <2>1
    <2>5. b < e /\ e <= Len(st) /\ b < Len(st)
      BY <1>1, <1>2, <2>2, <2>4
    <2> QED
      BY <2>2, <2>3, <2>5
  <1> QED
    BY <1>1, <1>2, <1>3

\* What a symbol of a form is.
LEMMA BodyKinds ==
    ASSUME NEW r \in Request, r.form # <<>>, NEW i, i \in 1..Len(Body(r))
    PROVE  IF i = 1 THEN Body(r)[i].kind = "username="
           ELSE IF i = 2 + Len(r.form[1]) THEN Body(r)[i].kind = "&password="
           ELSE Body(r)[i].kind = "text"
  <1>1. PICK b, a, c, n, m : /\ b = Body(r) /\ a = r.form[1] /\ c = r.form[2]
                             /\ n = Len(a) /\ m = Len(c)
    OBVIOUS
  <1>2. /\ n \in Nat /\ m \in Nat /\ Len(b) = 2 + n + m
        /\ b[1] = Mark("username=") /\ Part(b, 1, a) /\ b[2 + n] = Mark("&password=")
        /\ Part(b, 2 + n, c)
        /\ a \in Text /\ c \in Text
    BY <1>1, BodyParts
  <1>3. ASSUME NEW s, s \in Text, NEW j, j \in 1..Len(s) PROVE s[j].kind = "text"
    <2>1. s \in Seq([kind : {"text"}, text : Words])
      BY <1>3 DEF Text
    <2>2. s[j] \in [kind : {"text"}, text : Words]
      BY <1>3, <2>1, ElementOfSeq
    <2> QED
      BY <2>2
  <1>4. CASE i = 1
    BY <1>1, <1>2, <1>4, KindOf
  <1>5. CASE i # 1 /\ i = 2 + n
    <2>1. b[i].kind = "&password="
      BY <1>2, <1>5, KindOf
    <2> QED
      BY <1>1, <1>5, <2>1
  <1>6. CASE i # 1 /\ i # 2 + n /\ i < 2 + n
    <2>1. i - 1 \in 1..n /\ 1 + (i - 1) = i
      BY <1>1, <1>2, <1>6
    <2>2. b[i] = a[i - 1]
      <3>1. \A j \in 1..n : b[1 + j] = a[j]
        BY <1>1, <1>2 DEF Part
      <3>2. b[1 + (i - 1)] = a[i - 1]
        BY <2>1, <3>1
      <3> QED
        BY <2>1, <3>2
    <2>3. a[i - 1].kind = "text"
      BY <1>1, <1>2, <1>3, <2>1
    <2> QED
      BY <1>1, <1>6, <2>2, <2>3
  <1>7. CASE i # 1 /\ i # 2 + n /\ ~(i < 2 + n)
    <2>0. i \in Int /\ i <= 2 + n + m /\ 2 + n < i
      <3>1. i \in 1..Len(b)
        BY <1>1
      <3>2. i \in Int /\ i <= Len(b)
        BY <1>2, <3>1
      <3>3. i # 2 + n /\ ~(i < 2 + n)
        BY <1>7
      <3> QED
        BY <1>2, <3>2, <3>3
    <2>1. i - (2 + n) \in 1..m /\ 2 + n + (i - (2 + n)) = i
      BY <1>2, <2>0
    <2>2. b[i] = c[i - (2 + n)]
      <3>1. \A j \in 1..m : b[2 + n + j] = c[j]
        BY <1>1, <1>2 DEF Part
      <3>2. b[2 + n + (i - (2 + n))] = c[i - (2 + n)]
        BY <2>1, <3>1
      <3> QED
        BY <2>1, <3>2
    <2>3. c[i - (2 + n)].kind = "text"
      BY <1>1, <1>2, <1>3, <2>1
    <2> QED
      BY <1>1, <1>7, <2>2, <2>3
  <1> QED
    BY <1>4, <1>5, <1>6, <1>7

\* A part of a sequence is the sequence between its ends.
LEMMA PartIsSubSeq ==
    ASSUME NEW S, NEW b \in Seq(S), NEW a \in Seq(S), NEW o, Part(b, o, a)
    PROVE  SubSeq(b, o + 1, o + Len(a)) = a
  <1>1. PICK n, u, x, y : n = Len(a) /\ x = o + 1 /\ y = o + n /\ u = SubSeq(b, x, y)
    OBVIOUS
  <1>2. o \in Nat /\ n \in Nat /\ o + n <= Len(b) /\ \A i \in 1..n : b[o + i] = a[i]
    BY <1>1 DEF Part
  <1>3. Len(b) \in Nat /\ \A i \in 1..Len(b) : b[i] \in S
    BY LenProperties, ElementOfSeq
  <1>4. x \in Int /\ y \in Int /\ \A i \in x..y : b[i] \in S
    BY <1>1, <1>2, <1>3
  <1>5. /\ u \in Seq(S) /\ Len(u) = IF x <= y THEN y - x + 1 ELSE 0
        /\ \A i \in 1..(y - x + 1) : u[i] = b[x + i - 1]
    BY <1>1, <1>4, SubSeqProperties
  <1>6. Len(u) = n
    BY <1>1, <1>2, <1>5
  <1>7. ASSUME NEW i \in 1..n PROVE u[i] = a[i]
    <2>1. i \in 1..(y - x + 1) /\ x + i - 1 = o + i
      BY <1>1, <1>2
    <2> QED
      BY <1>2, <1>5, <2>1
  <1>8. u = a
    BY <1>1, <1>5, <1>6, <1>7, SeqEqual
  <1> QED
    BY <1>1, <1>8

\* ParseFromUrlEncoded finds the name and the password of a form.
LEMMA FieldsAre ==
    ASSUME NEW r \in Request, r.form # <<>>
    PROVE  <<Field(Body(r), "username="), Field(Body(r), "&password=")>> = r.form
  <1>1. PICK b, a, c, n, m : /\ b = Body(r) /\ a = r.form[1] /\ c = r.form[2]
                             /\ n = Len(a) /\ m = Len(c)
    OBVIOUS
  <1>2. /\ n \in Nat /\ m \in Nat /\ Len(b) = 2 + n + m
        /\ Part(b, 1, a) /\ Part(b, 2 + n, c)
        /\ b \in Seq(Symbols) /\ a \in Seq(Symbols) /\ c \in Seq(Symbols)
        /\ r.form = <<a, c>>
    BY <1>1, BodyParts, BodyIsSymbols
  <1>3. \A i \in 1..(2 + n + m) :
          IF i = 1 THEN b[i].kind = "username="
          ELSE IF i = 2 + n THEN b[i].kind = "&password="
          ELSE b[i].kind = "text"
    BY <1>1, <1>2, BodyKinds
  <1>4. DOMAIN b = 1..(2 + n + m) /\ 1 \in 1..(2 + n + m) /\ 2 + n \in 1..(2 + n + m) /\ 2 + n # 1
    BY <1>2, LenProperties
  <1>5. /\ {i \in DOMAIN b : b[i].kind = "username="} = {1}
        /\ {i \in DOMAIN b : b[i].kind = "&password="} = {2 + n}
        /\ {i \in DOMAIN b : b[i].kind \in {"username=", "&password="}} = {1, 2 + n}
    BY <1>3, <1>4
  <1>6. Min({1}) = 1 /\ Min({2 + n}) = 2 + n
    <2>1. ASSUME NEW x, x \in Nat PROVE Min({x}) = x
      <3>1. {x} \subseteq Nat /\ {x} # {}
        BY <2>1
      <3>2. Min({x}) \in {x}
        BY <3>1, MinIsMember
      <3> QED
        BY <3>2
    <2>2. 1 \in Nat /\ 2 + n \in Nat
      BY <1>2
    <2> QED
      BY <2>1, <2>2
  <1>7. Min({k \in {1, 2 + n} : k > 1} \cup {Len(b) + 1}) = 2 + n
    <2>1. PICK M : M = {k \in {1, 2 + n} : k > 1} \cup {Len(b) + 1}
      OBVIOUS
    <2>2. M = {2 + n, 2 + n + m + 1}
      <3>1. {k \in {1, 2 + n} : k > 1} = {2 + n}
        BY <1>2
      <3>2. Len(b) + 1 = 2 + n + m + 1
        BY <1>2
      <3> QED
        BY <2>1, <3>1, <3>2
    <2>3. M \subseteq Nat /\ M # {}
      BY <1>2, <2>2
    <2>4. Min(M) \in M /\ \A y \in M : Min(M) <= y
      BY <2>3, MinIsMember
    <2>5. Min(M) <= 2 + n /\ Min(M) \in {2 + n, 2 + n + m + 1}
      BY <2>2, <2>4
    <2>6. Min(M) = 2 + n
      BY <1>2, <2>5
    <2> QED
      BY <2>1, <2>6
  <1>8. Min({k \in {1, 2 + n} : k > 2 + n} \cup {Len(b) + 1}) = 2 + n + m + 1
    <2>1. {k \in {1, 2 + n} : k > 2 + n} \cup {Len(b) + 1} = {2 + n + m + 1}
      <3>1. {k \in {1, 2 + n} : k > 2 + n} = {}
        BY <1>2
      <3>2. Len(b) + 1 = 2 + n + m + 1
        BY <1>2
      <3> QED
        BY <3>1, <3>2
    <2>2. PICK y : y = 2 + n + m + 1
      OBVIOUS
    <2>3. {y} \subseteq Nat /\ {y} # {}
      BY <1>2, <2>2
    <2>4. Min({y}) \in {y}
      BY <2>3, MinIsMember
    <2> QED
      BY <2>1, <2>2, <2>4
  <1>9. ASSUME NEW x, NEW y, x \in Nat, y \in Nat, x >= 1, y <= 2 + n + m
        PROVE  "CR" \notin KindsOf(SubSeq(b, x, y))
    <2>1. PICK u : u = SubSeq(b, x, y)
      OBVIOUS
    <2>2. \A i \in x..y : i \in 1..(2 + n + m) /\ b[i] \in Symbols
      BY <1>2, <1>4, <1>9, ElementOfSeq
    <2>3. /\ u \in Seq(Symbols) /\ Len(u) = IF x <= y THEN y - x + 1 ELSE 0
          /\ \A i \in 1..(y - x + 1) : u[i] = b[x + i - 1]
      BY <1>2, <1>9, <2>1, <2>2, SubSeqProperties
    <2>4. ASSUME NEW i \in DOMAIN u PROVE u[i].kind # "CR"
      <3>1. i \in 1..Len(u)
        BY <2>3, LenProperties
      <3>2. i \in 1..(y - x + 1) /\ x + i - 1 \in 1..(2 + n + m)
        BY <1>2, <1>9, <2>3, <3>1
      <3>3. u[i] = b[x + i - 1]
        BY <2>3, <3>2
      <3>4. b[x + i - 1].kind \in {"username=", "&password=", "text"}
        BY <1>3, <3>2
      <3> QED
        BY <3>3, <3>4
    <2> QED
      BY <2>1, <2>4 DEF KindsOf
  <1>10. Field(b, "username=") = a
    <2>4. PICK F, K, i, to :
            /\ F = {x \in DOMAIN b : b[x].kind = "username="}
            /\ K = {x \in DOMAIN b : b[x].kind \in {"username=", "&password="}}
            /\ i = Min(F)
            /\ to = Min({k \in K : k > i} \cup {Len(b) + 1})
      OBVIOUS
    <2>5. Field(b, "username=") =
            IF F = {} \/ "CR" \in KindsOf(SubSeq(b, i, to - 1)) THEN <<>>
            ELSE SubSeq(b, i + 1, to - 1)
      BY <2>4 DEF Field
    <2>6. F = {1} /\ K = {1, 2 + n}
      BY <1>5, <2>4
    <2>7. i = 1
      BY <1>6, <2>4, <2>6
    <2>8. to = 2 + n
      BY <1>7, <2>4, <2>6, <2>7
    <2>9. F # {}
      BY <2>6
    <2>10. "CR" \notin KindsOf(SubSeq(b, i, to - 1))
      <3>1. i \in Nat /\ to - 1 \in Nat /\ i >= 1 /\ to - 1 <= 2 + n + m
        BY <1>2, <2>7, <2>8
      <3> QED
        BY <1>9, <3>1
    <2>11. SubSeq(b, i + 1, to - 1) = a
      <3>1. Part(b, i, a)
        BY <1>2, <2>7
      <3>2. SubSeq(b, i + 1, i + Len(a)) = a
        BY <1>2, <3>1, PartIsSubSeq
      <3>3. i + Len(a) = to - 1
        BY <1>1, <1>2, <2>7, <2>8
      <3> QED
        BY <3>2, <3>3
    <2> QED
      BY <2>5, <2>9, <2>10, <2>11, Zenon
  <1>11. Field(b, "&password=") = c
    <2>4. PICK F, K, i, to :
            /\ F = {x \in DOMAIN b : b[x].kind = "&password="}
            /\ K = {x \in DOMAIN b : b[x].kind \in {"username=", "&password="}}
            /\ i = Min(F)
            /\ to = Min({k \in K : k > i} \cup {Len(b) + 1})
      OBVIOUS
    <2>5. Field(b, "&password=") =
            IF F = {} \/ "CR" \in KindsOf(SubSeq(b, i, to - 1)) THEN <<>>
            ELSE SubSeq(b, i + 1, to - 1)
      BY <2>4 DEF Field
    <2>6. F = {2 + n} /\ K = {1, 2 + n}
      BY <1>5, <2>4
    <2>7. i = 2 + n
      BY <1>6, <2>4, <2>6
    <2>8. to = 2 + n + m + 1
      BY <1>8, <2>4, <2>6, <2>7
    <2>9. F # {}
      BY <2>6
    <2>10. "CR" \notin KindsOf(SubSeq(b, i, to - 1))
      <3>1. i \in Nat /\ to - 1 \in Nat /\ i >= 1 /\ to - 1 <= 2 + n + m
        BY <1>2, <2>7, <2>8
      <3> QED
        BY <1>9, <3>1
    <2>11. SubSeq(b, i + 1, to - 1) = c
      <3>1. Part(b, i, c)
        BY <1>2, <2>7
      <3>2. SubSeq(b, i + 1, i + Len(c)) = c
        BY <1>2, <3>1, PartIsSubSeq
      <3>3. i + Len(c) = to - 1
        BY <1>1, <1>2, <2>7, <2>8
      <3> QED
        BY <3>2, <3>3
    <2> QED
      BY <2>5, <2>9, <2>10, <2>11, Zenon
  <1> QED
    BY <1>1, <1>2, <1>10, <1>11

\* No symbol of a form ends a line or begins a request.
LEMMA InForm ==
    ASSUME NEW r \in Request, r.form # <<>>, NEW st, Len(st) \in Nat,
           NEW t, NEW e, Part(st, t, Body(r)), e = t + Len(Body(r)),
           NEW x \in Nat, t <= x, x < e
    PROVE  x < Len(st) /\ st[x + 1].kind \in {"username=", "&password=", "text"}
  <1>1. PICK b, n : b = Body(r) /\ n = Len(b)
    OBVIOUS
  <1>2. t \in Nat /\ n \in Nat /\ t + n <= Len(st) /\ \A i \in 1..n : st[t + i] = b[i]
    BY <1>1 DEF Part
  <1>3. e = t + n
    BY <1>1
  <1>4. x < Len(st) /\ x + 1 - t \in 1..n /\ t + (x + 1 - t) = x + 1
    BY <1>2, <1>3
  <1>5. st[x + 1] = b[x + 1 - t]
    BY <1>2, <1>4
  <1>6. b[x + 1 - t].kind \in {"username=", "&password=", "text"}
    BY <1>1, <1>4, BodyKinds
  <1> QED
    BY <1>4, <1>5, <1>6

\* The first symbols of a request, one by one.
LEMMA FirstSymbols ==
    ASSUME NEW r \in Request, NEW st, NEW q, NEW e, ShapeAt(st, q, e, r), Len(st) \in Nat
    PROVE  /\ q \in Nat
           /\ st[q + 1].kind \in {"GET", "POST"} /\ st[q + 2].kind = "HTTP/"
           /\ st[q + 3].kind = "version"
           /\ st[q + 4] = CR /\ st[q + 5] = LF
           /\ st[q + 6].kind = "name" /\ st[q + 7].kind = ":" /\ st[q + 8].kind = "value"
           /\ st[q + 9] = CR /\ st[q + 10] = LF
  <1>1. /\ q \in Nat /\ e \in Nat /\ e <= Len(st)
        /\ st[q + 1] = Mark(r.method) /\ st[q + 2] = Sym("HTTP/", r.path)
        /\ st[q + 3] = Sym("version", "1.1") /\ st[q + 4] = CR /\ st[q + 5] = LF
    BY DEF ShapeAt
  <1>2. 1 \in 1..Lines(r)
    BY LinesAre
  <1>3. PICK x : x = q + 5 * 1
    OBVIOUS
  <1>4. /\ st[x + 1] = Sym("name", Name(r, 1)) /\ st[x + 2] = Mark(":")
        /\ st[x + 3] = Value(r, 1) /\ st[x + 4] = CR /\ st[x + 5] = LF
    BY <1>2, <1>3 DEF ShapeAt
  <1>5. /\ x + 1 = q + 6 /\ x + 2 = q + 7 /\ x + 3 = q + 8 /\ x + 4 = q + 9 /\ x + 5 = q + 10
    BY <1>1, <1>3
  <1>6. Value(r, 1).kind = "value" /\ r.method \in {"GET", "POST"}
    BY KindOf DEF Value, Request
  <1>7. /\ st[q + 6] = Sym("name", Name(r, 1)) /\ st[q + 7] = Mark(":")
        /\ st[q + 8] = Value(r, 1) /\ st[q + 9] = CR /\ st[q + 10] = LF
    BY <1>4, <1>5
  <1> QED
    BY <1>1, <1>6, <1>7, KindOf

\* What lies between the empty line of a request, the end of which Parse has seen, and the
\* path of the next request is the form and a method: the next request follows.
LEMMA BetweenRequests ==
    ASSUME IInv, PInv, Due <= Len(convo), NEW r, r = convo[Due], NEW x \in Nat,
           Ends[Due - 1] + 5 * Lines(r) + 6 <= x, x <= Ends[Due] + 1
    PROVE  Follows(x, Due + 1)
  <1>1. PICK q, e, st, b, k : /\ q = Ends[Due - 1] /\ e = Ends[Due] /\ st = Stream /\ k = Due
                              /\ b = q + 5 * Lines(r) + 7
    OBVIOUS
  <1>2. /\ r \in Request /\ k \in 1..Len(convo) /\ q \in Nat /\ e \in Nat
        /\ ShapeAt(st, q, e, r) /\ Len(st) \in Nat /\ b <= e /\ Len(convo) \in Nat
    BY <1>1, DueInStream, EndsAre DEF IInv
  <1>3. Lines(r) \in 1..3
    BY <1>2, LinesAre
  <1>4. b \in Nat /\ b - 1 <= x
    <2>1. PICK h : h = Lines(r)
      OBVIOUS
    <2>2. b = q + 5 * h + 7 /\ q + 5 * h + 6 <= x /\ h \in 1..3
      BY <1>1, <1>3, <2>1
    <2> QED
      BY <1>2, <2>2
  <1>5. st[b] = LF
    BY <1>1, <1>2 DEF ShapeAt
  <1>6. ASSUME NEW i \in (x + 1)..e PROVE st[i].kind \notin {"HTTP/", "CR"}
    <2>1. CASE i = b
      BY <1>5, <2>1, KindOf
    <2>2. CASE i # b
      <3>1. i - 1 \in Nat /\ b <= i - 1 /\ i - 1 < e /\ (i - 1) + 1 = i
        BY <1>2, <1>4, <1>6, <2>2
      <3>2. b < e
        BY <1>2, <1>4, <3>1
      <3>3. r.form # <<>> /\ Part(st, b, Body(r)) /\ e = b + Len(Body(r))
        <4>1. r.form = <<>> => b = e
          BY <1>1, <1>2, BehindEmptyLine
        <4>2. r.form # <<>>
          BY <3>2, <1>2, <1>4, <4>1
        <4> QED
          BY <1>1, <1>2, <4>2 DEF ShapeAt
      <3>4. st[i].kind \in {"username=", "&password=", "text"}
        BY <1>2, <3>1, <3>3, InForm
      <3> QED
        BY <3>4
    <2> QED
      BY <2>1, <2>2
  <1>7. CASE k = Len(convo)
    <2>1. e = Len(st)
      BY <1>1, <1>7, EndsAre DEF IInv
    <2>2. LostAt(x)
      BY <1>1, <1>6, <2>1 DEF LostAt
    <2> QED
      BY <2>2 DEF Follows
  <1>8. CASE k # Len(convo)
    <2>1. k + 1 \in 1..Len(convo) /\ (k + 1) - 1 = k /\ k + 1 <= Len(convo)
      BY <1>2, <1>8
    <2>2. ShapeAt(st, e, Ends[k + 1], convo[k + 1]) /\ convo[k + 1] \in Request
      <3>1. /\ ShapeAt(Stream, Ends[(k + 1) - 1], Ends[k + 1], convo[k + 1])
            /\ convo[k + 1] \in Request
        BY <2>1, EndsAre DEF IInv
      <3> QED
        BY <1>1, <2>1, <3>1
    <2>3. st[e + 1].kind \in {"GET", "POST"}
      BY <1>2, <2>2, FirstSymbols
    <2>4. ASSUME NEW i \in (x + 1)..(e + 1) PROVE st[i].kind \notin {"HTTP/", "CR"}
      <3>1. i = e + 1 \/ i \in (x + 1)..e
        BY <1>2, <2>4
      <3> QED
        BY <1>6, <2>3, <3>1
    <2>5. OnAt(x, k + 1)
      BY <1>1, <2>1, <2>4 DEF OnAt
    <2> QED
      BY <1>1, <2>5 DEF Follows
  <1> QED
    BY <1>7, <1>8

\* Parse at the empty line of request r.
LEMMA EmptyLineHolds ==
    ASSUME IInv, PInv, ParseHeader,
           NEW r, r = convo[Due], Due <= Len(convo),
           taken = Ends[Due - 1] + 5 * (Lines(r) + 1), Knows(r, Lines(r) + 1)
    PROVE  PInv'
  <1>1. /\ pc = "parse" /\ h_state = "HEADERS"
        /\ h_header' = IF IsHeader(TheLine) THEN Header(TheLine) ELSE h_header
        /\ h_state' = IF AtMostCRLF THEN "FINISH"
                      ELSE IF IsHeader(TheLine) THEN "HEADERS" ELSE "BODY"
        /\ UNCHANGED <<h_method, h_path, h_version, h_post>>
        /\ EndOfLine
    BY DEF ParseHeader
  <1>2. PICK m, l, t, st, q, e, h : /\ m = ReadableBytes(h_readBuff) /\ l = LineEnd
                                    /\ t = taken /\ st = Stream
                                    /\ q = Ends[Due - 1] /\ e = Ends[Due] /\ h = Lines(r)
    OBVIOUS
  <1>3. /\ r \in Request /\ q \in Nat /\ e \in Nat /\ ShapeAt(st, q, e, r)
        /\ r.form # <<>> => r.method = "POST"
        /\ Len(st) \in Nat /\ e <= Len(st) /\ q + 5 * h + 7 <= e
    BY <1>2, DueInStream DEF ShapeAt
  <1>4. h \in 1..3 /\ h \in Nat /\ t = q + 5 * h + 5 /\ t \in Nat
    <2>1. h \in 1..3 /\ h \in Nat
      BY <1>2, <1>3, LinesAre
    <2>2. t = q + 5 * (h + 1)
      BY <1>2
    <2>3. q + 5 * (h + 1) = q + 5 * h + 5 /\ q + 5 * h + 5 \in Nat
      BY <1>3, <2>1
    <2> QED
      BY <2>1, <2>2, <2>3
  <1>5. /\ st[t + 1] = CR /\ st[t + 2] = LF
    <2>1. t + 1 = q + 5 * h + 6 /\ t + 2 = q + 5 * h + 7
      BY <1>3, <1>4
    <2> QED
      BY <1>2, <1>3, <2>1 DEF ShapeAt
  <1>6. /\ t + 2 \in Nat
        /\ r.form = <<>> => t + 2 = e
        /\ r.form # <<>> => t + 2 < e /\ t + 2 < Len(st) /\ st[t + 2 + 1] = Mark("username=")
    <2>1. t + 2 = q + 5 * Lines(r) + 7
      <3>1. t + 2 = q + 5 * h + 7
        BY <1>3, <1>4
      <3> QED
        BY <1>2, <3>1
    <2> QED
      BY <1>2, <1>3, <2>1, BehindEmptyLine
  <1>7. m \in Nat /\ m > 0 /\ t + m <= Len(st)
    BY <1>1, <1>2, FrontOfStream DEF PInv
  <1>8. l = IF 2 <= m THEN 0 ELSE m
    <2>1. /\ \A i \in 1..0 : st[t + i] # CR
          /\ t + 0 + 1 = t + 1 /\ t + 0 + 2 = t + 2 /\ 0 + 2 = 2
      BY <1>4
    <2>2. 0 \in Nat
      OBVIOUS
    <2>3. l = IF 0 + 2 <= m THEN 0 ELSE m
      BY <1>2, <1>5, <2>1, <2>2, LineIsUpTo
    <2> QED
      BY <2>1, <2>3
  <1>9. /\ TheLine \in Seq(Symbols) /\ Len(TheLine) = l /\ l \in 0..1
        /\ \A i \in 1..l : TheLine[i] = st[t + i]
    <2>1. l \in 0..1
      BY <1>7, <1>8
    <2> QED
      BY <1>2, <2>1, TheLineIs
  <1>10. ~IsHeader(TheLine)
    <2>1. DOMAIN TheLine = 1..l
      BY <1>9, LenProperties
    <2>2. \A i \in DOMAIN TheLine : TheLine[i].kind = "CR"
      <3>1. \A i \in 1..l : i = 1
        BY <1>9
      <3> QED
        BY <1>5, <1>9, <2>1, <3>1, KindOf
    <2>3. ":" \notin KindsOf(TheLine)
      BY <2>2 DEF KindsOf
    <2> QED
      BY <2>3 DEF IsHeader
  <1>11. /\ h_header' = h_header /\ h_header' = HeaderAt(r, h + 1)
         /\ h_state' = IF AtMostCRLF THEN "FINISH" ELSE "BODY"
         /\ h_method' \in {r.method, "other"} /\ (whole => h_method' = r.method)
         /\ h_path' = Html(r.path) /\ h_path' \in Pages(r)
         /\ h_version' = <<Sym("version", "1.1")>>
         /\ DOMAIN h_header' = Names
    BY <1>1, <1>2, <1>10 DEF Knows, Pages, HeaderAt
  <1>12. AtMostCRLF <=> m <= 2
    <2>1. /\ DOMAIN Readable(h_readBuff) = 1..m
          /\ \A i \in 1..m : Readable(h_readBuff)[i] = st[t + i]
      BY <1>2, FrontOfStream, LenProperties
    <2>2. m <= 2 => KindsOf(Readable(h_readBuff)) \subseteq {"CR", "LF"}
      <3>1. SUFFICES ASSUME m <= 2, NEW i \in 1..m
                     PROVE  Readable(h_readBuff)[i].kind \in {"CR", "LF"}
        BY <2>1 DEF KindsOf
      <3>2. i = 1 \/ i = 2
        BY <1>7, <3>1
      <3> QED
        BY <1>5, <2>1, <3>1, <3>2, KindOf
    <2> QED
      BY <1>2, <2>2 DEF AtMostCRLF
  <1>13. IsKeepAlive' = r.keep
    <2>1. h_header'["Connection"] = IF r.keep /\ h + 1 > 2 THEN <<KeepAlive>> ELSE <<>>
      BY <1>11 DEF HeaderAt, Names
    <2>2. <<>> # <<KeepAlive>> /\ r.keep \in BOOLEAN /\ (r.keep => h + 1 > 2)
      <3>1. r.keep => 2 <= h
        BY <1>2, <1>3, LinesAre
      <3> QED
        BY <1>3, <1>4, <3>1 DEF Request
    <2>3. IsKeepAlive' \in BOOLEAN
      BY DEF IsKeepAlive
    <2>4. IsKeepAlive' <=> r.keep
      BY <1>11, <2>1, <2>2 DEF IsKeepAlive
    <2> QED
      BY <2>2, <2>3, <2>4
  <1>14. whole => t + m = e
    BY <1>1, <1>2 DEF PInv, IsWhole
  <1>15. CASE m = 1
    <2>1. l = m /\ h_state' = "FINISH" /\ ~whole
      BY <1>3, <1>4, <1>8, <1>11, <1>12, <1>14, <1>15
    <2>2. Follows(t, Due + 1) /\ Follows(t + 1, Due + 1)
      <3>1. /\ \A i \in 1..0 : Stream[t + i].kind # "HTTP/"
            /\ t + 0 + 1 = t + 1 /\ t + 0 + 2 = t + 2 /\ 0 \in Nat
        BY <1>4
      <3>2. LostAt(t)
        BY <1>2, <1>3, <1>4, <1>5, <3>1, LineIsLost
      <3>3. t + 1 \in Nat /\ q + 5 * h + 6 <= t + 1 /\ t + 1 <= e + 1
        BY <1>3, <1>4
      <3>4. Follows(t + 1, Due + 1)
        BY <1>2, <3>3, BetweenRequests
      <3> QED
        BY <3>2, <3>4 DEF Follows
    <2>3. CASE h_method' = "POST"
      <3>1. Consume(m, FALSE)
        BY <1>1, <1>2, <2>1, <2>3 DEF EndOfLine
      <3>2. m \in 0..m
        BY <1>7
      <3>3. Returns(m)
        BY <1>2, <1>11, <1>13, <1>15, <2>1, <2>2 DEF Returns
      <3> QED
        BY <1>1, <1>2, <1>11, <3>1, <3>2, <3>3, AfterLine
    <2>4. CASE h_method' # "POST"
      <3>1. Consume(0, FALSE)
        BY <1>1, <1>2, <2>1, <2>4 DEF EndOfLine
      <3>2. 0 \in 0..m /\ t + 0 = t
        BY <1>4, <1>7
      <3>3. Returns(0)
        BY <1>2, <1>11, <1>13, <2>1, <2>2, <3>2 DEF Returns
      <3> QED
        BY <1>1, <1>2, <1>11, <3>1, <3>2, <3>3, AfterLine
    <2> QED
      BY <2>3, <2>4
  <1>16. CASE m # 1
    <2>0. m >= 2 /\ l = 0 /\ l # m /\ 2 \in 0..m
      BY <1>7, <1>8, <1>16
    <2>1. Consume(2, h_state' # "FINISH")
      <3>1. Consume(l + 2, h_state' # "FINISH") /\ l + 2 = 2
        BY <1>1, <1>2, <2>0 DEF EndOfLine
      <3> QED
        BY <3>1
    <2>2. CASE m = 2
      <3>1. h_state' = "FINISH"
        BY <1>11, <1>12, <2>2
      <3>2. Consume(2, FALSE)
        <4>1. (h_state' # "FINISH") = FALSE
          BY <3>1
        <4> QED
          BY <2>1, <4>1
      <3>3. Follows(taken + 2, Due + 1)
        <4>1. t + 2 \in Nat /\ q + 5 * h + 6 <= t + 2 /\ t + 2 <= e + 1
          BY <1>3, <1>4
        <4> QED
          BY <1>2, <4>1, BetweenRequests
      <3>4. whole => r.form = <<>>
        BY <1>3, <1>4, <1>6, <1>14, <2>2
      <3>5. Returns(2)
        BY <1>2, <1>11, <1>13, <2>2, <3>3, <3>4 DEF Returns
      <3> QED
        BY <1>1, <1>2, <1>11, <2>0, <3>2, <3>5, AfterLine
    <2>3. CASE m # 2
      <3>1. h_state' = "BODY" /\ m > 2
        BY <1>7, <1>11, <1>12, <2>0, <2>3
      <3>2. Consume(2, TRUE)
        <4>1. (h_state' # "FINISH") = TRUE
          BY <3>1
        <4> QED
          BY <2>1, <4>1
      <3>3. GoesOn
        <4>1. taken' = taken + 2 /\ UNCHANGED <<convo, answers, whole>>
          BY <1>2, <2>0, <3>2, AfterConsume
        <4>2. UNCHANGED Ends /\ UNCHANGED Due
          BY <4>1, StreamStays DEF Due
        <4>3. taken' = Ends'[Due' - 1] + 5 * Lines(r) + 7
          <5>1. Ends'[Due' - 1] = q /\ taken' = t + 2 /\ t + 2 = q + 5 * h + 7
            <6>1. q + 5 * h + 5 + 2 = q + 5 * h + 7
              BY <1>3, <1>4
            <6> QED
              BY <1>2, <1>4, <4>1, <4>2, <6>1
          <5> QED
            BY <1>2, <5>1
        <4>4. convo'[Due'] = r /\ Due' <= Len(convo')
          BY <4>1, <4>2
        <4>5. Knows(r, Lines(r) + 1)'
          BY <1>2, <1>11, <4>1, <4>4 DEF Knows, HeaderAt
        <4>6. AtBody'
          BY <4>3, <4>4, <4>5 DEF AtBody
        <4> QED
          BY <3>1, <4>6 DEF GoesOn
      <3>4. ~(~(TRUE /\ m > 2))
        BY <3>1
      <3> QED
        BY <1>1, <1>2, <1>11, <2>0, <3>2, <3>3, <3>4, AfterLine
    <2> QED
      BY <2>2, <2>3
  <1> QED
    BY <1>15, <1>16

\* ParseHeader is at a header line or at the empty line.
LEMMA ParseHeaderHolds ==
    ASSUME IInv, PInv, ParseHeader
    PROVE  PInv'
  <1>1. AtHeaders
    BY DEF ParseHeader, PInv
  <1>2. PICK r : r = convo[Due]
    OBVIOUS
  <1>3. Due <= Len(convo)
    BY <1>1 DEF AtHeaders
  <1>4. PICK j \in 1..(Lines(r) + 1) : taken = Ends[Due - 1] + 5 * j /\ Knows(r, j)
    BY <1>1, <1>2 DEF AtHeaders
  <1>5. Lines(r) \in Nat
    BY <1>2, <1>3, DueInStream, LinesAre
  <1>6. CASE j = Lines(r) + 1
    BY <1>2, <1>3, <1>4, <1>6, EmptyLineHolds
  <1>7. CASE j # Lines(r) + 1
    <2>1. j \in 1..Lines(r)
      BY <1>4, <1>5, <1>7
    <2> QED
      BY <1>2, <1>3, <1>4, <2>1, HeaderLineHolds
  <1> QED
    BY <1>6, <1>7

\* A form, or whatever is taken for one, is the last line that Parse takes.
LEMMA ParseBodyHolds ==
    ASSUME IInv, PInv, ParseBody
    PROVE  PInv'
  <1>1. /\ pc = "parse" /\ h_state = "BODY" /\ h_state' = "FINISH"
        /\ UNCHANGED <<h_method, h_version, h_header>>
        /\ EndOfLine
    BY DEF ParseBody
  <1>2. AtBody
    BY <1>1 DEF PInv
  <1>3. PICK m, l, t, st, k, r, q, e, h :
          /\ m = ReadableBytes(h_readBuff) /\ l = LineEnd
          /\ t = taken /\ st = Stream /\ k = Due /\ r = convo[k]
          /\ q = Ends[k - 1] /\ e = Ends[k] /\ h = Lines(r)
    OBVIOUS
  <1>4. /\ r \in Request /\ k \in 1..Len(convo) /\ q \in Nat /\ e \in Nat /\ ShapeAt(st, q, e, r)
        /\ r.form # <<>> => r.method = "POST"
        /\ Len(st) \in Nat /\ e <= Len(st) /\ k <= Len(convo) /\ Len(convo) \in Nat
    BY <1>2, <1>3, DueInStream, EndsAre DEF ShapeAt, AtBody, IInv
  <1>5. t = q + 5 * Lines(r) + 7 /\ Knows(r, Lines(r) + 1)
    BY <1>2, <1>3 DEF AtBody
  <1>6. /\ t \in Nat
        /\ r.form = <<>> => t = e
        /\ r.form # <<>> => t < e
    BY <1>4, <1>5, BehindEmptyLine
  <1>7. r.form # <<>> => Part(st, t, Body(r)) /\ e = t + Len(Body(r))
    BY <1>4, <1>5 DEF ShapeAt
  <1>8. m \in Nat /\ m > 0 /\ t + m <= Len(st)
    BY <1>1, <1>3, FrontOfStream DEF PInv
  <1>9. /\ h_method' = h_method /\ h_method \in {r.method, "other"} /\ h_path = Html(r.path)
        /\ whole => h_method = r.method
        /\ h_version' = <<Sym("version", "1.1")>>
        /\ h_header = HeaderAt(r, Lines(r) + 1) /\ h_header' = h_header
        /\ DOMAIN h_header' = Names
    BY <1>1, <1>5 DEF Knows, HeaderAt
  <1>10. h_header["Content-Type"] = <<UrlEncoded>> => r.form # <<>>
    <2>1. h_header["Content-Type"] =
            IF r.form # <<>> /\ Lines(r) + 1 > Lines(r) THEN <<UrlEncoded>> ELSE <<>>
      BY <1>9 DEF HeaderAt, Names
    <2>2. <<>> # <<UrlEncoded>>
      OBVIOUS
    <2> QED
      BY <2>1, <2>2
  <1>11. r.form # <<>> => h_header["Content-Type"] = <<UrlEncoded>>
    <2>1. Lines(r) + 1 > Lines(r)
      BY <1>4, LinesAre
    <2> QED
      BY <1>9, <2>1 DEF HeaderAt, Names
  <1>12. IsKeepAlive' = r.keep
    <2>1. h_header'["Connection"] = IF r.keep /\ Lines(r) + 1 > 2 THEN <<KeepAlive>> ELSE <<>>
      BY <1>9 DEF HeaderAt, Names
    <2>2. <<>> # <<KeepAlive>> /\ r.keep \in BOOLEAN /\ (r.keep => Lines(r) + 1 > 2)
      <3>1. r.keep => 2 <= Lines(r)
        BY <1>4, LinesAre
      <3> QED
        BY <1>4, <3>1, LinesAre DEF Request
    <2>3. IsKeepAlive' \in BOOLEAN
      BY DEF IsKeepAlive
    <2>4. IsKeepAlive' <=> r.keep
      BY <1>9, <2>1, <2>2 DEF IsKeepAlive
    <2> QED
      BY <2>2, <2>3, <2>4
  <1>13. h_path' \in Pages(r)
    <2>1. CASE h_method = "POST" /\ h_header["Content-Type"] = <<UrlEncoded>>
      <3>1. h_path' \in IF h_path \notin {"/login.html", "/register.html"} THEN {h_path}
                        ELSE IF <<>> \in ToSet(h_post') THEN {"/error.html"}
                        ELSE {"/welcome.html", "/error.html"}
        BY <2>1 DEF ParseBody
      <3>2. r.form # <<>>
        BY <1>10, <2>1
      <3> QED
        BY <1>9, <3>1, <3>2 DEF Pages
    <2>2. CASE ~(h_method = "POST" /\ h_header["Content-Type"] = <<UrlEncoded>>)
      <3>1. h_path' = h_path
        BY <2>2 DEF ParseBody
      <3> QED
        BY <1>9, <3>1 DEF Pages
    <2> QED
      BY <2>1, <2>2
  \* Between the empty line and the end of the request there is the form.
  <1>14. ASSUME NEW x \in Nat, t <= x, x < e
         PROVE  x < Len(st) /\ st[x + 1].kind \in {"username=", "&password=", "text"}
    <2>1. r.form # <<>>
      BY <1>4, <1>6, <1>14
    <2> QED
      BY <1>4, <1>7, <1>14, <2>1, InForm
  <1>15. ASSUME k < Len(convo)
         PROVE  /\ st[e + 1].kind \in {"GET", "POST"} /\ st[e + 2].kind = "HTTP/"
                /\ st[e + 3].kind = "version"
                /\ st[e + 4] = CR /\ st[e + 5] = LF
                /\ st[e + 6].kind = "name" /\ st[e + 7].kind = ":" /\ st[e + 8].kind = "value"
                /\ st[e + 9] = CR /\ st[e + 10] = LF
    <2>1. k + 1 \in 1..Len(convo) /\ (k + 1) - 1 = k
      BY <1>4, <1>15
    <2>2. ShapeAt(st, Ends[k], Ends[k + 1], convo[k + 1]) /\ convo[k + 1] \in Request
      <3>1. /\ ShapeAt(Stream, Ends[(k + 1) - 1], Ends[k + 1], convo[k + 1])
            /\ convo[k + 1] \in Request
        BY <2>1, EndsAre DEF IInv
      <3> QED
        BY <1>3, <2>1, <3>1
    <2>3. PICK s, f : s = convo[k + 1] /\ f = Ends[k + 1]
      OBVIOUS
    <2>4. ShapeAt(st, e, f, s) /\ s \in Request /\ Len(st) \in Nat
      BY <1>3, <1>4, <2>2, <2>3
    <2> QED
      BY <2>4, FirstSymbols
  \* Where Parse may stop, the next request follows, or it is lost.
  <1>16. ASSUME NEW x \in Nat, t <= x, x <= e + 5, x > e + 1 => k < Len(convo)
         PROVE  Follows(x, k + 1)
    <2>1. CASE x <= e + 1
      <3>1. q + 5 * Lines(r) + 6 <= x
        <4>1. Lines(r) \in Nat
          BY <1>4, LinesAre
        <4> QED
          BY <1>4, <1>5, <1>16, <4>1
      <3> QED
        BY <1>3, <1>4, <1>16, <2>1, <3>1, BetweenRequests
    <2>2. CASE x > e + 1
      <3>1. x = e + 2 \/ x = e + 3 \/ x = e + 4 \/ x = e + 5
        BY <1>4, <1>16, <2>2
      <3>2. ASSUME NEW n \in Nat, x + n = e + 3 \/ x + n = e + 8,
                   \A i \in 1..n : st[x + i].kind # "HTTP/"
            PROVE  LostAt(x)
        <4>1. \/ x + n + 1 = e + 4 /\ x + n + 2 = e + 5
              \/ x + n + 1 = e + 9 /\ x + n + 2 = e + 10
          BY <1>4, <3>2
        <4>2. st[x + n + 1] = CR /\ st[x + n + 2] = LF
          BY <1>15, <1>16, <2>2, <4>1
        <4> QED
          BY <1>3, <1>4, <3>2, <4>2, LineIsLost
      <3>3. CASE x = e + 2
        <4>1. \A i \in 1..1 : x + i = e + 3
          BY <1>4, <3>3
        <4>2. x + 1 = e + 3 /\ st[e + 3].kind # "HTTP/"
          BY <1>4, <1>15, <1>16, <2>2, <3>3
        <4> QED
          BY <3>2, <4>1, <4>2 DEF Follows
      <3>4. CASE x = e + 3
        <4>1. x + 0 = e + 3 /\ \A i \in 1..0 : st[x + i].kind # "HTTP/"
          BY <1>4, <3>4
        <4> QED
          BY <3>2, <4>1 DEF Follows
      <3>5. CASE x = e + 4
        <4>1. \A i \in 1..4 : x + i \in {e + 5, e + 6, e + 7, e + 8}
          BY <1>4, <3>5
        <4>3. \A y \in {e + 5, e + 6, e + 7, e + 8} : st[y].kind # "HTTP/"
          BY <1>15, <1>16, <2>2, KindOf
        <4>4. x + 4 = e + 8
          BY <1>4, <3>5
        <4>2. x + 4 = e + 8 /\ \A i \in 1..4 : st[x + i].kind # "HTTP/"
          BY <4>1, <4>3, <4>4
        <4> QED
          BY <3>2, <4>2 DEF Follows
      <3>6. CASE x = e + 5
        <4>1. \A i \in 1..3 : x + i \in {e + 6, e + 7, e + 8}
          BY <1>4, <3>6
        <4>3. \A y \in {e + 6, e + 7, e + 8} : st[y].kind # "HTTP/"
          BY <1>15, <1>16, <2>2
        <4>2. x + 3 = e + 8 /\ \A i \in 1..3 : st[x + i].kind # "HTTP/"
          BY <1>4, <3>6, <4>1, <4>3
        <4> QED
          BY <3>2, <4>2 DEF Follows
      <3> QED
        BY <3>1, <3>3, <3>4, <3>5, <3>6
    <2> QED
      BY <1>4, <1>16, <2>1, <2>2
  <1>17. IF k = Len(convo) THEN l = m /\ t + m <= e
         ELSE l = IF (e - t) + 5 <= m THEN (e - t) + 3 ELSE m
    <2>1. CASE k = Len(convo)
      <3>1. e = Len(st)
        BY <1>3, <2>1, EndsAre DEF IInv
      <3>2. ASSUME NEW i \in 1..m PROVE st[t + i] # CR
        <4>1. t + (i - 1) \in Nat /\ t <= t + (i - 1) /\ t + (i - 1) < e /\ t + (i - 1) + 1 = t + i
          BY <1>6, <1>8, <3>1
        <4>2. st[t + i].kind \in {"username=", "&password=", "text"}
          BY <1>14, <4>1
        <4> QED
          BY <4>2, KindOf
      <3>3. l = m
        BY <1>3, <3>2, LineIsAll
      <3> QED
        BY <1>8, <2>1, <3>1, <3>3
    <2>2. CASE k # Len(convo)
      <3>1. k < Len(convo)
        BY <1>4, <2>2
      <3>2. PICK E : E = (e - t) + 3
        OBVIOUS
      <3>3. t <= e
        BY <1>4, <1>6
      <3>4. /\ E \in Nat /\ t + E + 1 = e + 4 /\ t + E + 2 = e + 5
            /\ E + 2 = (e - t) + 5
        BY <1>4, <1>6, <3>2, <3>3
      <3>5. ASSUME NEW i \in 1..E PROVE st[t + i] # CR
        <4>1. CASE i <= e - t
          <5>1. t + (i - 1) \in Nat /\ t <= t + (i - 1) /\ t + (i - 1) < e /\ t + (i - 1) + 1 = t + i
            BY <1>4, <1>6, <3>4, <4>1
          <5>2. st[t + i].kind \in {"username=", "&password=", "text"}
            BY <1>14, <5>1
          <5> QED
            BY <5>2, KindOf
        <4>2. CASE ~(i <= e - t)
          <5>1. t + i = e + 1 \/ t + i = e + 2 \/ t + i = e + 3
            BY <1>4, <1>6, <3>2, <3>3, <3>4, <4>2
          <5>2. st[t + i].kind \in {"GET", "POST", "HTTP/", "version"}
            BY <1>15, <3>1, <5>1
          <5> QED
            BY <5>2, KindOf
        <4> QED
          BY <4>1, <4>2
      <3>6. st[t + E + 1] = CR /\ st[t + E + 2] = LF
        BY <1>15, <3>1, <3>4
      <3>7. l = IF E + 2 <= m THEN E ELSE m
        BY <1>3, <3>4, <3>5, <3>6, LineIsUpTo
      <3> QED
        BY <2>2, <3>2, <3>4, <3>7
    <2> QED
      BY <2>1, <2>2
  <1>18. ASSUME whole
         PROVE  /\ r.form # <<>> /\ r.method = "POST" /\ l = m
                /\ h_post' = r.form /\ h_path' \notin {"/login.html", "/register.html"}
    <2>1. t + m = e
      BY <1>1, <1>3, <1>18 DEF PInv, IsWhole
    <2>2. r.form # <<>> /\ r.method = "POST"
      BY <1>4, <1>6, <1>8, <2>1
    <2>3. l = m
      <3>1. ~((e - t) + 5 <= m)
        BY <1>6, <1>8, <2>1
      <3> QED
        BY <1>17, <3>1
    <2>4. TheLine = Body(r)
      <3>1. PICK b, n : b = Body(r) /\ n = Len(b)
        OBVIOUS
      <3>2. n \in Nat /\ e = t + n /\ b \in Seq(Symbols) /\ \A i \in 1..n : st[t + i] = b[i]
        BY <1>4, <1>7, <2>2, <3>1, BodyIsSymbols DEF Part
      <3>3. n = m
        BY <1>6, <1>8, <2>1, <3>2
      <3>4. /\ TheLine \in Seq(Symbols) /\ Len(TheLine) = m
            /\ \A i \in 1..m : TheLine[i] = st[t + i]
        BY <1>3, <2>3, TheLineIs
      <3>5. TheLine = b
        <4>1. \A i \in 1..Len(TheLine) : TheLine[i] = b[i]
          BY <3>2, <3>3, <3>4
        <4>2. Len(TheLine) = Len(b)
          BY <3>1, <3>3, <3>4
        <4> QED
          BY <3>2, <3>4, <4>1, <4>2, SeqEqual
      <3> QED
        BY <3>1, <3>5
    <2>5. /\ h_post' = <<Field(TheLine, "username="), Field(TheLine, "&password=")>>
          /\ h_path' \in IF h_path \notin {"/login.html", "/register.html"} THEN {h_path}
                         ELSE IF <<>> \in ToSet(h_post') THEN {"/error.html"}
                         ELSE {"/welcome.html", "/error.html"}
      BY <1>9, <1>11, <1>18, <2>2 DEF ParseBody
    <2>6. h_post' = r.form
      BY <1>4, <2>2, <2>4, <2>5, FieldsAre
    <2> QED
      BY <2>2, <2>3, <2>5, <2>6
  <1>19. ASSUME NEW n \in Nat, Follows(t + n, k + 1), whole => n = m
         PROVE  Returns(n)
    BY <1>3, <1>4, <1>9, <1>12, <1>13, <1>18, <1>19 DEF Returns
  <1>20. ASSUME NEW n \in 0..m, Follows(t + n, k + 1), whole => n = m, Consume(n, FALSE)
         PROVE  PInv'
    <2>1. n \in Nat
      BY <1>8
    <2>2. Returns(n)
      BY <1>19, <1>20, <2>1
    <2> QED
      BY <1>1, <1>3, <1>9, <1>20, <2>2, AfterLine
  <1>21. CASE l = m /\ h_method = "POST"
    <2>1. Consume(m, FALSE)
      BY <1>1, <1>3, <1>9, <1>21 DEF EndOfLine
    <2>2. t + m <= e + 5 /\ (t + m > e + 1 => k < Len(convo))
      <3>1. CASE k = Len(convo)
        BY <1>4, <1>6, <1>8, <1>17, <3>1
      <3>2. CASE k # Len(convo)
        <4>1. ~((e - t) + 5 <= m)
          <5>1. CASE (e - t) + 5 <= m
            <6>1. m = (e - t) + 3
              BY <1>17, <1>21, <3>2, <5>1
            <6> QED
              BY <1>4, <1>6, <1>8, <5>1, <6>1
          <5> QED
            BY <5>1
        <4>2. k < Len(convo)
          BY <1>4, <3>2
        <4> QED
          BY <1>4, <1>6, <1>8, <4>1, <4>2
      <3> QED
        BY <3>1, <3>2
    <2>3. Follows(t + m, k + 1)
      <3>1. t + m \in Nat /\ t <= t + m
        BY <1>6, <1>8
      <3> QED
        BY <1>16, <2>2, <3>1
    <2>4. m \in 0..m
      BY <1>8
    <2> QED
      BY <1>20, <2>1, <2>3, <2>4
  <1>22. CASE l = m /\ h_method # "POST"
    <2>1. Consume(0, FALSE)
      BY <1>1, <1>3, <1>9, <1>22 DEF EndOfLine
    <2>2. 0 \in 0..m /\ t + 0 = t /\ t <= e + 5 /\ t <= e + 1
      BY <1>4, <1>6, <1>8
    <2>3. ~whole
      BY <1>9, <1>18, <1>22
    <2>4. Follows(t + 0, k + 1)
      BY <1>4, <1>6, <1>16, <2>2
    <2> QED
      BY <1>20, <2>1, <2>2, <2>3, <2>4
  <1>23. CASE l # m
    <2>1. k < Len(convo) /\ (e - t) + 5 <= m /\ l = (e - t) + 3
      BY <1>4, <1>17, <1>23
    <2>2. PICK n : n = l + 2
      OBVIOUS
    <2>3. Consume(n, FALSE)
      <3>1. Consume(l + 2, h_state' # "FINISH")
        BY <1>1, <1>3, <1>23 DEF EndOfLine
      <3>2. (h_state' # "FINISH") = FALSE
        BY <1>1
      <3> QED
        BY <2>2, <3>1, <3>2
    <2>4. t <= e
      BY <1>4, <1>6
    <2>5. n \in 0..m /\ t + n = e + 5 /\ e + 5 \in Nat /\ t <= e + 5 /\ e + 5 <= e + 5
      BY <1>4, <1>6, <1>8, <2>1, <2>2, <2>4
    <2>6. Follows(e + 5, k + 1)
      BY <1>16, <2>1, <2>5
    <2>7. ~whole
      BY <1>18, <1>23
    <2> QED
      BY <1>20, <2>3, <2>5, <2>6, <2>7
  <1> QED
    BY <1>21, <1>22, <1>23

\* Every step keeps it.
LEMMA ParseHolds == IInv /\ PInv /\ [Next]_vars => PInv'
  <1> SUFFICES ASSUME IInv, PInv, [Next]_vars PROVE PInv'
    OBVIOUS
  <1>1. CASE Send \/ Readiness \/ Read
    BY <1>1, ReceiveHolds
  <1>2. CASE Process
    BY <1>2, ProcessHolds
  <1>3. CASE ParseRequestLine
    BY <1>3, RequestLineHolds
  <1>4. CASE BadRequestLine
    BY <1>4, BadHolds
  <1>5. CASE ParseHeader
    BY <1>5, ParseHeaderHolds
  <1>6. CASE ParseBody
    BY <1>6, ParseBodyHolds
  <1>7. CASE Answer
    BY <1>7, AnswerHolds
  <1>8. CASE UNCHANGED vars
    <2>1. UNCHANGED <<convo, taken, answers, pc, h_readBuff, ok, whole>> /\ UNCHANGED request
      BY <1>8 DEF vars
    <2>2. UNCHANGED Stream /\ UNCHANGED Ends /\ UNCHANGED Due
      BY <2>1, StreamStays DEF Due
    <2>3. UNCHANGED Follows(taken, Due) /\ UNCHANGED Follows(taken, Due + 1)
      BY <2>1, <2>2 DEF Follows, OnAt, LostAt
    <2>4. UNCHANGED Answered /\ UNCHANGED IsWhole /\ UNCHANGED AtBody /\ UNCHANGED AtHeaders
      BY <2>1, <2>2
      DEF request, Answered, IsWhole, WholeIsParsed, IsKeepAlive, AtBody, AtHeaders, Knows
    <2>5. UNCHANGED AtAnswer
      BY <2>1, <2>2, <2>3 DEF request, AtAnswer, IsKeepAlive
    <2>6. UNCHANGED AtRequestLine
      BY <2>1, <2>2, <2>3 DEF request, AtRequestLine
    <2> QED
      BY <2>1, <2>3, <2>4, <2>5, <2>6 DEF PInv, request
  <1> QED
    BY <1>1, <1>2, <1>3, <1>4, <1>5, <1>6, <1>7, <1>8 DEF Next

-------------------------------------------------------------------------------
(* The theorems *)

\* What is readable, what is in the socket and what is not sent yet are the rest
\* of the client's stream, behind what Parse has taken: HttpConn::Read and the
\* Retrieve calls of Parse lose, double and reorder nothing.
THEOREM QueueOfSymbols == Spec => []BufferIsQueue
  <1>1. IInv => BufferIsQueue
    BY DEF IInv
  <1> QED
    BY <1>1, InitHolds, StepHolds, PTL DEF Spec

\* However the stream is cut up or requests are joined, HttpConn::process answers
\* request after request: an answer is a page of the request that is due, or the
\* last one, of 400; only a request that asks for it keeps the connection.
THEOREM PagesAreRequests == Spec => []AnswersAreRequests
  <1>1. PInv => AnswersAreRequests
    BY DEF PInv, Answered, AnswersAreRequests
  <1> QED
    BY <1>1, InitHolds, StepHolds, PInit, ParseHolds, PTL DEF Spec

\* A request that is alone and whole when process looks is parsed as what it is:
\* Parse ends with its method, a page of it, its form, its wish to keep the
\* connection, and an empty buffer.
THEOREM WholeRequestIsParsed == Spec => []WholeIsParsed
  <1>1. PInv => WholeIsParsed
    BY DEF PInv, IsWhole
  <1> QED
    BY <1>1, InitHolds, StepHolds, PInit, ParseHolds, PTL DEF Spec
===============================================================================
