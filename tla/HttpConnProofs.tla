----------------------------- MODULE HttpConnProofs -----------------------------
(***************************************************************************)
(* Theorems about HttpConn, for any site, any lengths of heads and files,  *)
(* any content of uninitialised memory, any number of answers, and any way *)
(* in which writev cuts them up                                            *)
(***************************************************************************)
EXTENDS HttpConn, FiniteSetTheorems, SequenceTheorems, TLAPS

\* An answer is on its way.
Answering == pc \in {"out", "write", "decide"}

\* What has been announced and not received is what the iovecs offer to writev.
Flow == want = got \o Offered

\* The iovecs point at what is left in h_writeBuff and at the file that is mapped.
Pointing ==
    /\ iov0.len = Len(h_writeBuff.data) - h_writeBuff.readPos
    /\ iov0.len > 0 => iov0.at = h_writeBuff.readPos
    /\ h_iovCnt \in {1, 2}
    /\ h_iovCnt = 2 => iov1.of = mmFile /\ mmFile # 0

\* Between two answers nothing is left to send.
Settled == got = want /\ h_writeBuff.readPos = Len(h_writeBuff.data)

\* Why Write has returned.
Returned ==
    /\ ret # "none"
    /\ ret = "sent" => ~isET /\ ToWriteBytes <= Rest
    /\ ret = "zero" => Offered = <<>>

\* What is lost, is of odd files: all mappings but the one of mmFile.
Odd ==
    /\ maps \subseteq 1..answers /\ srcFds \subseteq 1..answers
    /\ Cardinality(maps \ {mmFile}) = odd
    /\ Cardinality(srcFds) = odd
    /\ pc = "closed" => mmFile = 0

IInv ==
    /\ TypeOK
    /\ odd <= answers
    /\ Answering => Flow /\ Pointing
    /\ pc \in {"read", "process"} => Settled
    /\ pc = "decide" => Returned
    /\ IntactStream
    /\ pc # "closed" => ending = "none"

-------------------------------------------------------------------------------
(* Lemmas on sequences *)

\* What two iovecs offer.
OfferedBy(data, a0, l0, of, a1, l1, cnt) ==
    SubSeq(data, a0 + 1, a0 + l0) \o
    (IF cnt = 2 THEN Units(of, "file", a1 + 1, a1 + l1) ELSE <<>>)

\* A function on 1..n is a sequence of length n.
LEMMA FunctionIsSeq ==
    ASSUME NEW S, NEW n \in Nat, NEW f \in [1..n -> S]
    PROVE  f \in Seq(S) /\ Len(f) = n
  <1>1. f \in UNION {[1..m -> S] : m \in Nat}
    OBVIOUS
  <1>2. f \in Seq(S)
    BY <1>1, SeqDef, Zenon
  <1> QED
    BY <1>2

UnitAt(n, part, at) == [of |-> n, part |-> part, at |-> at]

\* Units are a sequence, numbered upwards.
LEMMA UnitsShape ==
    ASSUME NEW n, NEW part, part \in {"head", "error", "file"},
           NEW from \in Nat, NEW to \in Nat, from <= to + 1, from <= to => n \in 1..MaxAnswers
    PROVE  /\ Units(n, part, from, to) \in Seq(Unit)
           /\ Len(Units(n, part, from, to)) = to - from + 1
           /\ \A i \in 1..(to - from + 1) :
                 Units(n, part, from, to)[i] = UnitAt(n, part, from + i - 1)
  <1> DEFINE e(i) == UnitAt(n, part, from + i - 1)
             len == to - from + 1
  <1>1. len \in Nat
    OBVIOUS
  <1>2. \A i \in 1..len : e(i) \in Unit
    BY DEF Unit, UnitAt
  <1>3. Units(n, part, from, to) = [i \in 1..len |-> e(i)]
    BY DEF Units, UnitAt
  <1>4. [i \in 1..len |-> e(i)] \in [1..len -> Unit]
    BY <1>2
  <1> HIDE DEF e
  <1>5. Units(n, part, from, to) \in [1..len -> Unit]
    BY <1>3, <1>4
  <1>6. Units(n, part, from, to) \in Seq(Unit) /\ Len(Units(n, part, from, to)) = len
    BY <1>1, <1>5, FunctionIsSeq
  <1>7. \A i \in 1..len : Units(n, part, from, to)[i] = e(i)
    BY <1>3
  <1> QED
    BY <1>6, <1>7 DEF e

\* The units of a part, from the first on.
LEMMA UnitsFromOne ==
    ASSUME NEW n \in 1..MaxAnswers, NEW part,
           part \in {"head", "error", "file"}, NEW len \in Nat
    PROVE  Units(n, part, 1, len) \in Seq(Unit) /\ Len(Units(n, part, 1, len)) = len
  <1>1. PICK from \in Nat : from = 1
    OBVIOUS
  <1>2. /\ Units(n, part, from, len) \in Seq(Unit)
        /\ Len(Units(n, part, from, len)) = len - from + 1
    <2>1. from <= len + 1 /\ n \in 1..MaxAnswers
      BY <1>1
    <2>2. Units(n, part, from, len) \in Seq(Unit)
      BY <2>1, UnitsShape
    <2>3. Len(Units(n, part, from, len)) = len - from + 1
      BY <2>1, UnitsShape
    <2> QED
      BY <2>2, <2>3
  <1> QED
    BY <1>1, <1>2

\* len elements of a sequence, behind the first at.
LEMMA SubSeqShape ==
    ASSUME NEW S, NEW data \in Seq(S), NEW at \in Nat, NEW len \in Nat,
           len > 0 => at + len <= Len(data)
    PROVE  /\ SubSeq(data, at + 1, at + len) \in Seq(S)
           /\ Len(SubSeq(data, at + 1, at + len)) = len
           /\ \A i \in 1..len : SubSeq(data, at + 1, at + len)[i] = data[at + i]
  <1>1. CASE len = 0
    <2>1. SubSeq(data, at + 1, at + len) = <<>>
      BY <1>1, SubSeqEmpty
    <2> QED
      BY <1>1, <2>1, EmptySeq
  <1>2. CASE len > 0
    <2> DEFINE m == at + 1
               n == at + len
    <2>1. /\ m \in Int /\ n \in Int /\ m <= n /\ n - m + 1 = len
          /\ \A i \in m..n : i \in 1..Len(data)
      BY <1>2, LenProperties
    <2> HIDE DEF m, n
    <2>4. \A i \in m..n : data[i] \in S
      BY <2>1, ElementOfSeq
    <2>2. /\ SubSeq(data, m, n) \in Seq(S)
          /\ Len(SubSeq(data, m, n)) = n - m + 1
          /\ \A i \in 1..(n - m + 1) : SubSeq(data, m, n)[i] = data[m + i - 1]
      BY <2>1, <2>4, SubSeqProperties
    <2>3. m = at + 1 /\ n = at + len /\ \A i \in 1..len : m + i - 1 = at + i
      BY DEF m, n
    <2> QED
      BY <2>1, <2>2, <2>3
  <1>3. len = 0 \/ len > 0
    OBVIOUS
  <1> QED
    BY <1>1, <1>2, <1>3, Zenon

\* s has the units on offer, one by one.
IsOffer(s, data, a0, l0, of, a1, l1, cnt) ==
    /\ s \in Seq(Unit)
    /\ Len(s) = l0 + (IF cnt = 2 THEN l1 ELSE 0)
    /\ \A i \in 1..Len(s) : s[i] = IF i <= l0 THEN data[a0 + i]
                                   ELSE UnitAt(of, "file", a1 + i - l0)

LEMMA OfferedShape ==
    ASSUME NEW data \in Seq(Unit), NEW a0 \in Nat, NEW l0 \in Nat, l0 > 0 => a0 + l0 <= Len(data),
           NEW of, NEW a1 \in Nat, NEW l1 \in Nat,
           NEW cnt \in {1, 2}, cnt = 2 => of \in 1..MaxAnswers
    PROVE  /\ OfferedBy(data, a0, l0, of, a1, l1, cnt) \in Seq(Unit)
           /\ Len(OfferedBy(data, a0, l0, of, a1, l1, cnt)) = l0 + (IF cnt = 2 THEN l1 ELSE 0)
           /\ \A i \in 1..Len(OfferedBy(data, a0, l0, of, a1, l1, cnt)) :
                 OfferedBy(data, a0, l0, of, a1, l1, cnt)[i] =
                     IF i <= l0 THEN data[a0 + i]
                     ELSE UnitAt(of, "file", a1 + i - l0)
  <1> DEFINE head == SubSeq(data, a0 + 1, a0 + l0)
             file == Units(of, "file", a1 + 1, a1 + l1)
             s == OfferedBy(data, a0, l0, of, a1, l1, cnt)
  <1>1. /\ head \in Seq(Unit)
        /\ Len(head) = l0
        /\ \A i \in 1..l0 : head[i] = data[a0 + i]
    BY SubSeqShape
  <1>2. CASE cnt = 1
    <2>1. s = head
      BY <1>1, <1>2, ConcatEmptySeq DEF OfferedBy
    <2> HIDE DEF head, s
    <2>2. Len(s) = l0 + (IF cnt = 2 THEN l1 ELSE 0)
      BY <1>1, <1>2, <2>1
    <2>3. \A i \in 1..Len(s) : i <= l0 /\ s[i] = data[a0 + i]
      BY <1>1, <2>1
    <2> QED
      BY <1>1, <2>1, <2>2, <2>3 DEF s
  <1>3. CASE cnt = 2
    <2> DEFINE from == a1 + 1
               to == a1 + l1
    <2>1. /\ from \in Nat /\ to \in Nat /\ from <= to + 1
          /\ to - from + 1 = l1
          /\ \A i \in 1..l1 : from + i - 1 = a1 + i
      OBVIOUS
    <2>2. of \in 1..MaxAnswers
      BY <1>3
    <2>3. s = head \o Units(of, "file", from, to)
      BY <1>3 DEF OfferedBy
    <2> HIDE DEF head, file, s, from, to
    <2>4. /\ Units(of, "file", from, to) \in Seq(Unit)
          /\ Len(Units(of, "file", from, to)) = to - from + 1
          /\ \A i \in 1..(to - from + 1) :
                Units(of, "file", from, to)[i] = UnitAt(of, "file", from + i - 1)
      <3>1. Units(of, "file", from, to) \in Seq(Unit)
        BY <2>1, <2>2, UnitsShape
      <3>2. Len(Units(of, "file", from, to)) = to - from + 1
        BY <2>1, <2>2, UnitsShape
      <3> QED
        BY <3>1, <3>2 DEF Units, UnitAt
    <2>5. file = Units(of, "file", from, to)
      BY DEF file, from, to
    <2>6. /\ file \in Seq(Unit)
          /\ Len(file) = l1
          /\ \A i \in 1..l1 : file[i] = UnitAt(of, "file", a1 + i)
      BY <2>1, <2>4, <2>5
    <2>7. /\ s \in Seq(Unit)
          /\ Len(s) = Len(head) + Len(file)
          /\ \A i \in 1..(Len(head) + Len(file)) :
                s[i] = IF i <= Len(head) THEN head[i] ELSE file[i - Len(head)]
      <3>1. s = head \o file /\ head \in Seq(Unit) /\ file \in Seq(Unit)
        BY <1>1, <2>3, <2>5, <2>6
      <3> QED
        BY <3>1, ConcatProperties
    <2>8. /\ Len(s) = l0 + l1
          /\ \A i \in 1..(l0 + l1) : s[i] = IF i <= l0 THEN head[i] ELSE file[i - l0]
      BY <1>1, <2>6, <2>7
    <2>9. ASSUME NEW i \in 1..Len(s)
          PROVE  s[i] = IF i <= l0 THEN data[a0 + i]
                        ELSE UnitAt(of, "file", a1 + i - l0)
      <3>1. CASE i <= l0
        BY <1>1, <2>8, <3>1
      <3>2. CASE i > l0
        <4>1. i - l0 \in 1..l1 /\ s[i] = file[i - l0]
          BY <2>8, <3>2
        <4>2. a1 + (i - l0) = a1 + i - l0
          OBVIOUS
        <4> QED
          BY <2>6, <3>2, <4>1, <4>2
      <3> QED
        BY <3>1, <3>2
    <2> QED
      BY <1>3, <2>7, <2>8, <2>9 DEF s
  <1> QED
    BY <1>2, <1>3

\* The first iovec stays in the buffer, the second has a file.
Fits(data, a0, l0) == l0 > 0 => a0 + l0 <= Len(data)
HasFile(cnt, of) == cnt = 2 => of \in 1..MaxAnswers

\* What the iovecs may be.
Iovecs(data, a0, l0, of, a1, l1, cnt) ==
    /\ data \in Seq(Unit)
    /\ a0 \in Nat /\ l0 \in Nat /\ a1 \in Nat /\ l1 \in Nat
    /\ of \in 0..MaxAnswers /\ cnt \in {1, 2}
    /\ Fits(data, a0, l0)
    /\ HasFile(cnt, of)

LEMMA OfferedIsOffer ==
    \A data, a0, l0, of, a1, l1, cnt :
        Iovecs(data, a0, l0, of, a1, l1, cnt) =>
            IsOffer(OfferedBy(data, a0, l0, of, a1, l1, cnt), data, a0, l0, of, a1, l1, cnt)
  <1>1. \A data \in Seq(Unit), a0, l0, a1, l1 \in Nat, of \in 0..MaxAnswers, cnt \in {1, 2} :
            Fits(data, a0, l0) /\ HasFile(cnt, of) =>
                IsOffer(OfferedBy(data, a0, l0, of, a1, l1, cnt), data, a0, l0, of, a1, l1, cnt)
    BY OfferedShape DEF IsOffer, Fits, HasFile
  <1>2. SUFFICES ASSUME NEW data, NEW a0, NEW l0, NEW of, NEW a1, NEW l1, NEW cnt,
                        Iovecs(data, a0, l0, of, a1, l1, cnt)
                 PROVE  IsOffer(OfferedBy(data, a0, l0, of, a1, l1, cnt),
                                data, a0, l0, of, a1, l1, cnt)
    BY Zenon
  <1>3. /\ data \in Seq(Unit)
        /\ a0 \in Nat /\ l0 \in Nat /\ a1 \in Nat /\ l1 \in Nat
        /\ of \in 0..MaxAnswers /\ cnt \in {1, 2}
        /\ Fits(data, a0, l0) /\ HasFile(cnt, of)
    BY <1>2, Zenon DEF Iovecs
  <1> HIDE <1>2
  <1> QED
    BY <1>1, <1>3, Zenon

\* q is what stays of r when n units are gone.
IsRest(q, r, n) ==
    /\ q \in Seq(Unit)
    /\ Len(q) = Len(r) - n
    /\ \A i \in 1..Len(q) : q[i] = r[n + i]

\* A sequence is a prefix of itself with anything behind it.
LEMMA PrefixOfConcat ==
    ASSUME NEW s \in Seq(Unit), NEW r \in Seq(Unit)
    PROVE  IsPrefix(s, s \o r)
  <1>1. /\ s \o r \in Seq(Unit)
        /\ Len(s \o r) = Len(s) + Len(r)
        /\ Len(s) \in Nat /\ Len(r) \in Nat
    BY ConcatProperties, LenProperties
  <1>2. SubSeq(s, 1, Len(s)) = s
    BY SubSeqFull
  <1>3. SubSeq(s \o r, 1, Len(s)) = s
    <2>1. CASE Len(s) = 0
      <3>1. s = <<>>
        BY <2>1, EmptySeq
      <3> QED
        BY <2>1, <3>1, SubSeqEmpty
    <2>2. CASE Len(s) > 0
      BY <1>1, <1>2, <2>2, SubSeqOfConcat1
    <2> QED
      BY <1>1, <2>1, <2>2
  <1> QED
    BY <1>1, <1>2, <1>3 DEF IsPrefix


\* c is s with t behind it.
IsConcat(c, s, t) ==
    /\ c \in Seq(Unit)
    /\ Len(c) = Len(s) + Len(t)
    /\ \A i \in 1..Len(c) : c[i] = IF i <= Len(s) THEN s[i] ELSE t[i - Len(s)]

LEMMA ConcatIs == \A s, t \in Seq(Unit) : IsConcat(s \o t, s, t)
  BY ConcatProperties DEF IsConcat

LEMMA Associative == \A s, t, u \in Seq(Unit) : s \o (t \o u) = (s \o t) \o u
  BY ConcatAssociative

\* What is taken from the front of r and what stays of it are still r.
LEMMA TakeUnits ==
    ASSUME NEW s \in Seq(Unit), NEW r \in Seq(Unit), NEW q \in Seq(Unit),
           NEW n \in Nat, n > 0, n <= Len(r), IsRest(q, r, n)
    PROVE  /\ s \o SubSeq(r, 1, n) \in Seq(Unit)
           /\ s \o r = (s \o SubSeq(r, 1, n)) \o q
  <1> DEFINE p == SubSeq(r, 1, n)
  <1>1. Len(r) \in Nat /\ Len(s) \in Nat /\ n \in Nat /\ n <= Len(r)
    BY LenProperties
  <1>2. p \in Seq(Unit) /\ Len(p) = n /\ \A i \in 1..n : p[i] = r[i]
    BY <1>1
  <1> HIDE DEF p
  <1>6. Len(q) = Len(r) - n /\ \A i \in 1..Len(q) : q[i] = r[n + i]
    BY DEF IsRest
  <1>3. r = p \o q
    <2> DEFINE c == p \o q
    <2>1. q \in Seq(Unit) /\ p \in Seq(Unit)
      BY <1>2
    <2>2. IsConcat(c, p, q)
      BY <2>1, ConcatIs, Zenon
    <2> HIDE DEF c
    <2>3. c \in Seq(Unit) /\ Len(c) = Len(r)
      BY <1>1, <1>2, <1>6, <2>2 DEF IsConcat
    <2>4. ASSUME NEW i \in 1..Len(r) PROVE c[i] = r[i]
      <3>1. c[i] = IF i <= n THEN p[i] ELSE q[i - n]
        BY <1>2, <2>2, <2>3 DEF IsConcat
      <3>2. CASE i <= n
        BY <1>1, <1>2, <3>1, <3>2
      <3>3. CASE i > n
        <4>1. i - n \in 1..Len(q) /\ n + (i - n) = i
          BY <1>1, <1>6, <3>3
        <4>2. q[i - n] = r[n + (i - n)]
          BY <1>6, <4>1
        <4> QED
          BY <1>1, <3>1, <3>3, <4>1, <4>2
      <3>4. i <= n \/ i > n
        BY <1>1
      <3> QED
        BY <3>2, <3>3, <3>4
    <2> QED
      BY <2>3, <2>4, SeqEqual DEF c
  <1>4. s \o p \in Seq(Unit)
    <2>1. p \in Seq(Unit)
      BY <1>2
    <2>2. IsConcat(s \o p, s, p)
      BY <2>1, ConcatIs, Zenon
    <2> QED
      BY <2>2 DEF IsConcat
  <1>5. s \o (p \o q) = (s \o p) \o q
    BY <1>2, Associative, Zenon
  <1> QED
    BY <1>3, <1>4, <1>5 DEF p

-------------------------------------------------------------------------------
(* What the site and the iovecs are made of *)

\* Every name leads to a page of the site, with a size.
LEMMA PageInSite ==
    ASSUME NEW name \in DOMAIN Site
    PROVE  Page(name) \in DOMAIN Site /\ FileLen(name) \in Nat
  <1>1. \A m \in DOMAIN Site : /\ Site[m].size \in Nat
                              /\ Site[m].kind \in {"none", "dir", "private", "file"}
    BY ConnAssumption DEF ConnAssumption, Resource
  <1>2. Page(name) \in DOMAIN Site
    BY <1>1, ConnAssumption DEF ConnAssumption, Page
  <1> QED
    BY <1>1, <1>2 DEF FileLen

\* The text and the body of an answer are units.
LEMMA TextIsUnits ==
    ASSUME NEW name \in DOMAIN Site, NEW n \in 1..MaxAnswers
    PROVE  Text(name, n) \in Seq(Unit) /\ Body(name, n) \in Seq(Unit)
  <1>1. HeadLen \in Nat /\ FileLen(name) \in Nat
    BY PageInSite, ConnAssumption DEF ConnAssumption
  <1>2. Units(n, "head", 1, HeadLen) \in Seq(Unit)
    BY <1>1, UnitsFromOne
  <1>3. Units(n, "error", 1, 1) \in Seq(Unit)
    BY UnitsFromOne
  <1>4. Units(n, "file", 1, FileLen(name)) \in Seq(Unit)
    BY <1>1, UnitsFromOne
  <1> QED
    BY <1>2, <1>3, <1>4, EmptySeq, ConcatProperties DEF Text, Body

\* While an answer is on its way the iovecs offer as many units as they count.
LEMMA OfferedNow ==
    ASSUME TypeOK, Pointing
    PROVE  /\ Offered \in Seq(Unit)
           /\ Len(Offered) = iov0.len + (IF h_iovCnt = 2 THEN iov1.len ELSE 0)
           /\ Len(Offered) <= ToWriteBytes
           /\ IsOffer(Offered, h_writeBuff.data, iov0.at, iov0.len,
                      iov1.of, iov1.at, iov1.len, h_iovCnt)
  <1>1. /\ h_writeBuff.data \in Seq(Unit) /\ Len(h_writeBuff.data) \in Nat
        /\ iov0.at \in Nat /\ iov0.len \in Nat
        /\ iov1.of \in 0..MaxAnswers /\ iov1.at \in Nat /\ iov1.len \in Nat
        /\ h_iovCnt \in {1, 2}
        /\ h_iovCnt = 2 => iov1.of \in 1..MaxAnswers
        /\ iov0.len > 0 => iov0.at + iov0.len <= Len(h_writeBuff.data)
    BY LenProperties DEF TypeOK, Pointing
  <1>2. PICK d \in Seq(Unit), a0 \in Nat, l0 \in Nat, of \in 0..MaxAnswers, a1 \in Nat,
             l1 \in Nat, cnt \in {1, 2} :
          /\ d = h_writeBuff.data /\ a0 = iov0.at /\ l0 = iov0.len
          /\ of = iov1.of /\ a1 = iov1.at /\ l1 = iov1.len /\ cnt = h_iovCnt
    BY <1>1
  <1>3. Offered = OfferedBy(d, a0, l0, of, a1, l1, cnt)
    BY <1>2 DEF Offered, OfferedBy
  <1>4. ToWriteBytes = l0 + l1
    BY <1>2 DEF ToWriteBytes
  <1>5. (l0 > 0 => a0 + l0 <= Len(d)) /\ (cnt = 2 => of \in 1..MaxAnswers)
    BY <1>1, <1>2
  <1>6. IsOffer(Offered, d, a0, l0, of, a1, l1, cnt)
    <2>1. Iovecs(d, a0, l0, of, a1, l1, cnt)
      BY <1>5 DEF Iovecs, Fits, HasFile
    <2> QED
      BY <1>3, <2>1, OfferedIsOffer, Zenon
  <1>7. Len(Offered) <= ToWriteBytes
    BY <1>4, <1>6 DEF IsOffer
  <1> QED
    BY <1>2, <1>6, <1>7 DEF IsOffer


\* writev may take n units.
Takes(n) == n > 0 /\ n <= Len(Offered)

\* writev has taken n units: what is then on offer are the others, and the
\* iovecs count them.
LEMMA AdvanceOffers ==
    ASSUME TypeOK, Pointing, NEW n \in Nat, Takes(n), Advance(n), UNCHANGED <<h_iovCnt, memory>>
    PROVE  /\ h_writeBuff' \in [data : Seq(Unit), readPos : Nat]
           /\ h_writeBuff'.readPos <= Len(h_writeBuff'.data)
           /\ iov0' \in [at : Nat, len : Nat]
           /\ iov1' \in [of : 0..MaxAnswers, at : Nat, len : Nat]
           /\ ToWriteBytes' = ToWriteBytes - n
           /\ Pointing'
           /\ IsRest(Offered', Offered, n)
  <1>1. /\ h_writeBuff \in [data : Seq(Unit), readPos : Nat]
        /\ Len(h_writeBuff.data) \in Nat /\ h_writeBuff.readPos <= Len(h_writeBuff.data)
        /\ iov0 \in [at : Nat, len : Nat]
        /\ iov1 \in [of : 0..MaxAnswers, at : Nat, len : Nat]
        /\ h_iovCnt \in {1, 2}
        /\ h_iovCnt = 2 => iov1.of \in 1..MaxAnswers
    BY LenProperties DEF TypeOK, Pointing
  <1>2. PICK d \in Seq(Unit), a0 \in Nat, l0 \in Nat, of \in 0..MaxAnswers, a1 \in Nat,
             l1 \in Nat, cnt \in {1, 2} :
          /\ d = h_writeBuff.data /\ a0 = iov0.at /\ l0 = iov0.len
          /\ of = iov1.of /\ a1 = iov1.at /\ l1 = iov1.len /\ cnt = h_iovCnt
    BY <1>1
  <1>3. /\ IsOffer(Offered, d, a0, l0, of, a1, l1, cnt)
        /\ Len(Offered) = l0 + (IF cnt = 2 THEN l1 ELSE 0)
        /\ cnt = 2 => of \in 1..MaxAnswers
    BY <1>1, <1>2, OfferedNow
  <1>4. ToWriteBytes = l0 + l1 /\ n \in Nat \ {0} /\ n <= Len(Offered)
    BY <1>2, <1>3 DEF ToWriteBytes, Takes
  <1>5. CASE n > l0
    <2>1. cnt = 2 /\ n - l0 <= l1
      BY <1>3, <1>4, <1>5
    <2>2. PICK z \in Nat, b1 \in Nat, m1 \in Nat : z = 0 /\ b1 = a1 + (n - l0) /\ m1 = l1 - (n - l0)
      BY <1>4, <1>5, <2>1
    <2>3. /\ iov1' = [of |-> of, at |-> b1, len |-> m1]
          /\ iov0' = [at |-> a0, len |-> 0]
          /\ h_writeBuff' = IF l0 > 0 THEN [data |-> <<>>, readPos |-> 0] ELSE h_writeBuff
      BY <1>1, <1>2, <1>5, <2>2 DEF Advance
    <2>4. /\ h_writeBuff' \in [data : Seq(Unit), readPos : Nat]
          /\ h_writeBuff'.readPos <= Len(h_writeBuff'.data)
          /\ Len(h_writeBuff'.data) = h_writeBuff'.readPos
      <3>1. CASE l0 > 0
        BY <2>3, <3>1, EmptySeq
      <3>2. CASE l0 = 0
        BY <1>1, <1>2, <2>3, <3>2 DEF Pointing
      <3> QED
        BY <3>1, <3>2
    <2>5. PICK d2 : d2 \in Seq(Unit) /\ d2 = h_writeBuff'.data
      BY <2>4
    <2>6. Offered' = OfferedBy(d2, a0, z, of, b1, m1, cnt)
      BY <1>2, <2>2, <2>3, <2>5 DEF Offered, OfferedBy
    <2>7. IsOffer(Offered', d2, a0, z, of, b1, m1, cnt)
      <3>1. Fits(d2, a0, z)
        BY <2>2 DEF Fits
      <3>2. HasFile(cnt, of)
        BY <1>3 DEF HasFile
      <3>3. IsOffer(OfferedBy(d2, a0, z, of, b1, m1, cnt), d2, a0, z, of, b1, m1, cnt)
        <4>1. d2 \in Seq(Unit)
          BY <2>5
        <4>2. Iovecs(d2, a0, z, of, b1, m1, cnt)
          BY <3>1, <3>2, <4>1 DEF Iovecs
        <4> QED
          BY <4>2, OfferedIsOffer, Zenon
      <3> QED
        BY <2>6, <3>3
    <2>8. IsRest(Offered', Offered, n)
      <3>1. PICK r, q : r = Offered /\ q = Offered'
        OBVIOUS
      <3>2. IsOffer(r, d, a0, l0, of, a1, l1, cnt) /\ IsOffer(q, d2, a0, z, of, b1, m1, cnt)
        BY <1>3, <2>7, <3>1
      <3>3. Len(r) = l0 + l1 /\ Len(q) = m1 /\ q \in Seq(Unit)
        BY <2>1, <2>2, <3>2 DEF IsOffer
      <3>4. ASSUME NEW i \in 1..Len(q) PROVE q[i] = r[n + i]
        <4>1. /\ i > z /\ n + i \in 1..Len(r) /\ n + i > l0
              /\ a1 + (n + i) - l0 = b1 + i - z
          BY <1>4, <1>5, <2>2, <3>3
        <4>2. q[i] = UnitAt(of, "file", b1 + i - z)
          BY <3>2, <4>1 DEF IsOffer
        <4>3. r[n + i] = UnitAt(of, "file", a1 + (n + i) - l0)
          BY <3>2, <4>1 DEF IsOffer
        <4> QED
          BY <4>1, <4>2, <4>3
      <3>5. Len(q) = Len(r) - n
        BY <1>4, <2>2, <3>3
      <3>6. IsRest(q, r, n)
        BY <3>3, <3>4, <3>5 DEF IsRest
      <3> QED
        BY <3>1, <3>6
    <2>9. ToWriteBytes' = ToWriteBytes - n
      BY <1>4, <2>2, <2>3 DEF ToWriteBytes
    <2>10. Pointing'
      BY <1>2, <2>3, <2>4 DEF Pointing, memory
    <2> QED
      BY <2>3, <2>4, <2>8, <2>9, <2>10
  <1>6. CASE n <= l0
    <2>1. PICK b0 \in Nat, m0 \in Nat : b0 = a0 + n /\ m0 = l0 - n
      BY <1>4, <1>6
    <2>2. /\ iov0' = [at |-> b0, len |-> m0]
          /\ iov1' = iov1
          /\ h_writeBuff' = [h_writeBuff EXCEPT !.readPos = @ + n]
      BY <1>1, <1>2, <1>6, <2>1 DEF Advance
    <2>3. /\ h_writeBuff.readPos = a0 /\ a0 + l0 = Len(d)
          /\ h_writeBuff' = [data |-> d, readPos |-> b0]
      <3>1. l0 > 0 /\ l0 = Len(d) - h_writeBuff.readPos
        BY <1>1, <1>2, <1>4, <1>6 DEF Pointing
      <3>2. h_writeBuff.readPos = a0 /\ a0 + l0 = Len(d)
        BY <1>1, <1>2, <3>1 DEF Pointing
      <3>3. h_writeBuff' = [data |-> d, readPos |-> b0]
        BY <1>1, <1>2, <2>1, <2>2, <3>2
      <3> QED
        BY <3>2, <3>3
    <2>4. /\ h_writeBuff' \in [data : Seq(Unit), readPos : Nat]
          /\ h_writeBuff'.readPos <= Len(h_writeBuff'.data)
          /\ m0 = Len(d) - b0 /\ b0 + m0 = Len(d)
      BY <1>4, <1>6, <2>1, <2>3
    <2>5. Offered' = OfferedBy(d, b0, m0, of, a1, l1, cnt)
      BY <1>2, <2>2, <2>3 DEF Offered, OfferedBy
    <2>6. IsOffer(Offered', d, b0, m0, of, a1, l1, cnt)
      <3>1. Fits(d, b0, m0)
        BY <2>4 DEF Fits
      <3>2. HasFile(cnt, of)
        BY <1>3 DEF HasFile
      <3>3. IsOffer(OfferedBy(d, b0, m0, of, a1, l1, cnt), d, b0, m0, of, a1, l1, cnt)
        <4>1. Iovecs(d, b0, m0, of, a1, l1, cnt)
          BY <3>1, <3>2 DEF Iovecs
        <4> QED
          BY <4>1, OfferedIsOffer, Zenon
      <3> QED
        BY <2>5, <3>3
    <2>7. IsRest(Offered', Offered, n)
      <3>1. PICK r, q : r = Offered /\ q = Offered'
        OBVIOUS
      <3>2. IsOffer(r, d, a0, l0, of, a1, l1, cnt) /\ IsOffer(q, d, b0, m0, of, a1, l1, cnt)
        BY <1>3, <2>6, <3>1
      <3>3. /\ Len(r) = l0 + (IF cnt = 2 THEN l1 ELSE 0)
            /\ Len(q) = m0 + (IF cnt = 2 THEN l1 ELSE 0)
            /\ q \in Seq(Unit)
        BY <3>2 DEF IsOffer
      <3>4. Len(q) = Len(r) - n
        BY <1>4, <2>1, <3>3
      <3>5. ASSUME NEW i \in 1..Len(q) PROVE q[i] = r[n + i]
        <4>1. /\ n + i \in 1..Len(r) /\ (n + i <= l0 <=> i <= m0)
              /\ a0 + (n + i) = b0 + i /\ a1 + (n + i) - l0 = a1 + i - m0
          BY <1>4, <2>1, <3>3, <3>4
        <4>2. q[i] = IF i <= m0 THEN d[b0 + i] ELSE UnitAt(of, "file", a1 + i - m0)
          BY <3>2 DEF IsOffer
        <4>3. r[n + i] = IF n + i <= l0 THEN d[a0 + (n + i)]
                         ELSE UnitAt(of, "file", a1 + (n + i) - l0)
          BY <3>2, <4>1 DEF IsOffer
        <4> QED
          BY <4>1, <4>2, <4>3
      <3>6. IsRest(q, r, n)
        BY <3>3, <3>4, <3>5 DEF IsRest
      <3> QED
        BY <3>1, <3>6
    <2>8. ToWriteBytes' = ToWriteBytes - n
      BY <1>2, <1>4, <2>1, <2>2 DEF ToWriteBytes
    <2>9. Pointing'
      BY <1>2, <2>2, <2>3, <2>4 DEF Pointing, memory
    <2> QED
      BY <1>1, <2>2, <2>4, <2>7, <2>8, <2>9
  <1> QED
    BY <1>2, <1>4, <1>5, <1>6

-------------------------------------------------------------------------------
(* The stream, action by action *)

\* What is on offer depends on the buffer and the iovecs alone.
LEMMA SameOffer ==
    ASSUME UNCHANGED <<h_writeBuff, iov>>
    PROVE  Offered' = Offered /\ ToWriteBytes' = ToWriteBytes
  BY DEF iov, Offered, ToWriteBytes

\* Nothing is on offer: everything announced has been received.
LEMMA NothingLeft ==
    ASSUME TypeOK, Flow, Offered = <<>>
    PROVE  got = want
  <1>1. got \in Seq(Unit)
    BY DEF TypeOK
  <1>2. got \o <<>> = got
    BY <1>1, ConcatEmptySeq
  <1> QED
    BY <1>2 DEF Flow

\* While an answer is on its way, what is missing is what is on offer.
LEMMA Missing ==
    ASSUME TypeOK, Flow, Pointing
    PROVE  /\ IsPrefix(got, want)
           /\ Len(want) - Len(got) = Len(Offered)
           /\ ToWriteBytes = 0 => got = want
  <1>1. /\ Offered \in Seq(Unit) /\ Len(Offered) <= ToWriteBytes
        /\ got \in Seq(Unit)
    BY OfferedNow DEF TypeOK
  <1>2. IsPrefix(got, want)
    BY <1>1, PrefixOfConcat DEF Flow
  <1>3. IsConcat(want, got, Offered)
    BY <1>1, ConcatIs, Zenon DEF Flow
  <1>4. Len(want) - Len(got) = Len(Offered)
    <2>1. Len(got) \in Nat /\ Len(Offered) \in Nat
      BY <1>1, LenProperties
    <2> QED
      BY <1>3, <2>1 DEF IsConcat
  <1>5. ASSUME ToWriteBytes = 0 PROVE got = want
    <2>1. Len(Offered) = 0
      BY <1>1, <1>5, LenProperties
    <2>2. Offered = <<>>
      BY <1>1, <2>1, EmptySeq
    <2> QED
      BY <2>2, NothingLeft
  <1> QED
    BY <1>2, <1>4, <1>5

LEMMA InitHolds == Init => IInv
  <1> SUFFICES ASSUME Init PROVE IInv
    OBVIOUS
  <1>1. <<>> \in Seq(Unit) /\ Len(<<>>) = 0
    BY EmptySeq
  <1>2. IsPrefix(<<>>, <<>>)
    BY <1>1 DEF IsPrefix
  <1>3. TypeOK
    <2>1. MaxAnswers \in Nat /\ Garbage \subseteq Nat
      BY ConnAssumption DEF ConnAssumption
    <2>2. iov1 \in [of : 0..MaxAnswers, at : Nat, len : Nat]
      <3>1. PICK g \in Garbage : iov1 = [of |-> 0, at |-> 0, len |-> g]
        BY DEF Init
      <3>2. g \in Nat /\ 0 \in 0..MaxAnswers
        BY <2>1
      <3> QED
        BY <3>1, <3>2
    <2>3. /\ h_writeBuff \in [data : Seq(Unit), readPos : Nat]
          /\ h_writeBuff.readPos <= Len(h_writeBuff.data)
          /\ want \in Seq(Unit) /\ got \in Seq(Unit)
      BY <1>1 DEF Init
    <2>4. /\ 0 \in 0..MaxAnswers
          /\ iov0 \in [at : Nat, len : Nat]
      BY <2>1 DEF Init
    <2>5. /\ pc = "closed" /\ ret = "none" /\ ending = "none"
          /\ isET \in EventModes /\ keep = FALSE
      BY DEF Init
    <2>6. /\ h_iovCnt \in 0..2 /\ maps \subseteq 1..MaxAnswers /\ srcFds \subseteq 1..MaxAnswers
          /\ mmFile \in maps \cup {0} /\ answers \in 0..MaxAnswers /\ odd \in 0..MaxAnswers
      BY <2>1, <2>4 DEF Init
    <2> QED
      BY <2>2, <2>3, <2>4, <2>5, <2>6 DEF TypeOK
  <1>4. IntactStream
    BY <1>2 DEF Init, IntactStream
  <1> QED
    BY <1>3, <1>4 DEF Init, IInv, Answering

LEMMA OpenStep == ASSUME IInv, Open PROVE IInv'
  <1>1. <<>> \in Seq(Unit) /\ Len(<<>>) = 0
    BY EmptySeq
  <1>2. IsPrefix(<<>>, <<>>)
    BY <1>1 DEF IsPrefix
  <1>3. TypeOK'
    BY <1>1 DEF Open, Goto, IInv, TypeOK, iov, memory
  <1>4. IntactStream'
    BY <1>2 DEF Open, IntactStream
  <1> QED
    BY <1>1, <1>3, <1>4 DEF Open, Goto, IInv, Answering, Settled

\* The steps that only change where the connection is.
LEMMA QuietSteps ==
    ASSUME IInv, Read \/ ProcessNothing \/ Writable \/ WaitForRoom
                 \/ \E name \in DOMAIN Site : ProcessCrashes(name)
    PROVE  IInv'
  <1> USE DEF Read, ProcessNothing, Writable, WaitForRoom, ProcessCrashes, Goto
  <1>1. UNCHANGED <<isET, h_writeBuff, iov, memory, ret, history>>
    OBVIOUS
  <1>2. Offered' = Offered /\ ToWriteBytes' = ToWriteBytes
    BY <1>1, SameOffer
  <1>3. keep' \in BOOLEAN
    BY DEF IInv, TypeOK
  <1>4. TypeOK'
    BY <1>1, <1>3 DEF IInv, TypeOK, iov, memory, history
  <1>5. IntactStream'
    BY <1>1 DEF IInv, IntactStream, history
  <1>6. (Answering => Flow /\ Pointing)'
    BY <1>1, <1>2 DEF IInv, Answering, Flow, Pointing, iov, memory, history
  <1>7. (pc \in {"read", "process"} => Settled)'
    BY <1>1 DEF IInv, Settled, history
  <1>8. pc' # "decide" /\ pc' # "closed" /\ ending' = "none" /\ (odd <= answers)'
    BY <1>1 DEF IInv, history
  <1> QED
    BY <1>4, <1>5, <1>6, <1>7, <1>8 DEF IInv

LEMMA NotSentStep == ASSUME IInv, NotSent PROVE IInv'
  <1>1. /\ UNCHANGED <<isET, h_writeBuff, iov, memory, keep, history>>
        /\ pc = "write" /\ pc' = "decide"
    BY DEF NotSent, Goto
  <1>2. Offered' = Offered /\ ToWriteBytes' = ToWriteBytes
    BY <1>1, SameOffer
  <1>3. ret' \in {"zero", "again", "error"} /\ (ret' = "zero" => Offered = <<>>)
    BY DEF NotSent
  <1>4. TypeOK'
    BY <1>1, <1>3 DEF IInv, TypeOK, iov, memory, history
  <1>5. IntactStream'
    BY <1>1 DEF IInv, IntactStream, history
  <1>6. Flow' /\ Pointing'
    BY <1>1, <1>2 DEF IInv, Answering, Flow, Pointing, iov, memory, history
  <1>7. Returned'
    BY <1>2, <1>3 DEF Returned
  <1>8. ending' = "none" /\ (odd <= answers)'
    BY <1>1 DEF IInv, history
  <1> QED
    BY <1>1, <1>4, <1>5, <1>6, <1>7, <1>8 DEF IInv

\* writev takes some of what is on offer.
LEMMA SentStep == ASSUME IInv, Sent PROVE IInv'
  <1>1. TypeOK /\ Flow /\ Pointing /\ pc = "write"
    BY DEF Sent, IInv, Answering
  <1>2. /\ Offered \in Seq(Unit) /\ Len(Offered) \in Nat /\ got \in Seq(Unit)
    BY <1>1, OfferedNow, LenProperties DEF TypeOK
  <1>3. PICK n : /\ n \in Nat /\ Takes(n)
                 /\ Advance(n)
                 /\ got' = got \o SubSeq(Offered, 1, n)
                 /\ pc' = IF Stops(ToWriteBytes - n) THEN "decide" ELSE "write"
    <2>1. PICK n : /\ n \in 1..Len(Offered)
                   /\ Advance(n)
                   /\ got' = got \o SubSeq(Offered, 1, n)
                   /\ pc' = IF Stops(ToWriteBytes - n) THEN "decide" ELSE "write"
      BY Zenon DEF Sent
    <2>2. n \in Nat /\ Takes(n)
      BY <1>2, <2>1 DEF Takes
    <2> QED
      BY <2>1, <2>2, Zenon
  <1>4. UNCHANGED <<isET, h_iovCnt, memory, keep, answers, odd, want, ending>> /\ ret' = "sent"
    BY DEF Sent
  <1>5. UNCHANGED <<h_iovCnt, memory>>
    BY <1>4
  <1>6. /\ h_writeBuff' \in [data : Seq(Unit), readPos : Nat]
        /\ h_writeBuff'.readPos <= Len(h_writeBuff'.data)
        /\ iov0' \in [at : Nat, len : Nat]
        /\ iov1' \in [of : 0..MaxAnswers, at : Nat, len : Nat]
        /\ ToWriteBytes' = ToWriteBytes - n
        /\ Pointing'
        /\ IsRest(Offered', Offered, n)
    BY <1>1, <1>3, <1>5, AdvanceOffers
  <1>7. /\ got' \in Seq(Unit)
        /\ want' = got' \o Offered'
    <2>1. PICK s, r, q : s = got /\ r = Offered /\ q = Offered'
      OBVIOUS
    <2>2. /\ s \in Seq(Unit) /\ r \in Seq(Unit) /\ q \in Seq(Unit)
          /\ n > 0 /\ n <= Len(r)
          /\ IsRest(q, r, n)
      BY <1>2, <1>3, <1>6, <2>1 DEF Takes, IsRest
    <2>3. /\ s \o SubSeq(r, 1, n) \in Seq(Unit)
          /\ s \o r = (s \o SubSeq(r, 1, n)) \o q
      BY <1>3, <2>2, TakeUnits
    <2>4. want = s \o r /\ want' = want /\ got' = s \o SubSeq(r, 1, n)
      BY <1>1, <1>3, <1>4, <2>1 DEF Flow
    <2> QED
      BY <2>1, <2>3, <2>4
  <1>8. TypeOK'
    BY <1>1, <1>3, <1>4, <1>6, <1>7 DEF TypeOK, memory
  <1>9. Flow'
    BY <1>7 DEF Flow
  <1>10. IntactStream'
    <2>1. IsPrefix(got, want)'
      BY <1>7, <1>6, PrefixOfConcat DEF IsRest
    <2>2. ending' = "none"
      BY <1>1, <1>4 DEF IInv
    <2> QED
      BY <2>1, <2>2 DEF IntactStream
  <1>11. (pc = "decide" => Returned)'
    BY <1>3, <1>4, <1>6 DEF Returned, Stops
  <1>12. ending' = "none" /\ pc' \in {"write", "decide"} /\ (odd <= answers)'
    BY <1>1, <1>3, <1>4 DEF IInv
  <1> QED
    BY <1>6, <1>8, <1>9, <1>10, <1>11, <1>12 DEF IInv

\* An answer is made when nothing is left of the one before.
LEMMA ProcessStep ==
    ASSUME IInv, NEW name \in DOMAIN Site, NEW k \in BOOLEAN, Process(name, k)
    PROVE  IInv'
  <1>1. /\ TypeOK /\ Settled /\ ending = "none"
        /\ answers < MaxAnswers /\ pc' = "out"
        /\ UNCHANGED <<isET, ret, got, ending>>
    BY DEF Process, Goto, IInv
  <1>2. PICK n : n \in 1..MaxAnswers /\ n = answers + 1
    <2>1. MaxAnswers \in Nat
      BY ConnAssumption DEF ConnAssumption
    <2> QED
      BY <1>1, <2>1 DEF TypeOK
  <1>3. PICK text, body : /\ text = Text(name, n) /\ body = Body(name, n)
                          /\ text \in Seq(Unit) /\ body \in Seq(Unit)
    BY <1>2, TextIsUnits
  <1>4. FileLen(name) \in Nat
    BY PageInSite
  <1>5. h_writeBuff' = [data |-> text, readPos |-> 0]
    <2>1. PICK d : d \in Seq(Unit) /\ d = h_writeBuff.data /\ h_writeBuff.readPos = Len(d)
      BY <1>1 DEF TypeOK, Settled
    <2>2. SubSeq(d, Len(d) + 1, Len(d)) = <<>>
      BY <2>1, SubSeqEmpty, LenProperties
    <2>3. <<>> \o text = text
      BY <1>3, ConcatEmptySeq
    <2>4. h_writeBuff' = [data |-> SubSeq(d, Len(d) + 1, Len(d)) \o text, readPos |-> 0]
      BY <1>2, <1>3, <2>1, Zenon DEF Process
    <2> QED
      BY <2>2, <2>3, <2>4
  <1>6. /\ Len(text) \in Nat
        /\ iov0' = [at |-> 0, len |-> Len(text)]
    <2>1. iov0' = [at |-> 0, len |-> Len(h_writeBuff'.data)]
      BY Zenon DEF Process
    <2> QED
      BY <1>3, <1>5, <2>1, LenProperties
  <1>7. IF Maps(name)
          THEN /\ iov1' = [of |-> n, at |-> 0, len |-> FileLen(name)]
               /\ h_iovCnt' = 2 /\ mmFile' = n
          ELSE /\ iov1' = iov1 /\ h_iovCnt' = 1 /\ mmFile' = 0
    BY <1>2 DEF Process, SetFile, MapFile
  <1>8. Offered' = text \o body
    <2>1. SubSeq(text, 1, Len(text)) = text
      BY <1>3, SubSeqFull
    <2>2. SubSeq(h_writeBuff'.data, iov0'.at + 1, iov0'.at + iov0'.len) = text
      BY <1>5, <1>6, <2>1
    <2>3. (IF h_iovCnt' = 2
             THEN Units(iov1'.of, "file", iov1'.at + 1, iov1'.at + iov1'.len) ELSE <<>>) = body
      BY <1>3, <1>4, <1>7 DEF Body
    <2> QED
      BY <2>2, <2>3 DEF Offered
  <1>9. want' = want \o (text \o body) /\ want' \in Seq(Unit)
    <2>1. want' = (want \o text) \o body
      BY <1>2, <1>3 DEF Process
    <2>2. want \in Seq(Unit)
      BY <1>1 DEF TypeOK
    <2>3. want \o (text \o body) = (want \o text) \o body
      BY <1>3, <2>2, Associative, Zenon
    <2>4. want \o text \in Seq(Unit)
      BY <1>3, <2>2, ConcatProperties
    <2>5. (want \o text) \o body \in Seq(Unit)
      BY <1>3, <2>4, ConcatProperties
    <2> QED
      BY <2>1, <2>3, <2>5
  <1>10. Flow'
    BY <1>1, <1>8, <1>9 DEF Flow, Settled
  <1>11. Pointing'
    BY <1>2, <1>5, <1>6, <1>7 DEF Pointing
  <1>12. TypeOK' /\ (odd <= answers)'
    <2>1. /\ isET' \in EventModes /\ ret' \in {"none", "sent", "zero", "again", "error"}
          /\ got' \in Seq(Unit) /\ keep' \in BOOLEAN
          /\ ending' \in {"none", "whole", "cut", "dropped", "failed"}
          /\ answers' \in 0..MaxAnswers
          /\ pc' \in {"closed", "read", "process", "out", "write", "decide", "crashed"}
      <3>1. answers' = n
        BY <1>2 DEF Process
      <3>2. n \in 0..MaxAnswers
        BY <1>2
      <3>3. keep' = k
        BY DEF Process
      <3> QED
        BY <1>1, <3>1, <3>2, <3>3 DEF TypeOK
    <2>2. /\ h_writeBuff' \in [data : Seq(Unit), readPos : Nat]
          /\ h_writeBuff'.readPos <= Len(h_writeBuff'.data)
          /\ iov0' \in [at : Nat, len : Nat]
          /\ iov1' \in [of : 0..MaxAnswers, at : Nat, len : Nat]
          /\ h_iovCnt' \in 0..2
      <3>1. n \in 0..MaxAnswers
        BY <1>2
      <3>2. /\ h_writeBuff' \in [data : Seq(Unit), readPos : Nat]
            /\ h_writeBuff'.readPos <= Len(h_writeBuff'.data)
        BY <1>3, <1>5, <1>6
      <3>3. iov0' \in [at : Nat, len : Nat]
        BY <1>6
      <3>4. iov1' \in [of : 0..MaxAnswers, at : Nat, len : Nat] /\ h_iovCnt' \in 0..2
        BY <1>1, <1>4, <1>7, <3>1 DEF TypeOK
      <3> QED
        BY <3>2, <3>3, <3>4
    <2>3. /\ mmFile' \in maps' \cup {0}
          /\ maps' \subseteq 1..MaxAnswers /\ srcFds' \subseteq 1..MaxAnswers
      <3>1. MapFile(name, n)
        BY <1>2 DEF Process
      <3>2. /\ maps \subseteq 1..MaxAnswers /\ srcFds \subseteq 1..MaxAnswers
            /\ n \in 1..MaxAnswers
        BY <1>1, <1>2 DEF TypeOK
      <3> QED
        BY <3>1, <3>2 DEF MapFile, Maps
    <2>4. odd' \in 0..MaxAnswers /\ odd' <= answers'
      <3>1. answers' = n /\ odd' \in {odd, odd + 1}
        BY <1>2 DEF Process
      <3>2. odd \in Nat /\ answers \in Nat /\ odd <= answers /\ MaxAnswers \in Nat
        <4>1. MaxAnswers \in Nat
          BY ConnAssumption DEF ConnAssumption
        <4>2. odd \in 0..MaxAnswers /\ answers \in 0..MaxAnswers
          BY <1>1 DEF TypeOK
        <4>3. odd <= answers
          BY DEF IInv
        <4> QED
          BY <4>1, <4>2, <4>3
      <3>3. odd' \in Nat /\ odd' <= n
        BY <1>2, <3>1, <3>2
      <3>4. n <= MaxAnswers
        BY <1>2, <3>2
      <3> QED
        BY <1>2, <3>1, <3>2, <3>3, <3>4
    <2> QED
      BY <1>9, <2>1, <2>2, <2>3, <2>4 DEF TypeOK
  <1>13. IntactStream'
    <2>1. text \o body \in Seq(Unit)
      BY <1>3, ConcatProperties
    <2>2. got' \in Seq(Unit)
      BY <1>12 DEF TypeOK
    <2>3. IsPrefix(got, want)'
      BY <1>8, <1>10, <2>1, <2>2, PrefixOfConcat DEF Flow
    <2> QED
      BY <1>1, <2>3 DEF IntactStream
  <1> QED
    BY <1>1, <1>10, <1>11, <1>12, <1>13 DEF IInv

LEMMA NextRequestStep == ASSUME IInv, NextRequest PROVE IInv'
  <1>1. /\ UNCHANGED <<isET, h_writeBuff, iov, memory, keep, ret, history>>
        /\ pc = "decide" /\ pc' = "process" /\ ToWriteBytes = 0
    BY DEF NextRequest, Goto
  <1>2. TypeOK /\ Flow /\ Pointing
    BY <1>1 DEF IInv, Answering
  <1>3. got = want
    BY <1>1, <1>2, Missing
  <1>4. iov0.len = 0
    BY <1>1, <1>2 DEF TypeOK, ToWriteBytes
  <1>5. Settled
    BY <1>2, <1>3, <1>4, LenProperties DEF Settled, Pointing, TypeOK
  <1>6. TypeOK'
    BY <1>1, <1>2 DEF TypeOK, iov, memory, history
  <1>7. IntactStream' /\ Settled' /\ ending' = "none" /\ (odd <= answers)'
    BY <1>1, <1>5 DEF IInv, IntactStream, Settled, history
  <1> QED
    BY <1>1, <1>6, <1>7 DEF IInv, Answering

LEMMA AbandonStep == ASSUME IInv, Abandon PROVE IInv'
  <1>1. TypeOK'
    BY DEF Abandon, UnmapFile, IInv, TypeOK, iov, history
  <1>2. IntactStream'
    BY DEF Abandon, IInv, IntactStream, history
  <1> QED
    BY <1>1, <1>2 DEF Abandon, IInv, Answering, history

\* What OnWrite cuts off is what Write has left.
LEMMA CloseAfterStep == ASSUME IInv, CloseAfter PROVE IInv'
  <1>1. /\ pc = "decide" /\ pc' = "closed"
        /\ IF ToWriteBytes = 0 THEN ~keep ELSE ret # "again"
        /\ UNCHANGED <<isET, h_writeBuff, iov, keep, ret, answers, odd, want, got>>
        /\ ending' = IF ret = "error" THEN "failed"
                     ELSE IF got # want THEN "cut"
                     ELSE IF keep THEN "dropped" ELSE "whole"
    BY DEF CloseAfter, Goto
  <1>2. TypeOK /\ Flow /\ Pointing /\ Returned
    BY <1>1 DEF IInv, Answering
  <1>3. /\ Len(want) - Len(got) = Len(Offered)
        /\ ToWriteBytes = 0 => got = want
        /\ Offered = <<>> => got = want
        /\ Len(Offered) <= ToWriteBytes
    BY <1>2, Missing, NothingLeft, OfferedNow
  <1>4. ASSUME ending' = "cut" PROVE ~isET /\ Len(want) - Len(got) <= Rest
    <2>1. ret # "error" /\ got # want
      BY <1>1, <1>4
    <2>2. ret # "again" /\ ret # "zero" /\ ret # "none"
      BY <1>1, <1>2, <1>3, <2>1 DEF Returned
    <2>3. ret = "sent"
      BY <1>2, <2>1, <2>2 DEF TypeOK
    <2>4. ~isET /\ ToWriteBytes <= Rest
      BY <1>2, <2>3 DEF Returned
    <2>5. Len(Offered) \in Nat
      BY <1>2, OfferedNow, LenProperties
    <2>6. ToWriteBytes \in Nat
      BY <1>2 DEF TypeOK, ToWriteBytes
    <2>7. Rest \in Nat
      BY ConnAssumption DEF ConnAssumption
    <2> QED
      BY <1>3, <2>4, <2>5, <2>6, <2>7
  <1>5. IntactStream'
    BY <1>1, <1>4 DEF IInv, IntactStream
  <1>6. TypeOK'
    BY <1>1, <1>2 DEF CloseAfter, UnmapFile, TypeOK, iov
  <1> QED
    BY <1>1, <1>5, <1>6 DEF IInv, Answering

\* Every step preserves the invariant of the stream.
LEMMA StepHolds == IInv /\ [Next]_vars => IInv'
  <1> SUFFICES ASSUME IInv, [Next]_vars PROVE IInv'
    OBVIOUS
  <1>1. CASE Open
    BY <1>1, OpenStep
  <1>2. CASE Abandon
    BY <1>2, AbandonStep
  <1>3. CASE \/ Read \/ ProcessNothing \/ Writable \/ WaitForRoom
             \/ \E name \in DOMAIN Site : ProcessCrashes(name)
    BY <1>3, QuietSteps
  <1>4. CASE \E name \in DOMAIN Site : \E k \in BOOLEAN : Process(name, k)
    BY <1>4, ProcessStep
  <1>5. CASE Sent
    BY <1>5, SentStep
  <1>6. CASE NotSent
    BY <1>6, NotSentStep
  <1>7. CASE NextRequest
    BY <1>7, NextRequestStep
  <1>8. CASE CloseAfter
    BY <1>8, CloseAfterStep
  <1>9. CASE UNCHANGED vars
    <2>1. UNCHANGED <<isET, pc, h_writeBuff, iov, memory, keep, ret, history>>
      BY <1>9 DEF vars
    <2>2. Offered' = Offered /\ ToWriteBytes' = ToWriteBytes
      BY <2>1, SameOffer
    <2>3. TypeOK' /\ IntactStream' /\ (odd <= answers)' /\ (pc # "closed" => ending = "none")'
      BY <2>1 DEF IInv, TypeOK, IntactStream, iov, memory, history
    <2>4. (Answering => Flow /\ Pointing)'
      BY <2>1, <2>2 DEF IInv, Answering, Flow, Pointing, iov, memory, history
    <2>5. (pc \in {"read", "process"} => Settled)' /\ (pc = "decide" => Returned)'
      BY <2>1, <2>2 DEF IInv, Settled, Returned, history
    <2> QED
      BY <2>3, <2>4, <2>5 DEF IInv
  <1> QED
    BY <1>1, <1>2, <1>3, <1>4, <1>5, <1>6, <1>7, <1>8, <1>9 DEF Next

-------------------------------------------------------------------------------
(* Mappings and descriptors *)

LEMMA OddInit == Init => Odd
  BY FS_EmptySet DEF Init, Odd

\* UnmapFile gives back what is mapped, and nothing that is lost.
LEMMA UnmapKeepsOdd ==
    ASSUME Odd, UnmapFile, UNCHANGED <<answers, odd>>
    PROVE  Odd'
  <1>1. maps' = maps \ {mmFile} /\ mmFile' = 0 /\ srcFds' = srcFds
    BY DEF UnmapFile
  <1>2. 0 \notin maps
    BY DEF Odd
  <1>3. maps' \ {mmFile'} = maps \ {mmFile}
    BY <1>1, <1>2
  <1> QED
    BY <1>1, <1>3 DEF Odd

\* AddContent loses one mapping and one descriptor exactly when the file is odd.
LEMMA ProcessKeepsOdd ==
    ASSUME TypeOK, Odd, NEW name \in DOMAIN Site, NEW k \in BOOLEAN, Process(name, k)
    PROVE  Odd'
  <1> DEFINE n == answers + 1
  <1>1. /\ answers \in Nat /\ answers' = n /\ pc' = "out"
        /\ MapFile(name, n)
        /\ odd' = IF Site[Page(name)].opens /\ ~Maps(name) THEN odd + 1 ELSE odd
    <2>1. MaxAnswers \in Nat
      BY ConnAssumption DEF ConnAssumption
    <2>2. answers \in Nat
      BY <2>1 DEF TypeOK
    <2> QED
      BY <2>2, Zenon DEF Process, Goto
  <1>2. /\ maps \subseteq 1..answers /\ srcFds \subseteq 1..answers
        /\ n \notin maps /\ n \notin srcFds /\ 0 \notin maps /\ n # 0
        /\ 1..answers \subseteq 1..n /\ n \in 1..n
    BY <1>1 DEF Odd
  <1>3. maps' \subseteq 1..answers' /\ srcFds' \subseteq 1..answers'
    BY <1>1, <1>2 DEF MapFile
  <1>4. IsFiniteSet(maps \ {mmFile}) /\ IsFiniteSet(srcFds)
    <2>1. IsFiniteSet(1..answers)
      BY <1>1, FS_Interval
    <2> QED
      BY <1>2, <2>1, FS_Subset
  <1>5. CASE Site[Page(name)].opens /\ ~Maps(name)
    <2>1. /\ maps' \ {mmFile'} = (maps \ {mmFile}) \cup {n}
          /\ srcFds' = srcFds \cup {n}
          /\ odd' = odd + 1
      BY <1>1, <1>2, <1>5 DEF MapFile
    <2>2. /\ Cardinality((maps \ {mmFile}) \cup {n}) = Cardinality(maps \ {mmFile}) + 1
          /\ Cardinality(srcFds \cup {n}) = Cardinality(srcFds) + 1
      BY <1>2, <1>4, FS_AddElement
    <2> QED
      BY <1>1, <1>3, <2>1, <2>2 DEF Odd
  <1>6. CASE ~(Site[Page(name)].opens /\ ~Maps(name))
    <2>1. maps' \ {mmFile'} = maps \ {mmFile} /\ srcFds' = srcFds /\ odd' = odd
      BY <1>1, <1>2, <1>6 DEF MapFile, Maps
    <2> QED
      BY <1>1, <1>3, <2>1 DEF Odd
  <1> QED
    BY <1>5, <1>6

LEMMA OddStep == TypeOK /\ Odd /\ [Next]_vars => Odd'
  <1> SUFFICES ASSUME TypeOK, Odd, [Next]_vars PROVE Odd'
    OBVIOUS
  <1>1. CASE Abandon \/ CloseAfter
    <2>1. UnmapFile /\ UNCHANGED <<answers, odd>>
      BY <1>1 DEF Abandon, CloseAfter, history
    <2> QED
      BY <2>1, UnmapKeepsOdd
  <1>2. CASE \E name \in DOMAIN Site : \E k \in BOOLEAN : Process(name, k)
    BY <1>2, ProcessKeepsOdd
  <1>3. CASE \/ Open \/ Read \/ ProcessNothing \/ Writable \/ Sent \/ NotSent
             \/ NextRequest \/ WaitForRoom
             \/ \E name \in DOMAIN Site : ProcessCrashes(name)
    <2>1. UNCHANGED <<memory, answers, odd>> /\ pc' # "closed"
      BY <1>3 DEF Open, Read, ProcessNothing, Writable, Sent, NotSent, NextRequest,
                  WaitForRoom, ProcessCrashes, Goto, history
    <2> QED
      BY <2>1 DEF Odd, memory
  <1>4. CASE UNCHANGED vars
    BY <1>4 DEF vars, memory, history, Odd
  <1> QED
    BY <1>1, <1>2, <1>3, <1>4 DEF Next

-------------------------------------------------------------------------------
(* Theorems *)

LEMMA Invariant == Spec => []IInv
  <1>1. Init => IInv
    BY InitHolds
  <1>2. IInv /\ [Next]_vars => IInv'
    BY StepHolds
  <1> QED
    BY <1>1, <1>2, PTL DEF Spec

\* The variables of HttpConn have their types.
THEOREM TypeCorrect == Spec => []TypeOK
  <1>1. IInv => TypeOK
    BY DEF IInv
  <1> QED
    BY <1>1, Invariant, PTL

\* Whatever writev takes at a time, whatever the buffers and the iovecs held
\* before, and however many answers and clients one object has served: the client
\* receives the announced heads and files in order, and OnWrite cuts short only
\* what Write leaves in LT mode.
THEOREM StreamIntact == Spec => []IntactStream
  <1>1. IInv => IntactStream
    BY DEF IInv
  <1> QED
    BY <1>1, Invariant, PTL

\* While an answer is on its way the iovecs point at what is left of it, and Write
\* returns with ToWriteBytes 0 exactly if all of it has been sent, unless the
\* length of iov[1] is that of a former answer.
THEOREM IovecsAreExact == Spec => []IovecsExact
  <1>1. IInv => IovecsExact
    <2> SUFFICES ASSUME IInv, Answering PROVE IovecsExact
      BY DEF IovecsExact, PointersValid, DoneIsSeen, Answering
    <2>1. TypeOK /\ Flow /\ Pointing
      BY DEF IInv
    <2>2. PointersValid
      BY <2>1 DEF PointersValid, Pointing, TypeOK
    <2>3. ToWriteBytes = 0 => got = want
      BY <2>1, Missing
    <2>4. ASSUME got = want, ~Stale PROVE ToWriteBytes = 0
      <3>1. Len(got) \in Nat
        BY <2>1, LenProperties DEF TypeOK
      <3>2. Len(Offered) = 0
        BY <2>1, <2>4, <3>1, Missing
      <3>3. Len(Offered) = iov0.len + (IF h_iovCnt = 2 THEN iov1.len ELSE 0)
        BY <2>1, OfferedNow
      <3>4. iov0.len \in Nat /\ iov1.len \in Nat /\ h_iovCnt \in {1, 2}
        BY <2>1 DEF TypeOK, Pointing
      <3> QED
        BY <2>4, <3>2, <3>3, <3>4 DEF Stale, ToWriteBytes
    <2> QED
      BY <2>2, <2>3, <2>4 DEF IovecsExact, DoneIsSeen
  <1> QED
    BY <1>1, Invariant, PTL

\* Every way a connection ends gives back its mapping; what stays, descriptors and
\* mappings alike, is one for each answer made from an odd file.
THEOREM OnlyOddFilesLeak == Spec => []NothingLeaked
  <1>1. Init => Odd
    BY OddInit
  <1>2. TypeOK /\ Odd /\ [Next]_vars => Odd'
    BY OddStep
  <1>3. Odd => NothingLeaked
    <2> SUFFICES ASSUME Odd, pc = "closed"
                 PROVE  Cardinality(maps) = odd /\ Cardinality(srcFds) = odd
      BY DEF NothingLeaked
    <2>1. mmFile = 0 /\ 0 \notin maps
      BY DEF Odd
    <2>2. maps \ {mmFile} = maps
      BY <2>1
    <2> QED
      BY <2>2 DEF Odd
  <1> QED
    BY <1>1, <1>2, <1>3, TypeCorrect, PTL DEF Spec
===============================================================================
