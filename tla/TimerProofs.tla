------------------------------- MODULE TimerProofs -------------------------------
(***************************************************************************)
(* Theorems about Timer, for any number of ids, any timeout and resolution *)
(* of the clock: t_ref is the inverse of the heap, and until the clock is  *)
(* set back the heap is ordered and does what ExpirySet promises.          *)
(***************************************************************************)
EXTENDS Timer, SequenceTheorems, WellFoundedInduction, TLAPS

Node == [id : Ids, expires : Nat]
NodeOf(id) == t_heap[t_ref[id]]

\* Where GetNextTick and the operations can be.
Placed ==
    /\ caller # "none" <=> pc \in {"down", "up", "erase"}
    /\ pc = "erase" => Erasing
    /\ caller = "Adjust" => pc = "down"
    /\ Erasing \/ pc = "callback" => t_heap # <<>>
    /\ pc \in {"down", "up"} => at <= Size

Ordered(k) == t_heap[k \div 2].expires <= t_heap[k].expires

\* While a node is on its way it may be later than its children, or, where ShiftDown
\* has not moved it, earlier than its parent; its parent is not later than its
\* children in any case.
HeapOrder ==
    /\ \A k \in 2..Size :
         \/ Ordered(k)
         \/ pc = "down" /\ k \div 2 = at
         \/ pc = "down" /\ k = at /\ at = index /\ caller # "Adjust"
         \/ pc = "up" /\ k = at
    /\ pc \in {"down", "up"} /\ at > 1 =>
         \A k \in 2..Size : k \div 2 = at => t_heap[at \div 2].expires <= t_heap[k].expires

\* A new expiry is not earlier than any in the heap.
NoneLater == \A k \in 1..Len(t_heap) : t_heap[k].expires <= Expiry

IInv ==
    /\ RefExact
    /\ Placed
    /\ backs = 0 => HeapOrder /\ NoneLater

-------------------------------------------------------------------------------
(* The heap and its map *)

\* The heap is a sequence of nodes, and t_ref its inverse.
Exact ==
    /\ t_heap \in Seq(Node)
    /\ DOMAIN t_ref \subseteq Ids
    /\ \A id \in DOMAIN t_ref : t_ref[id] \in DOMAIN t_heap
    /\ \A id \in DOMAIN t_ref : t_heap[t_ref[id]].id = id
    /\ \A i \in DOMAIN t_heap : HasNode(t_heap[i].id) /\ t_ref[t_heap[i].id] = i

\* What SwapNode does: two nodes change places, references follow, and every id
\* finds the node that it had.
LEMMA Swapped ==
    ASSUME Exact, NEW i \in 1..Len(t_heap), NEW j \in 1..Len(t_heap), i # j, SwapNode(i, j)
    PROVE  /\ Exact'
           /\ Len(t_heap') = Len(t_heap)
           /\ t_heap'[i] = t_heap[j] /\ t_heap'[j] = t_heap[i]
           /\ \A k \in 1..Len(t_heap) : k # i /\ k # j => t_heap'[k] = t_heap[k]
           /\ DOMAIN t_ref' = DOMAIN t_ref
           /\ \A id \in DOMAIN t_ref : NodeOf(id)' = NodeOf(id)
  <1> DEFINE L == Len(t_heap)
             a == t_heap[i].id
             b == t_heap[j].id
  <1>1. L \in Nat /\ DOMAIN t_heap = 1..L /\ t_heap \in [1..L -> Node]
    BY LenProperties DEF Exact
  <1>2. t_heap' = [t_heap EXCEPT ![i] = t_heap[j], ![j] = t_heap[i]]
    BY DEF SwapNode
  <1>3. t_ref' = [t_ref EXCEPT ![b] = i, ![a] = j]
    BY DEF SwapNode
  <1>4. t_heap' \in Seq(Node) /\ Len(t_heap') = L /\ DOMAIN t_heap' = 1..L
    <2>1. t_heap' \in [1..L -> Node]
      BY <1>1, <1>2
    <2> QED
      BY <1>1, <2>1, SeqDef, LenProperties
  <1>5. /\ t_heap'[i] = t_heap[j] /\ t_heap'[j] = t_heap[i]
        /\ \A k \in 1..L : k # i /\ k # j => t_heap'[k] = t_heap[k]
    BY <1>1, <1>2
  <1>6. a # b /\ a \in DOMAIN t_ref /\ b \in DOMAIN t_ref /\ t_ref[a] = i /\ t_ref[b] = j
    BY <1>1 DEF Exact, HasNode
  <1>7. DOMAIN t_ref' = DOMAIN t_ref
    BY <1>3
  <1>8. t_ref'[a] = j /\ t_ref'[b] = i /\ \A id \in DOMAIN t_ref : id # a /\ id # b => t_ref'[id] = t_ref[id]
    BY <1>3, <1>6
  <1>9. \A id \in DOMAIN t_ref : t_ref[id] \in 1..L /\ (id # a /\ id # b => t_ref[id] # i /\ t_ref[id] # j)
    BY <1>1 DEF Exact
  <1> HIDE DEF a, b, L
  <1>10. \A id \in DOMAIN t_ref : t_heap'[t_ref'[id]] = t_heap[t_ref[id]]
    BY <1>5, <1>6, <1>8, <1>9
  <1>11. \A id \in DOMAIN t_ref' : t_ref'[id] \in 1..L /\ t_heap'[t_ref'[id]].id = id
    <2> SUFFICES ASSUME NEW id \in DOMAIN t_ref
                 PROVE  t_ref'[id] \in 1..L /\ t_heap'[t_ref'[id]].id = id
      BY <1>7
    <2>1. t_ref'[id] \in 1..L
      BY <1>6, <1>8, <1>9 DEF L
    <2>2. t_heap'[t_ref'[id]].id = id
      BY <1>10 DEF Exact
    <2> QED
      BY <2>1, <2>2
  <1>12. \A k \in 1..L : t_heap'[k].id \in DOMAIN t_ref' /\ t_ref'[t_heap'[k].id] = k
    <2> SUFFICES ASSUME NEW k \in 1..L
                 PROVE  t_heap'[k].id \in DOMAIN t_ref /\ t_ref'[t_heap'[k].id] = k
      BY <1>7
    <2>1. CASE k = i
      BY <2>1, <1>5, <1>6, <1>8 DEF b
    <2>2. CASE k = j
      BY <2>2, <1>5, <1>6, <1>8 DEF a
    <2>3. CASE k # i /\ k # j
      <3>1. t_heap'[k] = t_heap[k]
        BY <2>3, <1>5
      <3>2. t_heap[k].id \in DOMAIN t_ref /\ t_ref[t_heap[k].id] = k
        BY <1>1 DEF Exact, HasNode
      <3>3. t_heap[k].id # a /\ t_heap[k].id # b
        BY <2>3, <3>2, <1>6
      <3> QED
        BY <3>1, <3>2, <3>3, <1>8
    <2> QED
      BY <2>1, <2>2, <2>3
  <1>13. Exact'
    BY <1>4, <1>7, <1>11, <1>12 DEF Exact, HasNode
  <1> QED
    BY <1>4, <1>5, <1>7, <1>10, <1>13 DEF NodeOf, L

\* The rest of the types.
Control ==
    /\ now \in 0..MaxNow
    /\ backs \in 0..MaxBack
    /\ pc \in {"loop", "down", "up", "erase", "tick", "callback", "timeout"}
    /\ caller \in {"none", "Add", "Adjust", "DelWork", "Pop"}
    /\ index \in Nat /\ at \in Nat
    /\ pc \in {"down", "up"} => at \in DOMAIN t_heap
    /\ pc = "down" => index \in 1..at
    /\ waitMode \in {"forever", "timed", "zero"}

\* The parts of the invariant, and what every proof asks of them.
LEMMA Parts ==
    /\ IInv <=> Exact /\ Control /\ Placed /\ (backs = 0 => HeapOrder /\ NoneLater)
    /\ Exact => /\ Len(t_heap) \in Nat /\ DOMAIN t_heap = 1..Len(t_heap)
                /\ t_heap \in [1..Len(t_heap) -> Node]
                /\ \A k \in 1..Len(t_heap) : t_heap[k].expires \in Nat
    /\ now \in Nat => Expiry \in Nat /\ Expiry >= now
  <1>1. IInv <=> Exact /\ Control /\ Placed /\ (backs = 0 => HeapOrder /\ NoneLater)
    BY DEF IInv, RefExact, TypeOK, Exact, Control, Node
  <1>2. Exact => /\ Len(t_heap) \in Nat /\ DOMAIN t_heap = 1..Len(t_heap)
                 /\ t_heap \in [1..Len(t_heap) -> Node]
    BY LenProperties DEF Exact
  <1>3. Exact => \A k \in 1..Len(t_heap) : t_heap[k].expires \in Nat
    BY <1>2 DEF Node
  <1>4. now \in Nat => Expiry \in Nat /\ Expiry >= now
    BY TimerAssumption DEF Expiry
  <1> QED
    BY <1>1, <1>2, <1>3, <1>4

\* A place is that of a parent, and its parent is before it.
LEMMA Parents ==
    \A k \in Nat : k > 1 =>
        /\ k \div 2 \in 1..(k - 1)
        /\ k = 2 * (k \div 2) \/ k = 2 * (k \div 2) + 1
  OBVIOUS

\* The invariant begins with an empty heap.
LEMMA InitHolds == Init => IInv
  <1> SUFFICES ASSUME Init PROVE IInv
    OBVIOUS
  <1>1. t_heap \in Seq(Node) /\ Len(t_heap) = 0 /\ DOMAIN t_heap = {} /\ DOMAIN t_ref = {}
    <2>1. t_heap = <<>> /\ t_ref = <<>>
      BY DEF Init
    <2> QED
      BY <2>1
  <1>2. Exact
    BY <1>1 DEF Exact
  <1>3. Control /\ Placed
    BY TimerAssumption DEF Init, Control, Placed, Erasing
  <1>4. HeapOrder /\ NoneLater
    BY <1>1 DEF Init, HeapOrder, NoneLater, Size, Erasing
  <1> QED
    BY <1>2, <1>3, <1>4, Parts

-------------------------------------------------------------------------------
(* The steps *)

\* Steps that leave the heap alone, and no operation under way.
LEMMA IdleHolds ==
    ASSUME IInv, UNCHANGED <<heap, clock>>, pc \in {"loop", "tick", "callback", "timeout"},
           pc' \in {"loop", "tick", "callback", "timeout"},
           Return(pc'), pc' = "callback" => t_heap # <<>>,
           waitMode' \in {"forever", "timed", "zero"}
    PROVE  IInv'
  <1>1. Exact /\ Control /\ Placed /\ (backs = 0 => HeapOrder /\ NoneLater)
    BY Parts
  <1>2. t_heap' = t_heap /\ t_ref' = t_ref /\ now' = now /\ backs' = backs
    BY DEF heap, clock
  <1>3. Exact'
    BY <1>1, <1>2 DEF Exact, HasNode
  <1>4. Control' /\ Placed'
    BY <1>1, <1>2 DEF Control, Placed, Return, Erasing
  <1>5. caller = "none" /\ caller' = "none"
    BY <1>1 DEF Placed, Return
  <1>6. (backs = 0 => HeapOrder /\ NoneLater)'
    BY <1>1, <1>2, <1>5 DEF HeapOrder, NoneLater, Ordered, Size, Erasing, Expiry
  <1> QED
    BY <1>3, <1>4, <1>6, Parts, PTL

\* Time passes, and may be set back once the order is not asked for any more.
LEMMA ClockHolds == IInv /\ (Advance \/ SetBack) => IInv'
  <1> SUFFICES ASSUME IInv, Advance \/ SetBack PROVE IInv'
    OBVIOUS
  <1>1. Exact /\ Control /\ Placed /\ (backs = 0 => HeapOrder /\ NoneLater)
    BY Parts
  <1>2. t_heap' = t_heap /\ t_ref' = t_ref /\ UNCHANGED <<pc, caller, index, at, waitMode>>
    BY DEF Advance, SetBack, heap, control
  <1>3. now' \in 0..MaxNow /\ backs' \in 0..MaxBack /\ (backs' = 0 => backs = 0 /\ now' >= now)
    BY <1>1, TimerAssumption DEF Advance, SetBack, Control
  <1>4. Exact'
    BY <1>1, <1>2 DEF Exact, HasNode
  <1>5. Control' /\ Placed'
    BY <1>1, <1>2, <1>3 DEF Control, Placed, Erasing, Size
  <1>6. ASSUME backs' = 0 PROVE HeapOrder' /\ NoneLater'
    <2>1. HeapOrder'
      BY <1>1, <1>2, <1>3, <1>6 DEF HeapOrder, Ordered, Size, Erasing
    <2>2. Expiry' >= Expiry /\ Expiry \in Int /\ Expiry' \in Int
      <3>1. now \in Nat /\ now' \in Nat /\ now' >= now
        BY <1>1, <1>3, <1>6, TimerAssumption DEF Control
      <3>2. \A a, b \in Nat : b >= a =>
              /\ b + Timeout * PerMs >= a + Timeout * PerMs
              /\ a + Timeout * PerMs \in Int /\ b + Timeout * PerMs \in Int
        BY TimerAssumption
      <3> QED
        BY <3>1, <3>2 DEF Expiry
    <2>3. NoneLater'
      BY <1>1, <1>2, <1>3, <1>6, <2>2, Parts DEF NoneLater
    <2> QED
      BY <2>1, <2>3
  <1>7. (backs = 0 => HeapOrder /\ NoneLater)'
    BY <1>6
  <1> QED
    BY <1>4, <1>5, <1>7, Parts, PTL

\* A new node stands last, and has to rise.
LEMMA AddNewHolds == IInv /\ (\E id \in Ids : AddNew(id)) => IInv'
  <1> SUFFICES ASSUME IInv, NEW id \in Ids, AddNew(id) PROVE IInv'
    OBVIOUS
  <1> DEFINE L == Len(t_heap)
             n == [id |-> id, expires |-> Expiry]
  <1>1. /\ Exact /\ Control /\ Placed /\ (backs = 0 => HeapOrder /\ NoneLater)
        /\ L \in Nat /\ DOMAIN t_heap = 1..L /\ t_heap \in [1..L -> Node]
        /\ \A k \in 1..L : t_heap[k].expires \in Nat
    BY Parts
  <1>2. /\ pc = "loop" /\ id \notin DOMAIN t_ref
        /\ t_heap' = Append(t_heap, n)
        /\ t_ref' = [k \in DOMAIN t_ref \cup {id} |-> IF k = id THEN L + 1 ELSE t_ref[k]]
        /\ caller' = "Add" /\ pc' = "up" /\ index' = L + 1 /\ at' = L + 1
        /\ now' = now /\ backs' = backs /\ waitMode' = waitMode
    BY DEF AddNew, HasNode, Begin, clock
  <1>3. n \in Node /\ Expiry \in Nat
    BY <1>1, Parts DEF Node, Control
  <1>4. t_heap' \in Seq(Node) /\ Len(t_heap') = L + 1
    BY <1>1, <1>2, <1>3, AppendProperties DEF Exact
  <1>5. t_heap'[L + 1] = n /\ \A k \in 1..L : t_heap'[k] = t_heap[k]
    BY <1>1, <1>2, <1>3, AppendProperties DEF Exact
  <1>6. DOMAIN t_heap' = 1..(L + 1)
    BY <1>4, LenProperties
  <1>7. /\ DOMAIN t_ref' = DOMAIN t_ref \cup {id}
        /\ t_ref'[id] = L + 1 /\ \A k \in DOMAIN t_ref : t_ref'[k] = t_ref[k]
    BY <1>2
  <1>8. n.id = id /\ n.expires = Expiry
    OBVIOUS
  <1> HIDE DEF L, n
  <1>9. Exact'
    <2>1. \A k \in DOMAIN t_ref : t_ref[k] \in 1..L /\ t_heap[t_ref[k]].id = k
      BY <1>1 DEF Exact
    <2>2. \A i \in 1..L : t_heap[i].id \in DOMAIN t_ref /\ t_ref[t_heap[i].id] = i
      BY <1>1 DEF Exact, HasNode
    <2>3. \A k \in DOMAIN t_ref' : t_ref'[k] \in 1..(L + 1) /\ t_heap'[t_ref'[k]].id = k
      BY <2>1, <1>1, <1>5, <1>7, <1>8
    <2>4. \A i \in 1..(L + 1) : t_heap'[i].id \in DOMAIN t_ref' /\ t_ref'[t_heap'[i].id] = i
      BY <2>2, <1>1, <1>2, <1>5, <1>7, <1>8
    <2>5. DOMAIN t_ref' \subseteq Ids
      BY <1>1, <1>7 DEF Exact
    <2> QED
      BY <2>3, <2>4, <2>5, <1>4, <1>6 DEF Exact, HasNode
  <1>10. Len(t_heap) = L
    BY DEF L
  <1>11. Size = L /\ Size' = L + 1
    BY <1>1, <1>2, <1>4, <1>10 DEF Placed, Size, Erasing
  <1>12. Control' /\ Placed'
    <2>1. Control'
      BY <1>1, <1>2, <1>6 DEF Control
    <2>2. t_heap' # <<>>
      BY <1>1, <1>4
    <2> QED
      BY <2>1, <2>2, <1>1, <1>2, <1>11 DEF Placed, Erasing
  <1>13. (backs = 0 => HeapOrder /\ NoneLater)'
    <2> SUFFICES ASSUME backs = 0 PROVE HeapOrder' /\ NoneLater'
      BY <1>2
    <2>1. \A k \in 2..L : Ordered(k)
      BY <1>1, <1>2, <1>11 DEF HeapOrder
    <2>2. \A k \in 2..(L + 1) : k = L + 1 \/ Ordered(k)'
      BY <2>1, <1>1, <1>5, Parents DEF Ordered
    <2>3. \A k \in 2..(L + 1) : k \div 2 # L + 1
      BY <1>1
    <2>4. HeapOrder'
      BY <2>2, <2>3, <1>2, <1>11 DEF HeapOrder
    <2>5. NoneLater'
      BY <1>1, <1>2, <1>3, <1>4, <1>5, <1>8, <1>10 DEF NoneLater, Expiry
    <2> QED
      BY <2>4, <2>5
  <1> QED
    BY <1>9, <1>12, <1>13, Parts, PTL

\* A renewed node is not earlier than it was, and has to sink.
LEMMA RenewHolds == IInv /\ (\E id \in Ids : AddAgain(id) \/ Adjust(id)) => IInv'
  <1> SUFFICES ASSUME IInv, NEW id \in Ids, AddAgain(id) \/ Adjust(id) PROVE IInv'
    OBVIOUS
  <1> DEFINE L == Len(t_heap)
             i == t_ref[id]
  <1>1. /\ Exact /\ Control /\ Placed /\ (backs = 0 => HeapOrder /\ NoneLater)
        /\ L \in Nat /\ DOMAIN t_heap = 1..L /\ t_heap \in [1..L -> Node]
        /\ \A k \in 1..L : t_heap[k].expires \in Nat
    BY Parts
  <1>2. /\ pc = "loop" /\ id \in DOMAIN t_ref
        /\ t_heap' = [t_heap EXCEPT ![i].expires = Expiry]
        /\ t_ref' = t_ref
        /\ caller' \in {"Add", "Adjust"} /\ pc' = "down" /\ index' = i /\ at' = i
        /\ now' = now /\ backs' = backs /\ waitMode' = waitMode
    BY DEF AddAgain, Adjust, Renew, HasNode, Begin, clock
  <1>3. i \in 1..L /\ Expiry \in Nat
    BY <1>1, <1>2, Parts DEF Exact, Control
  <1>4. t_heap' \in Seq(Node) /\ Len(t_heap') = L /\ DOMAIN t_heap' = 1..L
    <2>1. t_heap' \in [1..L -> Node]
      BY <1>1, <1>2, <1>3 DEF Node
    <2> QED
      BY <1>1, <2>1, SeqDef, LenProperties
  <1>5. /\ t_heap'[i].id = t_heap[i].id /\ t_heap'[i].expires = Expiry
        /\ \A k \in 1..L : k # i => t_heap'[k] = t_heap[k]
    BY <1>1, <1>2, <1>3 DEF Node
  <1>6. Len(t_heap) = L
    OBVIOUS
  <1> HIDE DEF L, i
  <1>7. Exact'
    <2>1. \A k \in 1..L : t_heap'[k].id = t_heap[k].id
      BY <1>5
    <2> QED
      BY <2>1, <1>1, <1>2, <1>4 DEF Exact, HasNode
  <1>8. Size = L /\ Size' = L
    BY <1>1, <1>2, <1>4, <1>6 DEF Placed, Size, Erasing
  <1>9. Control' /\ Placed'
    <2>1. Control'
      BY <1>1, <1>2, <1>3, <1>4 DEF Control
    <2> QED
      BY <2>1, <1>1, <1>2, <1>3, <1>8 DEF Placed, Erasing
  <1>10. (backs = 0 => HeapOrder /\ NoneLater)'
    <2> SUFFICES ASSUME backs = 0 PROVE HeapOrder' /\ NoneLater'
      BY <1>2
    <2>1. \A k \in 2..L : Ordered(k)
      BY <1>1, <1>2, <1>8 DEF HeapOrder
    <2>2. t_heap[i].expires <= Expiry
      BY <1>1, <1>3, <1>6 DEF NoneLater
    <2>3. \A k \in 2..L : k \div 2 = i \/ Ordered(k)'
      <3> SUFFICES ASSUME NEW k \in 2..L, k \div 2 # i
                   PROVE  t_heap'[k \div 2].expires <= t_heap'[k].expires
        BY DEF Ordered
      <3>1. k \in 1..L /\ k \div 2 \in 1..L
        BY <1>1, Parents
      <3>2. t_heap[k \div 2].expires <= t_heap[k].expires
        BY <2>1 DEF Ordered
      <3>3. t_heap'[k \div 2] = t_heap[k \div 2]
        BY <3>1, <1>5
      <3>4. t_heap[k].expires <= t_heap'[k].expires
        BY <3>1, <2>2, <1>1, <1>5
      <3>5. t_heap'[k].expires \in Nat /\ t_heap[k].expires \in Nat
            /\ t_heap[k \div 2].expires \in Nat
        BY <3>1, <1>1, <1>3, <1>5
      <3> QED
        BY <3>2, <3>3, <3>4, <3>5
    <2>4. i > 1 => \A k \in 2..L : k \div 2 = i => t_heap'[i \div 2].expires <= t_heap'[k].expires
      <3> SUFFICES ASSUME i > 1, NEW k \in 2..L, k \div 2 = i
                   PROVE  t_heap'[i \div 2].expires <= t_heap'[k].expires
        OBVIOUS
      <3>1. i \in 2..L /\ i \div 2 \in 1..L /\ i \div 2 # i /\ k # i /\ k \in 1..L
        BY <1>1, <1>3, Parents
      <3>2. t_heap[i \div 2].expires <= t_heap[i].expires /\ t_heap[i].expires <= t_heap[k].expires
        BY <2>1, <3>1 DEF Ordered
      <3> QED
        BY <3>1, <3>2, <1>1, <1>5
    <2>5. HeapOrder'
      BY <2>3, <2>4, <1>2, <1>8 DEF HeapOrder
    <2>6. NoneLater'
      BY <1>1, <1>2, <1>3, <1>4, <1>5, <1>6 DEF NoneLater, Expiry
    <2> QED
      BY <2>5, <2>6
  <1> QED
    BY <1>7, <1>9, <1>10, Parts, PTL

\* Del sends the last node down from the place of the one that goes.
LEMMA DelHolds ==
    ASSUME IInv, NEW op \in {"DelWork", "Pop"}, NEW i \in 1..Len(t_heap), Del(op, i),
           pc \in {"loop", "callback"}, UNCHANGED <<clock, waitMode>>
    PROVE  IInv'
  <1> DEFINE L == Len(t_heap)
  <1>1. /\ Exact /\ Control /\ Placed /\ (backs = 0 => HeapOrder /\ NoneLater)
        /\ L \in Nat /\ DOMAIN t_heap = 1..L /\ t_heap \in [1..L -> Node]
        /\ \A k \in 1..L : t_heap[k].expires \in Nat
    BY Parts
  <1>2. /\ caller' = op /\ index' = i /\ at' = i
        /\ now' = now /\ backs' = backs /\ waitMode' = waitMode
    BY DEF Del, Begin, clock
  <1>3. caller = "none" /\ Size = L
    BY <1>1 DEF Placed, Size, Erasing
  <1>4. CASE i < L
    <2>0. SwapNode(i, L) /\ Begin(op, "down", i)
      BY <1>4 DEF Del
    <2>1. SwapNode(i, L) /\ pc' = "down"
      BY <2>0, Zenon DEF Begin
    <2>11. L \in 1..L /\ i \in 1..L /\ i # L
      <3>1. L \in Nat
        BY <1>1
      <3> QED
        BY <3>1, <1>4
    <2>2. /\ Exact' /\ Len(t_heap') = L
          /\ t_heap'[i] = t_heap[L] /\ t_heap'[L] = t_heap[i]
          /\ \A k \in 1..L : k # i /\ k # L => t_heap'[k] = t_heap[k]
      BY <1>1, <2>1, <2>11, Swapped
    <2>3. DOMAIN t_heap' = 1..L
      BY <2>2, LenProperties DEF Exact
    <2> HIDE DEF L
    <2>4. Size' = L - 1 /\ Erasing'
      BY <2>2, <1>2 DEF Size, Erasing
    <2>5. Control'
      BY <1>1, <1>2, <2>1, <2>3 DEF Control, L
    <2>6. Placed'
      <3>1. t_heap' # <<>> /\ at' <= Size'
        BY <1>1, <1>2, <1>4, <2>2, <2>4
      <3> QED
        BY <3>1, <1>2, <2>1, <2>4 DEF Placed, Erasing
    <2>7. (backs = 0 => HeapOrder /\ NoneLater)'
      <3> SUFFICES ASSUME backs = 0 PROVE HeapOrder' /\ NoneLater'
        BY <1>2
      <3>1. \A k \in 2..L : Ordered(k)
        BY <1>1, <1>3 DEF HeapOrder
      <3>2. \A k \in 2..(L - 1) : k \div 2 = i \/ k = i \/ Ordered(k)'
        <4> SUFFICES ASSUME NEW k \in 2..(L - 1), k # i, k \div 2 # i PROVE Ordered(k)'
          OBVIOUS
        <4>1. k \in 1..L /\ k \div 2 \in 1..L /\ k # L /\ k \div 2 # L
          BY <1>1, Parents
        <4>2. Ordered(k)
          BY <3>1, <4>1
        <4> QED
          BY <4>1, <4>2, <2>2 DEF Ordered
      <3>3. ASSUME i > 1, NEW k \in 2..(L - 1), k \div 2 = i
            PROVE  t_heap'[i \div 2].expires <= t_heap'[k].expires
        <4>1. /\ i \in 2..L /\ i \div 2 \in 1..L /\ i \div 2 # i /\ i \div 2 # L
              /\ k \in 2..L /\ k \in 1..L /\ k # i /\ k # L /\ i \in 1..L
          BY <1>1, <1>4, <3>3, Parents
        <4>2. t_heap[i \div 2].expires <= t_heap[i].expires /\ t_heap[i].expires <= t_heap[k].expires
          BY <3>1, <3>3, <4>1 DEF Ordered
        <4> QED
          BY <4>1, <4>2, <1>1, <2>2
      <3>4. HeapOrder'
        BY <3>2, <3>3, <1>2, <2>1, <2>4 DEF HeapOrder
      <3>5. NoneLater'
        <4>1. Expiry' = Expiry
          BY <1>2 DEF Expiry
        <4>2. \A k \in 1..L : t_heap[k].expires <= Expiry
          BY <1>1 DEF NoneLater, L
        <4>3. \A k \in 1..L : t_heap'[k].expires <= Expiry
          <5> SUFFICES ASSUME NEW k \in 1..L PROVE t_heap'[k].expires <= Expiry
            OBVIOUS
          <5>1. \E m \in 1..L : t_heap'[k] = t_heap[m]
            BY <2>2, <2>11
          <5> QED
            BY <5>1, <4>2
        <4> QED
          BY <4>1, <4>3, <2>2 DEF NoneLater
      <3> QED
        BY <3>4, <3>5
    <2> QED
      BY <2>2, <2>5, <2>6, <2>7, Parts, PTL
  <1>5. CASE ~(i < L)
    <2>1. pc' = "erase" /\ t_heap' = t_heap /\ t_ref' = t_ref
      BY <1>5 DEF Del, Begin, heap
    <2>2. Exact'
      BY <1>1, <2>1 DEF Exact, HasNode
    <2>3. Control'
      BY <1>1, <1>2, <2>1 DEF Control
    <2>4. Placed'
      BY <1>1, <1>2, <2>1 DEF Placed, Erasing
    <2>5. Size' = L - 1
      BY <1>2, <2>1 DEF Size, Erasing
    <2>6. (backs = 0 => HeapOrder /\ NoneLater)'
      BY <1>1, <1>2, <1>3, <2>1, <2>5 DEF HeapOrder, NoneLater, Ordered, Expiry
    <2> QED
      BY <2>2, <2>3, <2>4, <2>6, Parts, PTL
  <1> QED
    BY <1>4, <1>5

\* The child of ShiftDown is the earlier one.
LEMMA Chosen ==
    ASSUME Exact, at \in 1..Len(t_heap), Size \in {Len(t_heap), Len(t_heap) - 1}
    PROVE  /\ Child \in {2 * at, 2 * at + 1} /\ Child \div 2 = at
           /\ \A k \in 2..Size : k \div 2 = at =>
                 Child <= Size /\ t_heap[Child].expires <= t_heap[k].expires
  <1>1. /\ Len(t_heap) \in Nat /\ at \in Nat
        /\ \A k \in 1..Len(t_heap) : t_heap[k].expires \in Nat
    BY Parts
  <1>2. Child \in {2 * at, 2 * at + 1} /\ Child \div 2 = at
    BY <1>1 DEF Child
  <1>3. ASSUME NEW k \in 2..Size, k \div 2 = at
        PROVE  Child <= Size /\ t_heap[Child].expires <= t_heap[k].expires
    <2>1. k = 2 * at \/ k = 2 * at + 1
      BY <1>3, Parents
    <2>2. 2 * at <= Size /\ 2 * at \in 1..Len(t_heap) /\ k \in 1..Len(t_heap)
      BY <1>1, <2>1
    <2>3. CASE 2 * at + 1 <= Size
      <3>1. 2 * at + 1 \in 1..Len(t_heap)
        BY <1>1, <2>2, <2>3
      <3> QED
        BY <1>1, <2>1, <2>2, <2>3, <3>1 DEF Child, Earlier
    <2>4. CASE ~(2 * at + 1 <= Size)
      <3>1. Child = 2 * at /\ k = 2 * at
        BY <2>1, <2>4 DEF Child
      <3> QED
        BY <1>1, <2>2, <3>1
    <2> QED
      BY <2>3, <2>4
  <1> QED
    BY <1>2, <1>3

\* No node gets later when two change places.
LEMMA SwappedNoneLater ==
    ASSUME Exact, NEW i \in 1..Len(t_heap), NEW j \in 1..Len(t_heap), i # j, SwapNode(i, j),
           now' = now, NoneLater
    PROVE  NoneLater'
  <1>1. Len(t_heap') = Len(t_heap)
    BY Swapped
  <1>2. Expiry' = Expiry
    BY DEF Expiry
  <1>3. \A k \in 1..Len(t_heap) : \E m \in 1..Len(t_heap) : t_heap'[k] = t_heap[m]
    BY Swapped
  <1> QED
    BY <1>1, <1>2, <1>3 DEF NoneLater

\* A turn of the loop in ShiftDown.
LEMMA ShiftDownHolds == IInv /\ ShiftDown => IInv'
  <1> SUFFICES ASSUME IInv, ShiftDown PROVE IInv'
    OBVIOUS
  <1> DEFINE L == Len(t_heap)
             c == Child
             e(k) == t_heap[k].expires
             f(k) == t_heap'[k].expires
  <1>1. /\ Exact /\ Control /\ Placed /\ (backs = 0 => HeapOrder /\ NoneLater)
        /\ L \in Nat /\ DOMAIN t_heap = 1..L
        /\ \A k \in 1..L : e(k) \in Nat
    BY Parts
  <1>2. /\ pc = "down" /\ Sinks /\ SwapNode(at, c)
        /\ at' = c /\ now' = now /\ backs' = backs /\ pc' = pc
        /\ caller' = caller /\ index' = index /\ waitMode' = waitMode
    BY DEF ShiftDown, clock
  <1>3. Size \in {L, L - 1} /\ at \in 1..L /\ index \in 1..at /\ at <= Size
    BY <1>1, <1>2 DEF Size, Control, Placed
  <1>4. c \in {2 * at, 2 * at + 1} /\ c \div 2 = at
        /\ \A k \in 2..Size : k \div 2 = at => e(c) <= e(k)
    BY <1>1, <1>3, Chosen
  <1>5. c <= Size /\ ~(e(at) < e(c))
    BY <1>2 DEF Sinks, Earlier
  <1>6. c \in 2..Size /\ c \in 1..L /\ at # c /\ at < c
    <2> HIDE DEF c, L
    <2> QED
      BY <1>1, <1>3, <1>4, <1>5
  <1>7. /\ Exact' /\ Len(t_heap') = L
        /\ t_heap'[at] = t_heap[c] /\ t_heap'[c] = t_heap[at]
        /\ \A k \in 1..L : k # at /\ k # c => t_heap'[k] = t_heap[k]
    BY <1>1, <1>2, <1>3, <1>6, Swapped
  <1>8. DOMAIN t_heap' = 1..L
    BY <1>7, LenProperties DEF Exact
  <1>9. f(at) = e(c) /\ f(c) = e(at) /\ \A k \in 1..L : k # at /\ k # c => f(k) = e(k)
    BY <1>7
  <1>10. Size' = Size
    BY <1>2, <1>7 DEF Size, Erasing
  <1> HIDE DEF c, L
  <1>11. Control'
    BY <1>1, <1>2, <1>3, <1>6, <1>8 DEF Control
  <1>12. Placed'
    <2>1. Erasing => t_heap' # <<>>
      BY <1>1, <1>6, <1>7, <1>8
    <2> QED
      BY <2>1, <1>1, <1>2, <1>5, <1>10 DEF Placed, Erasing
  <1>13. (backs = 0 => HeapOrder /\ NoneLater)'
    <2> SUFFICES ASSUME backs = 0 PROVE HeapOrder' /\ NoneLater'
      BY <1>2
    <2>1. NoneLater'
      BY <1>1, <1>2, <1>3, <1>6, SwappedNoneLater DEF L
    <2>2. \A k \in 2..Size : k \div 2 = at \/ k = at \/ e(k \div 2) <= e(k)
      BY <1>1, <1>2 DEF HeapOrder, Ordered
    <2>3. \A k \in 2..Size : k \in 1..L /\ k \div 2 \in 1..L /\ k \div 2 < k
      BY <1>1, <1>3, Parents
    <2>4. at > 1 => e(at \div 2) <= e(c)
      BY <1>1, <1>2, <1>4, <1>6 DEF HeapOrder
    <2> HIDE DEF e, f
    <2>5. \A k \in 2..Size : k \div 2 = c \/ f(k \div 2) <= f(k)
      <3> SUFFICES ASSUME NEW k \in 2..Size, k \div 2 # c PROVE f(k \div 2) <= f(k)
        OBVIOUS
      <3>1. CASE k = c
        BY <3>1, <1>1, <1>3, <1>4, <1>5, <1>6, <1>9
      <3>2. CASE k # c /\ k \div 2 = at
        BY <3>2, <2>3, <1>1, <1>4, <1>6, <1>9
      <3>3. CASE k = at
        <4>1. at > 1 /\ f(at \div 2) = e(at \div 2)
          BY <3>3, <2>3, <1>3, <1>6, <1>9
        <4> QED
          BY <4>1, <3>3, <2>4, <1>9
      <3>4. CASE k # c /\ k # at /\ k \div 2 # at
        BY <3>4, <2>2, <2>3, <1>9
      <3> QED
        BY <3>1, <3>2, <3>3, <3>4
    <2>6. \A k \in 2..Size : k \div 2 = c => f(c \div 2) <= f(k)
      <3> SUFFICES ASSUME NEW k \in 2..Size, k \div 2 = c PROVE f(at) <= f(k)
        BY <1>4
      <3>1. k # at /\ k # c /\ k \in 1..L /\ c # at
        BY <2>3, <1>3, <1>6
      <3> QED
        BY <3>1, <2>2, <1>9
    <2> USE DEF e, f
    <2>7. HeapOrder'
      BY <2>5, <2>6, <1>2, <1>10 DEF HeapOrder, Ordered
    <2> QED
      BY <2>1, <2>7
  <1> QED
    BY <1>7, <1>11, <1>12, <1>13, Parts, PTL

\* A turn of the loop in ShiftUp.
LEMMA ShiftUpHolds == IInv /\ ShiftUp => IInv'
  <1> SUFFICES ASSUME IInv, ShiftUp PROVE IInv'
    OBVIOUS
  <1> DEFINE L == Len(t_heap)
             p == at \div 2
             e(k) == t_heap[k].expires
             f(k) == t_heap'[k].expires
  <1>1. /\ Exact /\ Control /\ Placed /\ (backs = 0 => HeapOrder /\ NoneLater)
        /\ L \in Nat /\ DOMAIN t_heap = 1..L
        /\ \A k \in 1..L : e(k) \in Nat
    BY Parts
  <1>2. /\ pc = "up" /\ Rises /\ SwapNode(at, p)
        /\ at' = p /\ now' = now /\ backs' = backs /\ pc' = pc
        /\ caller' = caller /\ index' = index /\ waitMode' = waitMode
    BY DEF ShiftUp, clock
  <1>3. Size \in {L, L - 1} /\ at \in 1..L /\ at <= Size
    BY <1>1, <1>2 DEF Size, Control, Placed
  <1>4. at > 1 /\ e(at) < e(p)
    BY <1>2 DEF Rises, Earlier
  <1>5. p \in 1..L /\ p < at /\ p # at /\ at \in 2..Size
    BY <1>1, <1>3, <1>4, Parents
  <1>6. /\ Exact' /\ Len(t_heap') = L
        /\ t_heap'[at] = t_heap[p] /\ t_heap'[p] = t_heap[at]
        /\ \A k \in 1..L : k # at /\ k # p => t_heap'[k] = t_heap[k]
    BY <1>1, <1>2, <1>3, <1>5, Swapped
  <1>7. DOMAIN t_heap' = 1..L
    BY <1>6, LenProperties DEF Exact
  <1>8. f(at) = e(p) /\ f(p) = e(at) /\ \A k \in 1..L : k # at /\ k # p => f(k) = e(k)
    BY <1>6
  <1>9. Size' = Size
    BY <1>2, <1>6 DEF Size, Erasing
  <1> HIDE DEF L
  <1>10. Control'
    BY <1>1, <1>2, <1>5, <1>7 DEF Control
  <1>11. Placed'
    <2>1. Erasing => t_heap' # <<>>
      BY <1>1, <1>5, <1>6, <1>7
    <2> QED
      BY <2>1, <1>1, <1>2, <1>3, <1>5, <1>9 DEF Placed, Erasing
  <1>12. (backs = 0 => HeapOrder /\ NoneLater)'
    <2> SUFFICES ASSUME backs = 0 PROVE HeapOrder' /\ NoneLater'
      BY <1>2
    <2>1. NoneLater'
      BY <1>1, <1>2, <1>3, <1>5, SwappedNoneLater DEF L
    <2>2. \A k \in 2..Size : k = at \/ e(k \div 2) <= e(k)
      BY <1>1, <1>2 DEF HeapOrder, Ordered
    <2>3. \A k \in 2..Size : k \in 1..L /\ k \div 2 \in 1..L /\ k \div 2 < k
      BY <1>1, <1>3, Parents
    <2>4. \A k \in 2..Size : k \div 2 = at => e(p) <= e(k)
      BY <1>1, <1>2, <1>4 DEF HeapOrder
    <2>5. p > 1 => p \in 2..Size /\ e(p \div 2) <= e(p) /\ p \div 2 \in 1..L /\ p \div 2 < p
      <3> SUFFICES ASSUME p > 1
                   PROVE  p \in 2..Size /\ e(p \div 2) <= e(p) /\ p \div 2 \in 1..L /\ p \div 2 < p
        OBVIOUS
      <3> HIDE DEF p, e
      <3>1. p \in 2..Size
        BY <1>1, <1>3, <1>5
      <3> QED
        BY <3>1, <2>2, <2>3, <1>5
    <2> HIDE DEF e, f, p
    <2>6. \A k \in 2..Size : k = p \/ f(k \div 2) <= f(k)
      <3> SUFFICES ASSUME NEW k \in 2..Size, k # p PROVE f(k \div 2) <= f(k)
        OBVIOUS
      <3>1. CASE k = at
        BY <3>1, <1>1, <1>3, <1>4, <1>5, <1>8 DEF p
      <3>2. CASE k # at /\ k \div 2 = p
        <4>1. e(p) <= e(k) /\ f(k) = e(k) /\ f(p) = e(at)
          BY <3>2, <2>2, <2>3, <1>8
        <4>2. e(p) \in Nat /\ e(k) \in Nat /\ e(at) \in Nat
          BY <2>3, <1>1, <1>3, <1>5
        <4> QED
          BY <3>2, <4>1, <4>2, <1>4
      <3>3. CASE k \div 2 = at
        BY <3>3, <2>3, <2>4, <1>5, <1>8
      <3>4. CASE k # at /\ k \div 2 # p /\ k \div 2 # at
        BY <3>4, <2>2, <2>3, <1>8
      <3> QED
        BY <3>1, <3>2, <3>3, <3>4
    <2>7. p > 1 => \A k \in 2..Size : k \div 2 = p => f(p \div 2) <= f(k)
      <3> SUFFICES ASSUME p > 1, NEW k \in 2..Size, k \div 2 = p PROVE f(p \div 2) <= f(k)
        OBVIOUS
      <3>1. f(p \div 2) = e(p \div 2) /\ e(p \div 2) <= e(p)
        BY <2>5, <1>5, <1>8
      <3>2. CASE k = at
        BY <3>1, <3>2, <1>8
      <3>3. CASE k # at
        <4>1. f(k) = e(k) /\ e(p) <= e(k)
          BY <3>3, <2>2, <2>3, <1>8
        <4>2. e(p) \in Nat /\ e(k) \in Nat /\ e(p \div 2) \in Nat
          BY <2>3, <2>5, <1>1, <1>5
        <4> QED
          BY <4>1, <4>2, <3>1
      <3> QED
        BY <3>2, <3>3
    <2> USE DEF e, f, p
    <2>8. HeapOrder'
      BY <2>6, <2>7, <1>2, <1>9 DEF HeapOrder, Ordered
    <2> QED
      BY <2>1, <2>8
  <1> QED
    BY <1>6, <1>10, <1>11, <1>12, Parts, PTL

\* The end of an operation, or the beginning of the end of Del.
LEMMA ShiftedHolds ==
    ASSUME IInv, pc \in {"down", "up"}, Shifted, UNCHANGED <<heap, clock, waitMode>>,
           backs = 0 => \A k \in 2..Size : Ordered(k)
    PROVE  IInv'
  <1>1. Exact /\ Control /\ Placed /\ (backs = 0 => HeapOrder /\ NoneLater)
    BY Parts
  <1>2. t_heap' = t_heap /\ t_ref' = t_ref /\ now' = now /\ backs' = backs /\ waitMode' = waitMode
    BY DEF heap, clock
  <1>3. \/ Erasing /\ pc' = "erase" /\ caller' = caller /\ index' = index /\ at' = at
        \/ ~Erasing /\ pc' = "loop" /\ caller' = "none" /\ index' = 0 /\ at' = 0
    BY DEF Shifted, Return
  <1>4. (Erasing <=> Erasing') /\ Size' = Size
    BY <1>2, <1>3 DEF Erasing, Size
  <1>5. Exact'
    BY <1>1, <1>2 DEF Exact, HasNode
  <1>6. Control'
    BY <1>1, <1>2, <1>3 DEF Control
  <1>7. Placed'
    BY <1>1, <1>2, <1>3, <1>4 DEF Placed, Erasing
  <1>8. (backs = 0 => HeapOrder /\ NoneLater)'
    BY <1>1, <1>2, <1>3, <1>4 DEF HeapOrder, NoneLater, Ordered, Expiry
  <1> QED
    BY <1>5, <1>6, <1>7, <1>8, Parts, PTL

\* The end of the loop in ShiftDown: what has not moved may still have to rise.
LEMMA ShiftedDownHolds == IInv /\ ShiftedDown => IInv'
  <1> SUFFICES ASSUME IInv, ShiftedDown PROVE IInv'
    OBVIOUS
  <1>1. Exact /\ Control /\ Placed /\ (backs = 0 => HeapOrder /\ NoneLater)
    BY Parts
  <1>2. pc = "down" /\ ~Sinks /\ UNCHANGED <<heap, clock, waitMode>>
    BY DEF ShiftedDown
  <1>3. Size \in {Len(t_heap), Len(t_heap) - 1} /\ at \in 1..Len(t_heap) /\ index \in 1..at
    BY <1>1, <1>2, Parts DEF Size, Control
  <1>4. ASSUME NEW k \in 2..Size, k \div 2 = at PROVE Ordered(k)
    <2>1. Child <= Size /\ t_heap[Child].expires <= t_heap[k].expires
      BY <1>1, <1>3, <1>4, Chosen
    <2>2. t_heap[at].expires < t_heap[Child].expires
      BY <1>2, <2>1 DEF Sinks, Earlier
    <2>3. Child \in 1..Len(t_heap) /\ k \in 1..Len(t_heap)
      <3>1. Child \in {2 * at, 2 * at + 1} /\ Len(t_heap) \in Nat
        BY <1>1, <1>3, Chosen, Parts
      <3> HIDE DEF Child
      <3> QED
        BY <3>1, <2>1, <1>3
    <2>4. /\ t_heap[at].expires \in Nat /\ t_heap[k].expires \in Nat
          /\ t_heap[Child].expires \in Nat
      BY <2>3, <1>1, <1>3, Parts
    <2> QED
      BY <2>1, <2>2, <2>4, <1>4 DEF Ordered
  <1>5. CASE at > index \/ caller = "Adjust"
    <2>1. Shifted
      BY <1>5 DEF ShiftedDown
    <2>2. backs = 0 => \A k \in 2..Size : Ordered(k)
      <3> SUFFICES ASSUME backs = 0, NEW k \in 2..Size PROVE Ordered(k)
        OBVIOUS
      <3>1. CASE k \div 2 = at
        BY <3>1, <1>4
      <3>2. CASE k \div 2 # at
        BY <3>2, <1>1, <1>2, <1>3, <1>5 DEF HeapOrder
      <3> QED
        BY <3>1, <3>2
    <2> QED
      BY <2>1, <2>2, <1>2, ShiftedHolds
  <1>6. CASE ~(at > index \/ caller = "Adjust")
    <2>1. /\ t_heap' = t_heap /\ t_ref' = t_ref /\ now' = now /\ backs' = backs
          /\ waitMode' = waitMode /\ pc' = "up" /\ caller' = caller /\ index' = index /\ at' = at
      BY <1>2, <1>6 DEF ShiftedDown, heap, clock
    <2>2. Exact'
      BY <1>1, <2>1 DEF Exact, HasNode
    <2>3. Size' = Size
      BY <2>1 DEF Size, Erasing
    <2>4. Control' /\ Placed'
      BY <1>1, <1>2, <1>6, <2>1, <2>3 DEF Control, Placed, Erasing
    <2>5. ASSUME backs = 0 PROVE HeapOrder'
      <3>1. \A k \in 2..Size : k = at \/ Ordered(k)
        BY <1>1, <1>2, <1>4, <2>5 DEF HeapOrder
      <3>2. at > 1 => \A k \in 2..Size : k \div 2 = at => t_heap[at \div 2].expires <= t_heap[k].expires
        BY <1>1, <1>2, <2>5 DEF HeapOrder
      <3> QED
        BY <3>1, <3>2, <2>1, <2>3 DEF HeapOrder, Ordered
    <2>6. (backs = 0 => HeapOrder /\ NoneLater)'
      BY <1>1, <2>1, <2>5 DEF NoneLater, Expiry
    <2> QED
      BY <2>2, <2>4, <2>6, Parts, PTL
  <1> QED
    BY <1>5, <1>6

\* The end of the loop in ShiftUp.
LEMMA ShiftedUpHolds == IInv /\ ShiftedUp => IInv'
  <1> SUFFICES ASSUME IInv, ShiftedUp PROVE IInv'
    OBVIOUS
  <1>1. Exact /\ Control /\ Placed /\ (backs = 0 => HeapOrder /\ NoneLater)
    BY Parts
  <1>2. pc = "up" /\ ~Rises /\ Shifted /\ UNCHANGED <<heap, clock, waitMode>>
    BY DEF ShiftedUp
  <1>3. at \in 1..Len(t_heap) /\ \A k \in 1..Len(t_heap) : t_heap[k].expires \in Nat
    BY <1>1, <1>2, Parts DEF Control
  <1>4. at > 1 => Ordered(at)
    <2> SUFFICES ASSUME at > 1 PROVE Ordered(at)
      OBVIOUS
    <2>1. at \div 2 \in 1..Len(t_heap)
      BY <1>1, <1>3, Parents, Parts
    <2>2. ~(t_heap[at].expires < t_heap[at \div 2].expires)
      BY <1>2 DEF Rises, Earlier
    <2> QED
      BY <2>1, <2>2, <1>3 DEF Ordered
  <1>5. backs = 0 => \A k \in 2..Size : Ordered(k)
    BY <1>1, <1>2, <1>4 DEF HeapOrder
  <1> QED
    BY <1>2, <1>5, ShiftedHolds

\* Del takes the last node away, and its reference.
LEMMA EraseHolds == IInv /\ Erase => IInv'
  <1> SUFFICES ASSUME IInv, Erase PROVE IInv'
    OBVIOUS
  <1> DEFINE L == Len(t_heap)
             gone == t_heap[L].id
  <1>1. /\ Exact /\ Control /\ Placed /\ (backs = 0 => HeapOrder /\ NoneLater)
        /\ L \in Nat /\ DOMAIN t_heap = 1..L /\ t_heap \in [1..L -> Node]
    BY Parts
  <1>2. /\ pc = "erase"
        /\ t_ref' = [id \in DOMAIN t_ref \ {gone} |-> t_ref[id]]
        /\ t_heap' = SubSeq(t_heap, 1, L - 1)
        /\ pc' \in {"tick", "loop"} /\ caller' = "none" /\ index' = 0 /\ at' = 0
        /\ now' = now /\ backs' = backs /\ waitMode' = waitMode
    BY DEF Erase, Restrict, Return, clock
  <1>3. L >= 1 /\ Erasing /\ Size = L - 1
    <2>1. t_heap # <<>> /\ Erasing
      BY <1>1, <1>2 DEF Placed
    <2>2. L # 0
      BY <2>1, <1>1, EmptySeq DEF Exact
    <2> QED
      BY <2>1, <2>2, <1>1 DEF Size
  <1>4. /\ t_heap' \in Seq(Node) /\ Len(t_heap') = L - 1
        /\ \A k \in 1..(L - 1) : t_heap'[k] = t_heap[k]
    <2>1. \A k \in 1..(L - 1) : t_heap[k] \in Node
      BY <1>1
    <2> QED
      BY <1>1, <1>2, <1>3, <2>1, SubSeqProperties DEF Exact
  <1>5. DOMAIN t_heap' = 1..(L - 1)
    BY <1>4, LenProperties
  <1>6. gone \in DOMAIN t_ref /\ t_ref[gone] = L
    BY <1>1, <1>3 DEF Exact, HasNode
  <1>7. Exact'
    <2> HIDE DEF gone
    <2>1. DOMAIN t_ref' = DOMAIN t_ref \ {gone} /\ \A id \in DOMAIN t_ref' : t_ref'[id] = t_ref[id]
      BY <1>2
    <2>2. \A id \in DOMAIN t_ref' : t_ref[id] \in 1..L /\ t_heap[t_ref[id]].id = id
      BY <2>1, <1>1 DEF Exact
    <2>3. \A id \in DOMAIN t_ref' : t_ref[id] # L
      BY <2>1, <2>2 DEF gone
    <2>4. \A id \in DOMAIN t_ref' : t_ref'[id] \in 1..(L - 1) /\ t_heap'[t_ref'[id]].id = id
      BY <2>1, <2>2, <2>3, <1>1, <1>3, <1>4
    <2>5. \A k \in 1..(L - 1) : t_heap[k].id \in DOMAIN t_ref /\ t_ref[t_heap[k].id] = k
      BY <1>1 DEF Exact, HasNode
    <2>6. \A k \in 1..(L - 1) : t_heap[k].id # gone
      BY <2>5, <1>1, <1>6
    <2>7. \A k \in 1..(L - 1) : t_heap'[k].id \in DOMAIN t_ref' /\ t_ref'[t_heap'[k].id] = k
      BY <2>1, <2>5, <2>6, <1>4
    <2>8. DOMAIN t_ref' \subseteq Ids
      BY <2>1, <1>1 DEF Exact
    <2> QED
      BY <2>4, <2>7, <2>8, <1>4, <1>5 DEF Exact, HasNode
  <1>8. Size' = L - 1
    BY <1>2, <1>4 DEF Size, Erasing
  <1>9. Control' /\ Placed'
    BY <1>1, <1>2 DEF Control, Placed, Erasing
  <1>10. (backs = 0 => HeapOrder /\ NoneLater)'
    <2> SUFFICES ASSUME backs = 0 PROVE HeapOrder' /\ NoneLater'
      BY <1>2
    <2>1. \A k \in 2..(L - 1) : Ordered(k)
      BY <1>1, <1>2, <1>3 DEF HeapOrder
    <2>2. \A k \in 2..(L - 1) : Ordered(k)'
      <3> SUFFICES ASSUME NEW k \in 2..(L - 1) PROVE Ordered(k)'
        OBVIOUS
      <3>1. k \in 1..(L - 1) /\ k \div 2 \in 1..(L - 1)
        BY <1>1, Parents
      <3> QED
        BY <3>1, <2>1, <1>4 DEF Ordered
    <2>3. HeapOrder'
      BY <2>2, <1>2, <1>8 DEF HeapOrder
    <2>4. NoneLater'
      BY <1>1, <1>2, <1>4 DEF NoneLater, Expiry
    <2> QED
      BY <2>3, <2>4
  <1> QED
    BY <1>7, <1>9, <1>10, Parts, PTL

\* Every step keeps the invariant.
LEMMA StepHolds == IInv /\ [Next]_vars => IInv'
  <1> SUFFICES ASSUME IInv, [Next]_vars PROVE IInv'
    OBVIOUS
  <1>1. CASE Advance \/ SetBack
    BY <1>1, ClockHolds
  <1>2. CASE \E id \in Ids : AddNew(id)
    BY <1>2, AddNewHolds
  <1>3. CASE \E id \in Ids : AddAgain(id) \/ Adjust(id)
    BY <1>3, RenewHolds
  <1>4. ASSUME NEW id \in Ids, DelWork(id) PROVE IInv'
    <2>1. pc = "loop" /\ Del("DelWork", t_ref[id]) /\ UNCHANGED <<clock, waitMode>>
      BY <1>4 DEF DelWork
    <2>2. t_ref[id] \in 1..Len(t_heap)
      BY <1>4, Parts DEF DelWork, HasNode, Exact
    <2> QED
      BY <2>1, <2>2, DelHolds
  <1>5. CASE Pop
    <2>1. pc = "callback" /\ Del("Pop", 1) /\ UNCHANGED <<clock, waitMode>>
      BY <1>5 DEF Pop
    <2>2. 1 \in 1..Len(t_heap)
      <3>1. t_heap # <<>> /\ t_heap \in Seq(Node)
        BY <2>1, Parts DEF Placed, Exact
      <3> QED
        BY <3>1, EmptySeq, LenProperties
    <2> QED
      BY <2>1, <2>2, DelHolds
  <1>6. CASE ShiftDown \/ ShiftedDown \/ ShiftUp \/ ShiftedUp \/ Erase
    BY <1>6, ShiftDownHolds, ShiftedDownHolds, ShiftUpHolds, ShiftedUpHolds, EraseHolds
  <1>7. CASE GetNextTick \/ Fire \/ TickDone \/ NextTick
    <2>1. /\ pc \in {"loop", "tick", "timeout"} /\ UNCHANGED <<heap, clock>>
          /\ pc' \in {"loop", "tick", "callback", "timeout"} /\ Return(pc')
          /\ pc' = "callback" => t_heap # <<>>
      BY <1>7 DEF GetNextTick, Fire, TickDone, NextTick, Return
    <2>2. waitMode \in {"forever", "timed", "zero"}
      BY Parts DEF Control
    <2>3. waitMode' \in {"forever", "timed", "zero"}
      BY <1>7, <2>2 DEF GetNextTick, Fire, TickDone, NextTick
    <2> QED
      BY <2>1, <2>3, IdleHolds
  <1>8. CASE UNCHANGED vars
    <2>1. /\ t_heap' = t_heap /\ t_ref' = t_ref /\ now' = now /\ backs' = backs /\ pc' = pc
          /\ caller' = caller /\ index' = index /\ at' = at /\ waitMode' = waitMode
      BY <1>8 DEF vars, heap, clock, control
    <2> QED
      BY <2>1 DEF IInv, RefExact, TypeOK, Placed, HeapOrder, NoneLater, HasNode, Erasing, Size, Ordered, Expiry
  <1> QED
    BY <1>1, <1>2, <1>3, <1>4, <1>5, <1>6, <1>7, <1>8 DEF Next

-------------------------------------------------------------------------------
(* The promise *)

\* The nodes of the heap are those that t_ref finds.
LEMMA Found ==
    Exact => /\ Nodes = DOMAIN t_ref
             /\ Due = {id \in DOMAIN t_ref : Remaining(NodeOf(id)) <= 0}
  <1> SUFFICES ASSUME Exact
               PROVE  /\ Nodes = DOMAIN t_ref
                      /\ Due = {id \in DOMAIN t_ref : Remaining(NodeOf(id)) <= 0}
    OBVIOUS
  <1>1. \A id \in DOMAIN t_ref : t_ref[id] \in DOMAIN t_heap /\ t_heap[t_ref[id]].id = id
    BY DEF Exact
  <1>2. \A i \in DOMAIN t_heap : t_heap[i].id \in DOMAIN t_ref /\ t_ref[t_heap[i].id] = i
    BY DEF Exact, HasNode
  <1>3. Nodes = DOMAIN t_ref
    BY <1>1, <1>2 DEF Nodes
  <1>4. ASSUME NEW id PROVE id \in Due <=> id \in DOMAIN t_ref /\ Remaining(NodeOf(id)) <= 0
    <2>1. ASSUME id \in Due PROVE id \in DOMAIN t_ref /\ Remaining(NodeOf(id)) <= 0
      <3>1. PICK i \in DOMAIN t_heap : Remaining(t_heap[i]) <= 0 /\ id = t_heap[i].id
        BY <2>1 DEF Due
      <3>2. id \in DOMAIN t_ref /\ t_ref[id] = i
        BY <3>1, <1>2
      <3> QED
        BY <3>1, <3>2 DEF NodeOf
    <2>2. ASSUME id \in DOMAIN t_ref, Remaining(NodeOf(id)) <= 0 PROVE id \in Due
      BY <2>2, <1>1 DEF Due, NodeOf
    <2> QED
      BY <2>1, <2>2
  <1> QED
    BY <1>3, <1>4

\* What keeps every id its node is not seen from outside.
LEMMA Unseen ==
    ASSUME Exact, Exact', now' = now, DOMAIN t_ref' = DOMAIN t_ref,
           \A id \in DOMAIN t_ref : NodeOf(id)' = NodeOf(id)
    PROVE  Nodes' = Nodes /\ Due' = Due
  <1>1. /\ Nodes = DOMAIN t_ref
        /\ Due = {id \in DOMAIN t_ref : Remaining(NodeOf(id)) <= 0}
    BY Found
  <1>2. (/\ Nodes = DOMAIN t_ref
         /\ Due = {id \in DOMAIN t_ref : Remaining(NodeOf(id)) <= 0})'
    BY Found, PTL
  <1>3. \A id \in DOMAIN t_ref : Remaining(NodeOf(id))' = Remaining(NodeOf(id))
    BY DEF Remaining
  <1> QED
    BY <1>1, <1>2, <1>3

\* When a node has expired.
LEMMA Expired ==
    ASSUME NEW n \in Node, now \in Nat
    PROVE  /\ Remaining(n) \in Int
           /\ Remaining(n) <= 0 <=> n.expires < now + PerMs
  <1>1. n.expires \in Nat
    BY DEF Node
  <1>2. CASE n.expires >= now
    <2>1. \A a \in Nat : a \div PerMs \in Nat /\ (a \div PerMs <= 0 <=> a < PerMs)
      BY TimerAssumption
    <2>2. n.expires - now \in Nat /\ (n.expires - now < PerMs <=> n.expires < now + PerMs)
      BY <1>1, <1>2, TimerAssumption
    <2> QED
      BY <1>2, <2>1, <2>2 DEF Remaining
  <1>3. CASE ~(n.expires >= now)
    <2>1. \A a \in Nat : a \div PerMs \in Nat
      BY TimerAssumption
    <2>2. now - n.expires \in Nat /\ n.expires < now + PerMs
      BY <1>1, <1>3, TimerAssumption
    <2> QED
      BY <1>3, <2>1, <2>2 DEF Remaining
  <1> QED
    BY <1>2, <1>3

LEMMA AllExpired ==
    now \in Nat => \A n \in Node : Remaining(n) \in Int
                    /\ (Remaining(n) <= 0 <=> n.expires < now + PerMs)
  BY Expired

LEMMA AllExpiredNext ==
    (now \in Nat => \A n \in Node : Remaining(n) \in Int
                     /\ (Remaining(n) <= 0 <=> n.expires < now + PerMs))'
  BY AllExpired, PTL

\* The front of an ordered heap is the earliest of all nodes.
LEMMA FrontIsFirst ==
    ASSUME Exact, \A k \in 2..Len(t_heap) : Ordered(k)
    PROVE  \A k \in 1..Len(t_heap) : t_heap[1].expires <= t_heap[k].expires
  <1> DEFINE L == Len(t_heap)
             e(k) == t_heap[k].expires
             Before == {k \in 1..L : ~(e(1) <= e(k))}
             R == {xy \in Nat \X Nat : xy[1] < xy[2]}
  <1>1. L \in Nat /\ \A k \in 1..L : e(k) \in Nat
    BY Parts
  <1>2. \A k \in 2..L : e(k \div 2) <= e(k)
    BY DEF Ordered
  <1> HIDE DEF e, L
  <1>3. SUFFICES ASSUME Before # {} PROVE FALSE
    BY DEF e, L
  <1>4. IsWellFoundedOn(R, Nat)
    BY NatLessThanWellFounded, Zenon DEF OpToRel
  <1>5. Before \subseteq Nat
    BY <1>1
  <1>6. PICK k \in Before : \A m \in Before : ~(<<m, k>> \in R)
    <2> HIDE DEF R, Before
    <2> QED
      BY <1>3, <1>4, <1>5, WFMin
  <1>7. k \in 1..L /\ ~(e(1) <= e(k))
    BY <1>6
  <1>8. k # 1
    BY <1>1, <1>7
  <1>9. k \in 2..L /\ k \div 2 \in 1..L /\ k \div 2 < k
    BY <1>1, <1>7, <1>8, Parents
  <1>10. e(k \div 2) <= e(k)
    BY <1>2, <1>9
  <1>11. k \div 2 \notin Before
    <2>1. k \in Nat /\ k \div 2 \in Nat
      BY <1>9
    <2>2. <<k \div 2, k>> \in R
      BY <1>9, <2>1
    <2> QED
      BY <1>6, <2>2
  <1>12. e(1) <= e(k \div 2)
    BY <1>9, <1>11
  <1> QED
    BY <1>1, <1>7, <1>9, <1>10, <1>12

\* So GetNextTick finds every node in time for the next sleep.
LEMMA FrontSpeaksForAll ==
    ASSUME IInv, backs = 0, caller = "none", pc \notin {"down", "up"}, Remaining(t_heap[1]) > 0
    PROVE  Due = {}
  <1>1. /\ Exact /\ HeapOrder /\ now \in Nat /\ Size = Len(t_heap)
        /\ DOMAIN t_heap = 1..Len(t_heap) /\ t_heap \in [1..Len(t_heap) -> Node]
    BY Parts DEF Control, Size, Erasing
  <1>2. \A k \in 2..Len(t_heap) : Ordered(k)
    BY <1>1 DEF HeapOrder
  <1>3. ASSUME NEW k \in 1..Len(t_heap) PROVE ~(Remaining(t_heap[k]) <= 0)
    <2>1. t_heap[1].expires <= t_heap[k].expires
      BY <1>1, <1>2, FrontIsFirst
    <2>2. t_heap[1] \in Node /\ t_heap[k] \in Node
      <3>1. 1 \in 1..Len(t_heap)
        OBVIOUS
      <3> QED
        BY <1>1, <3>1
    <2>3. Remaining(t_heap[1]) \in Int /\ (Remaining(t_heap[1]) <= 0 <=> t_heap[1].expires < now + PerMs)
      BY <1>1, <2>2, Expired
    <2>4. Remaining(t_heap[k]) <= 0 <=> t_heap[k].expires < now + PerMs
      BY <1>1, <2>2, Expired
    <2>5. ~(t_heap[1].expires < now + PerMs)
      BY <2>3
    <2>6. t_heap[1].expires \in Nat /\ t_heap[k].expires \in Nat /\ now + PerMs \in Nat
      BY <1>1, <2>2, TimerAssumption DEF Node
    <2> QED
      BY <2>1, <2>4, <2>5, <2>6
  <1> QED
    BY <1>1, <1>3 DEF Due

\* Nothing of the promise moves.
Same == UNCHANGED <<Nodes, Due, Firing, waitMode>>

\* Nor does anything while the heap and the clock stand still.
LEMMA StillUnseen == UNCHANGED heap /\ now' = now => Nodes' = Nodes /\ Due' = Due
  BY DEF heap, Nodes, Due, Remaining

\* When the callback runs, the front is its node; Pop has put it last.
LEMMA ShiftUnseen == IInv /\ (ShiftDown \/ ShiftUp) => Same
  <1> SUFFICES ASSUME IInv, ShiftDown \/ ShiftUp PROVE Same
    OBVIOUS
  <1> DEFINE L == Len(t_heap)
  <1>1. /\ Exact /\ Control /\ Placed /\ L \in Nat /\ DOMAIN t_heap = 1..L
        /\ \A k \in 1..L : t_heap[k].expires \in Nat
    BY Parts
  <1>2. /\ pc \in {"down", "up"} /\ now' = now /\ pc' = pc /\ caller' = caller
        /\ waitMode' = waitMode
    BY DEF ShiftDown, ShiftUp, clock
  <1>3. Size \in {L, L - 1} /\ at \in 1..L /\ at <= Size
    BY <1>1, <1>2 DEF Size, Control, Placed
  <1>4. \E j \in 1..L : j <= Size /\ j # at /\ SwapNode(at, j)
    <2>1. CASE ShiftDown
      <3>1. Child <= Size /\ SwapNode(at, Child)
        BY <2>1 DEF ShiftDown, Sinks
      <3>2. Child \in {2 * at, 2 * at + 1}
        BY <1>1, <1>3, Chosen
      <3>3. Child \in 1..L /\ Child # at
        <4> HIDE DEF Child, L
        <4> QED
          BY <3>1, <3>2, <1>1, <1>3
      <3> QED
        BY <3>1, <3>3
    <2>2. CASE ShiftUp
      <3>1. at > 1 /\ SwapNode(at, at \div 2)
        BY <2>2 DEF ShiftUp, Rises
      <3>2. at \div 2 \in 1..L /\ at \div 2 <= Size /\ at \div 2 # at
        BY <3>1, <1>1, <1>3, Parents
      <3> QED
        BY <3>1, <3>2
    <2> QED
      BY <2>1, <2>2
  <1>5. PICK j \in 1..L : j <= Size /\ j # at /\ SwapNode(at, j)
    BY <1>4
  <1>6. /\ Exact' /\ Len(t_heap') = L
        /\ \A k \in 1..L : k # at /\ k # j => t_heap'[k] = t_heap[k]
        /\ DOMAIN t_ref' = DOMAIN t_ref
        /\ \A id \in DOMAIN t_ref : NodeOf(id)' = NodeOf(id)
    BY <1>1, <1>3, <1>5, Swapped
  <1>7. Nodes' = Nodes /\ Due' = Due
    BY <1>1, <1>2, <1>6, Unseen
  <1>8. caller = "Pop" => t_heap'[L] = t_heap[L]
    <2> SUFFICES ASSUME caller = "Pop" PROVE t_heap'[L] = t_heap[L]
      OBVIOUS
    <2>1. Size = L - 1
      BY DEF Size, Erasing
    <2> HIDE DEF L
    <2>2. L \in 1..L /\ L # at /\ L # j
      BY <2>1, <1>1, <1>3, <1>5
    <2> QED
      BY <2>2, <1>6
  <1>9. Firing' = Firing
    BY <1>2, <1>6, <1>8 DEF Firing
  <1> QED
    BY <1>2, <1>7, <1>9 DEF Same

\* The beginning of Del moves nothing either.
LEMMA DelUnseen ==
    ASSUME IInv, NEW op \in {"DelWork", "Pop"}, NEW i \in 1..Len(t_heap), Del(op, i),
           UNCHANGED <<clock, waitMode>>,
           pc \in {"loop", "callback"}, Firing = IF op = "Pop" THEN {t_heap[i].id} ELSE {}
    PROVE  Same
  <1> DEFINE L == Len(t_heap)
  <1>1. /\ Exact /\ Control /\ Placed /\ L \in Nat /\ DOMAIN t_heap = 1..L
    BY Parts
  <1>2. caller = "none" /\ caller' = op /\ pc' \in {"down", "erase"} /\ now' = now /\ waitMode' = waitMode
    BY <1>1 DEF Placed, Del, Begin, clock
  <1>3. /\ Nodes' = Nodes /\ Due' = Due
        /\ Len(t_heap') = L /\ t_heap'[L] = t_heap[i]
    <2>1. CASE i < L
      <3>1. SwapNode(i, L)
        BY <2>1 DEF Del
      <3>2. L \in 1..L /\ i # L
        <4> HIDE DEF L
        <4> QED
          BY <1>1, <2>1
      <3>3. /\ Exact' /\ Len(t_heap') = L /\ t_heap'[L] = t_heap[i]
            /\ DOMAIN t_ref' = DOMAIN t_ref
            /\ \A id \in DOMAIN t_ref : NodeOf(id)' = NodeOf(id)
        BY <1>1, <3>1, <3>2, Swapped
      <3> QED
        BY <1>1, <1>2, <3>3, Unseen
    <2>2. CASE ~(i < L)
      <3>1. UNCHANGED heap
        BY <2>2, Zenon DEF Del
      <3>2. i = L
        <4>1. L \in Nat
          BY <1>1
        <4> QED
          BY <4>1, <2>2
      <3> QED
        BY <3>1, <3>2, <1>2, StillUnseen DEF heap
    <2> QED
      BY <2>1, <2>2
  <1>4. Firing' = Firing
    BY <1>2, <1>3 DEF Firing
  <1> QED
    BY <1>2, <1>3, <1>4 DEF Same

\* The end of the shifting, and the steps of Start between the operations.
LEMMA QuietUnseen == IInv /\ (ShiftedDown \/ ShiftedUp \/ GetNextTick \/ TickDone) => Same
  <1> SUFFICES ASSUME IInv, ShiftedDown \/ ShiftedUp \/ GetNextTick \/ TickDone PROVE Same
    OBVIOUS
  <1>1. UNCHANGED heap /\ now' = now /\ waitMode' = waitMode
    BY DEF ShiftedDown, ShiftedUp, GetNextTick, TickDone, clock
  <1>2. pc # "callback" /\ pc' # "callback" /\ (caller' = "Pop" <=> caller = "Pop")
    <2>1. Placed
      BY Parts
    <2> QED
      BY <2>1 DEF Placed, Erasing, ShiftedDown, ShiftedUp, Shifted, GetNextTick, TickDone, Return
  <1> QED
    BY <1>1, <1>2, StillUnseen DEF Same, Firing, heap

\* Time passes, and what has expired stays so.
LEMMA AdvancePromised == IInv /\ Advance => Promise!Expire
  <1> SUFFICES ASSUME IInv, Advance PROVE Promise!Expire
    OBVIOUS
  <1>1. /\ Exact /\ DOMAIN t_heap = 1..Len(t_heap) /\ t_heap \in [1..Len(t_heap) -> Node]
        /\ now \in Nat
    BY Parts DEF Control
  <1>2. /\ t_heap' = t_heap /\ now' = now + 1 /\ now' \in Nat
        /\ UNCHANGED <<pc, caller, waitMode>>
    BY <1>1 DEF Advance, heap, control
  <1>3. Nodes' = Nodes /\ Firing' = Firing /\ Due' \subseteq Nodes
    BY <1>2 DEF Nodes, Firing, Due
  <1>4. ASSUME NEW k \in 1..Len(t_heap), Remaining(t_heap[k]) <= 0 PROVE Remaining(t_heap[k])' <= 0
    <2>1. t_heap[k] \in Node
      BY <1>1
    <2>2. t_heap[k].expires < now + PerMs
      BY <1>1, <1>4, <2>1, Expired
    <2>3. t_heap[k].expires < now' + PerMs
      BY <1>1, <1>2, <2>1, <2>2, TimerAssumption DEF Node
    <2> QED
      BY <1>2, <2>1, <2>3, AllExpiredNext DEF Remaining
  <1>5. Due \subseteq Due'
    BY <1>1, <1>2, <1>4 DEF Due
  <1> QED
    BY <1>2, <1>3, <1>5 DEF Promise!Expire

\* The remaining part of the invariant at the next step.
LEMMA PartsNext == IInv' => Exact'
  BY Parts, PTL

LEMMA FoundNext ==
    (Exact => /\ Nodes = DOMAIN t_ref
              /\ Due = {id \in DOMAIN t_ref : Remaining(NodeOf(id)) <= 0})'
  BY Found, PTL

\* Add and Adjust give the node of the id a whole timeout, which has not expired.
LEMMA RenewPromised ==
    ASSUME IInv, IInv', NEW id \in Ids, AddNew(id) \/ AddAgain(id) \/ Adjust(id)
    PROVE  Promise!Renew(id)
  <1> DEFINE L == Len(t_heap)
  <1>1. /\ Exact /\ Placed /\ L \in Nat /\ DOMAIN t_heap = 1..L
        /\ now \in Nat /\ Expiry \in Nat /\ t_heap \in [1..L -> Node]
    BY Parts DEF Control
  <1>2. Exact'
    BY PartsNext
  <1>3. /\ pc = "loop" /\ pc' \in {"up", "down"} /\ caller' \in {"Add", "Adjust"}
        /\ now' = now /\ waitMode' = waitMode
    BY DEF AddNew, AddAgain, Adjust, Begin, clock
  <1>4. Firing = {} /\ Firing' = {}
    BY <1>1, <1>3 DEF Firing, Placed
  <1>5. /\ DOMAIN t_ref' = DOMAIN t_ref \cup {id}
        /\ NodeOf(id)'.expires = Expiry /\ NodeOf(id)' \in Node
        /\ \A k \in DOMAIN t_ref : k # id => NodeOf(k)' = NodeOf(k)
    <2>1. CASE AddNew(id)
      <3> DEFINE n == [id |-> id, expires |-> Expiry]
      <3>1. /\ id \notin DOMAIN t_ref
            /\ t_heap' = Append(t_heap, n)
            /\ t_ref' = [k \in DOMAIN t_ref \cup {id} |-> IF k = id THEN L + 1 ELSE t_ref[k]]
        BY <2>1 DEF AddNew, HasNode
      <3>2. n \in Node /\ n.expires = Expiry
        BY <1>1 DEF Node
      <3> HIDE DEF n
      <3>3. t_heap'[L + 1] = n /\ \A k \in 1..L : t_heap'[k] = t_heap[k]
        BY <1>1, <3>1, <3>2, AppendProperties DEF Exact
      <3>4. \A k \in DOMAIN t_ref : t_ref[k] \in 1..L
        BY <1>1 DEF Exact
      <3>5. t_ref'[id] = L + 1 /\ \A k \in DOMAIN t_ref : k # id => t_ref'[k] = t_ref[k]
        BY <3>1
      <3>6. DOMAIN t_ref' = DOMAIN t_ref \cup {id}
        BY <3>1
      <3> HIDE DEF L
      <3> QED
        BY <3>2, <3>3, <3>4, <3>5, <3>6 DEF NodeOf
    <2>2. CASE AddAgain(id) \/ Adjust(id)
      <3>1. /\ id \in DOMAIN t_ref /\ t_ref' = t_ref
            /\ t_heap' = [t_heap EXCEPT ![t_ref[id]].expires = Expiry]
        BY <2>2 DEF AddAgain, Adjust, Renew, HasNode
      <3>2. \A k \in DOMAIN t_ref : t_ref[k] \in 1..L /\ (k # id => t_ref[k] # t_ref[id])
        BY <1>1, <3>1 DEF Exact
      <3>3. /\ t_heap'[t_ref[id]] \in Node /\ t_heap'[t_ref[id]].expires = Expiry
            /\ \A k \in 1..L : k # t_ref[id] => t_heap'[k] = t_heap[k]
        BY <1>1, <3>1, <3>2 DEF Node
      <3> HIDE DEF L
      <3> QED
        BY <3>1, <3>2, <3>3 DEF NodeOf
    <2> QED
      BY <2>1, <2>2
  <1>6. Nodes' = Nodes \cup {id}
    BY <1>1, <1>2, <1>5, Found, FoundNext
  <1>7. Remaining(NodeOf(id))' > 0
    <2>1. Expiry >= now + PerMs /\ PerMs \in Nat
      <3>1. \A t, p \in Nat \ {0} : t * p >= p /\ t * p \in Nat
        OBVIOUS
      <3> QED
        BY <1>1, <3>1, TimerAssumption DEF Expiry
    <2>2. Remaining(NodeOf(id))' \in Int
          /\ (Remaining(NodeOf(id))' <= 0 <=> NodeOf(id)'.expires < now' + PerMs)
      BY <1>1, <1>3, <1>5, AllExpiredNext DEF Remaining
    <2> QED
      BY <2>1, <2>2, <1>1, <1>3, <1>5
  <1>8. \A k \in DOMAIN t_ref : k # id => Remaining(NodeOf(k))' = Remaining(NodeOf(k))
    BY <1>3, <1>5 DEF Remaining
  <1>9. Due' = Due \ {id}
    <2>1. Due = {k \in DOMAIN t_ref : Remaining(NodeOf(k)) <= 0}
      BY <1>1, Found
    <2>2. Due' = {k \in DOMAIN t_ref' : Remaining(NodeOf(k))' <= 0}
      BY <1>2, FoundNext
    <2>3. ~(Remaining(NodeOf(id))' <= 0)
      <3>1. Remaining(NodeOf(id))' \in Int
        BY <1>1, <1>3, <1>5, AllExpiredNext DEF Remaining
      <3> QED
        BY <3>1, <1>7
    <2> QED
      BY <2>1, <2>2, <2>3, <1>5, <1>8
  <1> QED
    BY <1>3, <1>4, <1>6, <1>9 DEF Promise!Renew

\* Del takes out the node of DelWork's id, or of the callback that has returned.
LEMMA ErasePromised ==
    ASSUME IInv, IInv', Erase
    PROVE  Promise!Pop \/ \E id \in Ids : Promise!Cancel(id)
  <1> DEFINE L == Len(t_heap)
             gone == t_heap[L].id
  <1>1. /\ Exact /\ Placed /\ L \in Nat /\ DOMAIN t_heap = 1..L
        /\ t_heap \in [1..L -> Node]
    BY Parts
  <1>2. Exact'
    BY PartsNext
  <1>3. /\ pc = "erase"
        /\ t_ref' = [id \in DOMAIN t_ref \ {gone} |-> t_ref[id]]
        /\ t_heap' = SubSeq(t_heap, 1, L - 1)
        /\ pc' \in {"tick", "loop"} /\ caller' = "none"
        /\ now' = now /\ waitMode' = waitMode
    BY DEF Erase, Restrict, Return, clock
  <1>4. L >= 1 /\ caller \in {"DelWork", "Pop"}
    <2>1. t_heap # <<>> /\ caller \in {"DelWork", "Pop"}
      BY <1>1, <1>3 DEF Placed, Erasing
    <2> QED
      BY <2>1, <1>1, EmptySeq DEF Exact
  <1>5. \A k \in 1..(L - 1) : t_heap'[k] = t_heap[k]
    <2>1. \A k \in 1..(L - 1) : t_heap[k] \in Node
      BY <1>1
    <2> QED
      BY <1>1, <1>3, <1>4, <2>1, SubSeqProperties DEF Exact
  <1>6. gone \in Ids
    BY <1>1, <1>4 DEF Node
  <1>7. DOMAIN t_ref' = DOMAIN t_ref \ {gone}
    BY <1>3
  <1>8. \A k \in DOMAIN t_ref' : Remaining(NodeOf(k))' = Remaining(NodeOf(k))
    <2> SUFFICES ASSUME NEW k \in DOMAIN t_ref' PROVE NodeOf(k)' = NodeOf(k)
      BY <1>3 DEF Remaining
    <2>1. t_ref'[k] = t_ref[k] /\ k # gone
      BY <1>3, <1>7
    <2>2. t_ref[k] \in 1..L /\ t_heap[t_ref[k]].id = k
      BY <1>1, <1>7 DEF Exact
    <2>3. t_ref[k] # L
      BY <2>1, <2>2
    <2> HIDE DEF L, gone
    <2>4. t_ref[k] \in 1..(L - 1)
      BY <2>2, <2>3, <1>1
    <2> QED
      BY <2>1, <2>4, <1>5 DEF NodeOf
  <1>9. Nodes' = Nodes \ {gone} /\ Due' = Due \ {gone}
    <2>1. Nodes = DOMAIN t_ref /\ Due = {k \in DOMAIN t_ref : Remaining(NodeOf(k)) <= 0}
      BY <1>1, Found
    <2>2. Nodes' = DOMAIN t_ref' /\ Due' = {k \in DOMAIN t_ref' : Remaining(NodeOf(k))' <= 0}
      BY <1>2, FoundNext
    <2> QED
      BY <2>1, <2>2, <1>7, <1>8
  <1>10. Firing' = {}
    BY <1>3 DEF Firing
  <1>11. CASE caller = "DelWork"
    <2>1. Firing = {}
      BY <1>3, <1>11 DEF Firing
    <2>2. Promise!Cancel(gone)
      BY <2>1, <1>3, <1>9, <1>10 DEF Promise!Cancel
    <2> QED
      BY <2>2, <1>6
  <1>12. CASE caller = "Pop"
    <2>1. Firing = {gone}
      BY <1>3, <1>12 DEF Firing
    <2>2. Promise!Pop
      BY <2>1, <1>3, <1>9, <1>10 DEF Promise!Pop
    <2> QED
      BY <2>2
  <1> QED
    BY <1>4, <1>11, <1>12

\* Tick runs a callback only for a node that has expired.
LEMMA FirePromised == IInv /\ Fire => \E id \in Ids : Promise!Fire(id)
  <1> SUFFICES ASSUME IInv, Fire PROVE \E id \in Ids : Promise!Fire(id)
    OBVIOUS
  <1>1. /\ Exact /\ Len(t_heap) \in Nat /\ DOMAIN t_heap = 1..Len(t_heap)
        /\ t_heap \in [1..Len(t_heap) -> Node]
    BY Parts
  <1>2. /\ t_heap # <<>> /\ Remaining(t_heap[1]) <= 0 /\ pc' = "callback" /\ caller' = "none"
        /\ t_heap' = t_heap /\ now' = now /\ waitMode' = waitMode
    BY DEF Fire, Return, heap, clock
  <1>3. 1 \in DOMAIN t_heap
    BY <1>1, <1>2, EmptySeq DEF Exact
  <1>4. t_heap[1].id \in Ids /\ t_heap[1].id \in Due
    BY <1>1, <1>2, <1>3 DEF Node, Due
  <1>5. Firing' = {t_heap[1].id}
    BY <1>2 DEF Firing
  <1>6. Nodes' = Nodes /\ Due' = Due
    BY <1>2 DEF Nodes, Due, Remaining
  <1> QED
    BY <1>2, <1>4, <1>5, <1>6 DEF Promise!Fire

\* What GetNextTick returns is right for every node, not only for the front.
LEMMA NextTickPromised ==
    IInv /\ backs = 0 /\ NextTick => \E mode \in {"forever", "timed", "zero"} : Promise!SleepMode(mode)
  <1> SUFFICES ASSUME IInv, backs = 0, NextTick
               PROVE  \E mode \in {"forever", "timed", "zero"} : Promise!SleepMode(mode)
    OBVIOUS
  <1>1. /\ Exact /\ Placed /\ Len(t_heap) \in Nat /\ DOMAIN t_heap = 1..Len(t_heap)
        /\ t_heap \in [1..Len(t_heap) -> Node] /\ now \in Nat
    BY Parts DEF Control
  <1>2. /\ pc = "timeout" /\ pc' = "loop" /\ caller' = "none"
        /\ waitMode' = IF t_heap = <<>> THEN "forever"
                       ELSE IF Remaining(t_heap[1]) > 0 THEN "timed"
                       ELSE IF Remaining(t_heap[1]) = 0 THEN "zero" ELSE "forever"
        /\ t_heap' = t_heap /\ now' = now
    BY DEF NextTick, Return, heap, clock
  <1>3. caller = "none"
    BY <1>1, <1>2 DEF Placed
  <1>4. Nodes' = Nodes /\ Due' = Due /\ Firing = {} /\ Firing' = {}
    BY <1>2, <1>3 DEF Nodes, Due, Remaining, Firing
  <1>5. waitMode' \in IF Nodes = {} THEN {"forever"}
                      ELSE IF Due = {} THEN {"timed"} ELSE {"zero", "forever"}
    <2>1. CASE t_heap = <<>>
      <3>1. Nodes = {}
        BY <2>1 DEF Nodes
      <3> QED
        BY <2>1, <3>1, <1>2
    <2>2. CASE t_heap # <<>>
      <3>1. 1 \in DOMAIN t_heap
        BY <2>2, <1>1, EmptySeq DEF Exact
      <3>2. t_heap[1].id \in Nodes /\ t_heap[1] \in Node
        BY <3>1, <1>1 DEF Nodes
      <3>3. Remaining(t_heap[1]) \in Int
        BY <3>2, <1>1, Expired
      <3>4. CASE Remaining(t_heap[1]) > 0
        <4>1. Due = {}
          BY <3>4, <1>2, <1>3, FrontSpeaksForAll
        <4> QED
          BY <2>2, <3>2, <3>4, <4>1, <1>2
      <3>5. CASE ~(Remaining(t_heap[1]) > 0)
        <4>1. Remaining(t_heap[1]) <= 0
          BY <3>3, <3>5
        <4>2. t_heap[1].id \in Due
          BY <4>1, <3>1 DEF Due
        <4>3. waitMode' \in {"zero", "forever"}
          BY <2>2, <3>5, <1>2
        <4> QED
          BY <3>2, <4>2, <4>3
      <3> QED
        BY <3>4, <3>5
    <2> QED
      BY <2>1, <2>2
  <1>6. waitMode' \in {"forever", "timed", "zero"}
    BY <1>2
  <1>7. Promise!SleepMode(waitMode')
    BY <1>4, <1>5 DEF Promise!SleepMode
  <1> QED
    BY <1>6, <1>7

\* Until the clock is set back every step is one that ExpirySet allows.
LEMMA PromiseStep == IInv /\ IInv' /\ [Next]_vars => [backs' = 0 => Promise!Next]_(Promise!vars)
  <1> SUFFICES ASSUME IInv, IInv', [Next]_vars, backs' = 0
               PROVE  Promise!Next \/ UNCHANGED Promise!vars
    OBVIOUS
  <1>1. Same => UNCHANGED Promise!vars
    BY DEF Same, Promise!vars
  <1>2. CASE Advance
    BY <1>2, AdvancePromised DEF Promise!Next
  <1>3. CASE SetBack
    <2>1. backs \in Nat
      BY Parts, TimerAssumption DEF Control
    <2> QED
      BY <2>1, <1>3 DEF SetBack
  <1>4. ASSUME NEW id \in Ids, AddNew(id) \/ AddAgain(id) \/ Adjust(id) PROVE Promise!Next
    BY <1>4, RenewPromised DEF Promise!Next
  <1>5. ASSUME NEW id \in Ids, DelWork(id) PROVE Same
    <2>1. pc = "loop" /\ Del("DelWork", t_ref[id]) /\ UNCHANGED <<clock, waitMode>>
      BY <1>5 DEF DelWork
    <2>2. t_ref[id] \in 1..Len(t_heap)
      BY <1>5, Parts DEF DelWork, HasNode, Exact
    <2>3. Firing = {}
      BY <2>1, Parts DEF Firing, Placed
    <2> QED
      BY <2>1, <2>2, <2>3, DelUnseen
  <1>6. CASE Pop
    <2>1. pc = "callback" /\ Del("Pop", 1) /\ UNCHANGED <<clock, waitMode>>
      BY <1>6 DEF Pop
    <2>2. 1 \in 1..Len(t_heap)
      <3>1. t_heap # <<>> /\ t_heap \in Seq(Node)
        BY <2>1, Parts DEF Placed, Exact
      <3> QED
        BY <3>1, EmptySeq, LenProperties
    <2>3. Firing = {t_heap[1].id}
      BY <2>1 DEF Firing
    <2> QED
      BY <2>1, <2>2, <2>3, <1>1, DelUnseen
  <1>7. CASE ShiftDown \/ ShiftUp
    BY <1>7, ShiftUnseen, <1>1
  <1>8. CASE ShiftedDown \/ ShiftedUp \/ GetNextTick \/ TickDone
    BY <1>8, QuietUnseen, <1>1
  <1>9. CASE Erase
    BY <1>9, ErasePromised DEF Promise!Next
  <1>10. CASE Fire
    BY <1>10, FirePromised DEF Promise!Next
  <1>11. CASE NextTick
    <2>1. backs = 0
      BY <1>11 DEF NextTick, clock
    <2> QED
      BY <2>1, <1>11, NextTickPromised DEF Promise!Next
  <1>12. CASE UNCHANGED vars
    <2>1. UNCHANGED <<heap, now, pc, caller, waitMode>>
      BY <1>12 DEF vars, clock, control
    <2> QED
      BY <2>1, <1>1, StillUnseen DEF Same, Firing, heap
  <1> QED
    BY <1>1, <1>2, <1>3, <1>4, <1>5, <1>6, <1>7, <1>8, <1>9, <1>10, <1>11, <1>12 DEF Next

-------------------------------------------------------------------------------
(* The theorems *)

\* Every id with a timeout finds its node in the heap and every node is found, in
\* every step of ShiftUp, ShiftDown and Del, however the clock is set: Adjust and
\* DelWork reach the right node through t_ref.
THEOREM ReferencesAreExact == Spec => []RefExact
  <1>1. IInv => RefExact
    BY DEF IInv
  <1> QED
    BY <1>1, InitHolds, StepHolds, PTL DEF Spec

\* Until the clock is set back, the heap is the set of timeouts that ExpirySet
\* describes, for any number of nodes: Tick runs callbacks of expired nodes only and
\* leaves none of them, only what was fired or cancelled is erased, and epoll_wait
\* is never sent to sleep for a later node while one has expired.
THEOREM HeapImplementsExpirySet == Spec => ImplementsExpirySet
  <1>1. Init => Promise!Init
    BY DEF Init, Promise!Init, Nodes, Due, Firing
  <1> QED
    BY <1>1, InitHolds, StepHolds, PromiseStep, PTL DEF Spec, ImplementsExpirySet
===============================================================================
