--------------------------------- MODULE Timer ---------------------------------
(***************************************************************************)
(* The timer: code/timer/timer.h and timer.cpp.                            *)
(*                                                                         *)
(* A binary heap of nodes ordered by the time they expire, and a map from  *)
(* each id to the place of its node.  Only the thread that runs Start      *)
(* calls it; the clock moves between any two of its steps.  A step is the  *)
(* beginning of an operation, one turn of the loop in ShiftDown or         *)
(* ShiftUp, or the end of Del: pc leaves an operation only where the code  *)
(* returns from it.  Places are counted from 1 (the code counts from 0).   *)
(* Time is counted in ticks of which PerMs make a millisecond.             *)
(***************************************************************************)
EXTENDS Integers, Sequences, Functions

CONSTANTS
    Ids,
    PerMs,      \* clock ticks in a millisecond
    Timeout,    \* w_timeoutMs
    MaxNow,     \* bound: the last tick
    MaxBack     \* bound: how often the system clock is set back

ASSUME TimerAssumption ==
    /\ PerMs \in Nat \ {0}
    /\ Timeout \in Nat \ {0}
    /\ MaxNow \in Nat
    /\ MaxBack \in Nat

VARIABLES
    t_heap,     \* sequence of nodes
    t_ref,      \* the place of each id that has a node
    now,        \* Clock::now()
    backs,      \* how often the clock has been set back (history)
    pc,         \* "loop", "down", "up", "erase", "tick", "callback", "timeout"
    caller,     \* the operation that is under way, or "none"
    index,      \* where ShiftDown has begun
    at,         \* i, the node that ShiftDown and ShiftUp move
    waitMode    \* what GetNextTick has returned, as epoll_wait takes it

heap == <<t_heap, t_ref>>
clock == <<now, backs>>
control == <<pc, caller, index, at>>
vars == <<heap, clock, control, waitMode>>

Erasing == caller \in {"DelWork", "Pop"}

TypeOK ==
    /\ t_heap \in Seq([id : Ids, expires : Nat])
    /\ DOMAIN t_ref \subseteq Ids
    /\ \A id \in DOMAIN t_ref : t_ref[id] \in DOMAIN t_heap
    /\ now \in 0..MaxNow
    /\ backs \in 0..MaxBack
    /\ pc \in {"loop", "down", "up", "erase", "tick", "callback", "timeout"}
    /\ caller \in {"none", "Add", "Adjust", "DelWork", "Pop"}
    /\ index \in Nat /\ at \in Nat
    /\ pc \in {"down", "up"} => at \in DOMAIN t_heap
    /\ pc = "down" => index \in 1..at
    /\ waitMode \in {"forever", "timed", "zero"}

Init ==
    /\ t_heap = <<>>
    /\ t_ref = <<>>
    /\ now = 0
    /\ backs = 0
    /\ pc = "loop"
    /\ caller = "none"
    /\ index = 0 /\ at = 0
    /\ waitMode = "forever"

-------------------------------------------------------------------------------
(* Shifting *)

Earlier(m, n) == m.expires < n.expires

\* Mutant: only one of the two references follows its node.
SwapHalf(i, j) ==
    /\ t_heap' = [t_heap EXCEPT ![i] = t_heap[j], ![j] = t_heap[i]]
    /\ t_ref' = [t_ref EXCEPT ![t_heap[j].id] = i]

SwapNode(i, j) ==
    /\ t_heap' = [t_heap EXCEPT ![i] = t_heap[j], ![j] = t_heap[i]]
    /\ t_ref' = [t_ref EXCEPT ![t_heap[j].id] = i, ![t_heap[i].id] = j]

\* An operation begins to shift the node at place i, or to erase.
Begin(op, what, i) ==
    /\ caller' = op
    /\ pc' = what
    /\ index' = i /\ at' = i

\* An operation returns, or GetNextTick goes on; the next step is at p.
Return(p) ==
    /\ caller' = "none"
    /\ pc' = p
    /\ index' = 0 /\ at' = 0

\* Nothing is left to shift: Del goes on, the others return.
Shifted ==
    IF Erasing THEN pc' = "erase" /\ UNCHANGED <<caller, index, at>> ELSE Return("loop")

\* n: the node that Del has put last takes no part.
Size == IF Erasing THEN Len(t_heap) - 1 ELSE Len(t_heap)

\* The child that ShiftDown compares with.
Child ==
    LET j == 2 * at
    IN  IF j + 1 <= Size /\ Earlier(t_heap[j + 1], t_heap[j]) THEN j + 1 ELSE j

Sinks == Child <= Size /\ ~Earlier(t_heap[at], t_heap[Child])

ShiftDown ==
    /\ pc = "down" /\ Sinks
    /\ SwapNode(at, Child)
    /\ at' = Child
    /\ UNCHANGED <<clock, pc, caller, index, waitMode>>

\* The end of if (!ShiftDown(i, n)) ShiftUp(i), or of Adjust.
ShiftedDown ==
    /\ pc = "down" /\ ~Sinks
    /\ IF at > index \/ caller = "Adjust" THEN Shifted
         ELSE pc' = "up" /\ UNCHANGED <<caller, index, at>>
    /\ UNCHANGED <<heap, clock, waitMode>>

Rises == at > 1 /\ Earlier(t_heap[at], t_heap[at \div 2])

ShiftUp ==
    /\ pc = "up" /\ Rises
    /\ SwapNode(at, at \div 2)
    /\ at' = at \div 2
    /\ UNCHANGED <<clock, pc, caller, index, waitMode>>

ShiftedUp ==
    /\ pc = "up" /\ ~Rises
    /\ Shifted
    /\ UNCHANGED <<heap, clock, waitMode>>

-------------------------------------------------------------------------------
(* The clock *)

Advance ==
    /\ now < MaxNow
    /\ now' = now + 1
    /\ UNCHANGED <<heap, backs, control, waitMode>>

\* high_resolution_clock is the system clock here, which can be set back.
SetBack ==
    /\ backs < MaxBack
    /\ \E earlier \in 0..(now - 1) : now' = earlier
    /\ backs' = backs + 1
    /\ UNCHANGED <<heap, control, waitMode>>

-------------------------------------------------------------------------------
(* The operations *)

HasNode(id) == id \in DOMAIN t_ref

Expiry == now + Timeout * PerMs

AddNew(id) ==
    /\ pc = "loop"
    /\ ~HasNode(id)
    /\ t_heap' = Append(t_heap, [id |-> id, expires |-> Expiry])
    /\ t_ref' = [k \in DOMAIN t_ref \cup {id} |-> IF k = id THEN Len(t_heap) + 1 ELSE t_ref[k]]
    /\ Begin("Add", "up", Len(t_heap) + 1)
    /\ UNCHANGED <<clock, waitMode>>

\* The node of id, already there, gets a new expiry.
Renew(id) ==
    /\ HasNode(id)
    /\ t_heap' = [t_heap EXCEPT ![t_ref[id]].expires = Expiry]
    /\ UNCHANGED t_ref

AddAgain(id) ==
    /\ pc = "loop"
    /\ Renew(id)
    /\ Begin("Add", "down", t_ref[id])
    /\ UNCHANGED <<clock, waitMode>>

\* Mutant: the node stays where it is.
AdjustInPlace(id) ==
    /\ pc = "loop"
    /\ Renew(id)
    /\ UNCHANGED <<clock, control, waitMode>>

\* Adjust only moves a node down: a new expiry is taken to be a later one.
Adjust(id) ==
    /\ pc = "loop"
    /\ Renew(id)
    /\ Begin("Adjust", "down", t_ref[id])
    /\ UNCHANGED <<clock, waitMode>>

\* Del: the node changes places with the last one, which then finds its own.
Del(op, i) ==
    IF i < Len(t_heap)
      THEN SwapNode(i, Len(t_heap)) /\ Begin(op, "down", i)
      ELSE Begin(op, "erase", i) /\ UNCHANGED heap

DelWork(id) ==
    /\ pc = "loop"
    /\ HasNode(id)
    /\ Del("DelWork", t_ref[id])
    /\ UNCHANGED <<clock, waitMode>>

\* The end of Del.
Erase ==
    /\ pc = "erase"
    /\ t_ref' = Restrict(t_ref, DOMAIN t_ref \ {t_heap[Len(t_heap)].id})
    /\ t_heap' = SubSeq(t_heap, 1, Len(t_heap) - 1)
    /\ Return(IF caller = "Pop" THEN "tick" ELSE "loop")
    /\ UNCHANGED <<clock, waitMode>>

\* duration_cast<MS>(node.expires - Clock::now()).count(): towards zero.
Remaining(node) ==
    IF node.expires >= now
      THEN (node.expires - now) \div PerMs
      ELSE -((now - node.expires) \div PerMs)

GetNextTick ==
    /\ pc = "loop"
    /\ Return("tick")
    /\ UNCHANGED <<heap, clock, waitMode>>

\* Tick: the front has expired and its callback runs.
Fire ==
    /\ pc = "tick"
    /\ t_heap # <<>>
    /\ Remaining(t_heap[1]) <= 0
    /\ Return("callback")
    /\ UNCHANGED <<heap, clock, waitMode>>

Pop ==
    /\ pc = "callback"
    /\ Del("Pop", 1)
    /\ UNCHANGED <<clock, waitMode>>

TickDone ==
    /\ pc = "tick"
    /\ t_heap # <<>> => Remaining(t_heap[1]) > 0
    /\ Return("timeout")
    /\ UNCHANGED <<heap, clock, waitMode>>

\* The result of GetNextTick.  res is a size_t, so that the test of a negative
\* res does nothing, and the int that is returned is negative again.
NextTick ==
    /\ pc = "timeout"
    /\ waitMode' = IF t_heap = <<>> THEN "forever"
                   ELSE IF Remaining(t_heap[1]) > 0 THEN "timed"
                   ELSE IF Remaining(t_heap[1]) = 0 THEN "zero" ELSE "forever"
    /\ Return("loop")
    /\ UNCHANGED <<heap, clock>>

Next ==
    \/ Advance \/ SetBack
    \/ \E id \in Ids : AddNew(id) \/ AddAgain(id) \/ Adjust(id) \/ DelWork(id)
    \/ ShiftDown \/ ShiftedDown \/ ShiftUp \/ ShiftedUp \/ Erase
    \/ GetNextTick \/ Fire \/ Pop \/ TickDone \/ NextTick

Spec == Init /\ [][Next]_vars

-------------------------------------------------------------------------------
(* Properties *)

\* t_ref is the inverse of the heap, after every sequence of swaps: SwapNode,
\* which updates both entries, and Del, which erases the last one, never leave a
\* reference to the wrong node, even after the clock has been set back.
RefExact ==
    /\ TypeOK
    /\ \A id \in DOMAIN t_ref : t_heap[t_ref[id]].id = id
    /\ \A i \in DOMAIN t_heap : HasNode(t_heap[i].id) /\ t_ref[t_heap[i].id] = i

\* Seen from Start the heap is a set of ids with a timeout, and Tick stops only
\* when no node of the whole heap has expired: until the clock is set back, each
\* step is one that module ExpirySet allows.
Nodes == {t_heap[i].id : i \in DOMAIN t_heap}
Due == {t_heap[i].id : i \in {k \in DOMAIN t_heap : Remaining(t_heap[k]) <= 0}}
Firing ==
    IF pc = "callback" THEN {t_heap[1].id}
    ELSE IF caller = "Pop" THEN {t_heap[Len(t_heap)].id} ELSE {}

Promise == INSTANCE ExpirySet WITH nodes <- Nodes, due <- Due, firing <- Firing

ImplementsExpirySet ==
    /\ Promise!Init
    /\ [][backs' = 0 => Promise!Next]_(Promise!vars)
===============================================================================
