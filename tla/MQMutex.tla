------------------------------ MODULE MQMutex -------------------------------
(***************************************************************************)
(* The message queue of an object (src/Various/MQMutex.cc): a bounded FIFO *)
(* guarded by one mutex, so that each operation is atomic.  A queue is a   *)
(* record of its contents and of its counter of lost messages.             *)
(***************************************************************************)
EXTENDS Naturals, Sequences

CONSTANTS
    SizeOfMessageQueue,  \* bound of the queue
    lostStrategy         \* what to drop when the queue is full

ASSUME SizeAssumption == SizeOfMessageQueue \in Nat \ {0}
ASSUME StrategyAssumption == lostStrategy \in {"lostNewData", "lostOldData"}

EmptyQueue == [mqueue |-> <<>>, lost |-> 0]

Full(q) == Len(q.mqueue) + 1 > SizeOfMessageQueue

\* Mutant: the new message comes first.
Prepend1(q, m) == [q EXCEPT !.mqueue = <<m>> \o @]

Append1(q, m) == [q EXCEPT !.mqueue = Append(@, m)]

\* Mutants: the loss is not counted; it is counted down.
DropOldestSilently(q) == [q EXCEPT !.mqueue = Tail(@)]

DropOldestBackwards(q) == [mqueue |-> Tail(q.mqueue), lost |-> q.lost - 1]

\* The oldest message gives way to the new one.
DropOldest(q) == [mqueue |-> Tail(q.mqueue), lost |-> q.lost + 1]

\* The new message is not taken.
DropNewest(q) == [q EXCEPT !.lost = @ + 1]

push(q, m) ==
    CASE ~Full(q) -> Append1(q, m)
      [] Full(q) /\ lostStrategy = "lostNewData" -> DropNewest(q)
      [] Full(q) /\ lostStrategy = "lostOldData" -> Append1(DropOldest(q), m)

empty(q) == q.mqueue = <<>>

\* top() returns the first message and removes it.
front(q) == Head(q.mqueue)

popped(q) == [q EXCEPT !.mqueue = Tail(@)]
=============================================================================
