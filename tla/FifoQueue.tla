----------------------------- MODULE FifoQueue -----------------------------
(***************************************************************************)
(* The public FifoQueue of src/queue/fifo.rs: a deque and a capacity, 0    *)
(* for no limit.  A queue is a record; an operation is a function of it,   *)
(* and one that also answers gives [queue, answer].  No cache uses it:     *)
(* S3FifoCache keeps plain deques and counts their entries itself.         *)
(***************************************************************************)
EXTENDS Deque

CONSTANT None       \* Option::None

new(capacity) == [inner |-> <<>>, capacity |-> capacity]
unbounded == new(0)

is_empty(q) == q.inner = <<>>
is_full(q) == q.capacity > 0 /\ Len(q.inner) >= q.capacity

push_back(q, v) ==
    IF is_full(q)
    THEN [queue |-> q, answer |-> FALSE]
    ELSE [queue |-> [q EXCEPT !.inner = Append(@, v)], answer |-> TRUE]

(* One element makes room, however many there are too many.                *)
push_back_evict(q, v) ==
    IF is_full(q)
    THEN [queue |-> [q EXCEPT !.inner = Append(Tail(@), v)], answer |-> Head(q.inner)]
    ELSE [queue |-> [q EXCEPT !.inner = Append(@, v)], answer |-> None]

pop_front(q) ==
    IF is_empty(q)
    THEN [queue |-> q, answer |-> None]
    ELSE [queue |-> [q EXCEPT !.inner = Tail(@)], answer |-> Head(q.inner)]

front(q) == IF is_empty(q) THEN None ELSE Head(q.inner)
back(q) == IF is_empty(q) THEN None ELSE q.inner[Len(q.inner)]

clear(q) == [q EXCEPT !.inner = <<>>]

(* The caller of inner_mut may leave any deque behind.                     *)
inner_mut(q, deque) == [q EXCEPT !.inner = deque]

retain(q, Gone) == [q EXCEPT !.inner = Retain(@, Gone)]

contains(q, v) == \E i \in 1 .. Len(q.inner) : q.inner[i] = v

(* The first element with the property, given by the set that has it.      *)
find(q, Wanted) ==
    LET found == {i \in 1 .. Len(q.inner) : q.inner[i] \in Wanted}
    IN  IF found = {} THEN None
        ELSE q.inner[CHOOSE i \in found : \A j \in found : i <= j]

(* Collecting: the length becomes the capacity.                            *)
from_iter(s) == [inner |-> s, capacity |-> Len(s)]

-----------------------------------------------------------------------------
Queues(S) == [inner : Seq(S), capacity : Nat]

(* The elements beyond the capacity; none is what the capacity is for.     *)
Excess(q) ==
    IF q.capacity = 0 \/ Len(q.inner) <= q.capacity THEN 0
    ELSE Len(q.inner) - q.capacity
=============================================================================
