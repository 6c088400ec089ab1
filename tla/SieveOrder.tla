----------------------------- MODULE SieveOrder -----------------------------
(***************************************************************************)
(* SIEVE's queue as a value: a sequence of keys, oldest first, the set of  *)
(* those visited, and the key under the hand (none: the hand is at rest).  *)
(***************************************************************************)
EXTENDS Integers, Sequences, SequencesExt

CONSTANT NoKey

Position(order, k) == CHOOSE i \in DOMAIN order : order[i] = k

(* The order without k: what unlink_node_locked does to the list.          *)
Without(order, k) == RemoveAt(order, Position(order, k))

(* Mutant: the hand keeps pointing at a key that left. *)
HandWithout_Stays(order, h, k) == h

(* Mutant: the hand becomes a position where it was a key. *)
HandWithout_Position(order, h, k) == IF h # k THEN h ELSE Position(order, k)

(* A hand at h when k leaves: it steps toward the newest entry, and from   *)
(* the newest back to the oldest, if any is left.                          *)
HandWithout(order, h, k) ==
    IF h # k THEN h
    ELSE IF Len(order) = 1 THEN NoKey
    ELSE IF Position(order, k) = Len(order) THEN order[1]
    ELSE order[Position(order, k) + 1]

(* Mutants of Evicted: the oldest entry goes, whatever the hand says; those *)
(* passed over are queued again behind the newest, as in CLOCK.             *)
Evicted_Oldest(q) ==
    [order   |-> Tail(q.order),
     visited |-> q.visited \ {q.order[1]},
     hand    |-> HandWithout(q.order, q.hand, q.order[1])]

Evicted_Clock(q) ==
    LET start  == IF q.hand = NoKey THEN 1 ELSE Position(q.order, q.hand)
        stop   == CHOOSE i \in start .. Len(q.order) :
                    /\ q.order[i] \notin q.visited
                    /\ \A j \in start .. i - 1 : q.order[j] \in q.visited
        victim == q.order[stop]
    IN  [order   |-> SubSeq(q.order, 1, start - 1) \o SubSeq(q.order, stop + 1, Len(q.order))
                        \o SubSeq(q.order, start, stop - 1),
         visited |-> q.visited \ {q.order[j] : j \in start .. stop},
         hand    |-> HandWithout(q.order, victim, victim)]

(* One eviction: from the hand toward the newest entry, the first that was *)
(* not visited goes; those passed over lose their mark, no other does.     *)
(* The newest entry must be unvisited.                                     *)
Evicted(q) ==
    LET start  == IF q.hand = NoKey THEN 1 ELSE Position(q.order, q.hand)
        stop   == CHOOSE i \in start .. Len(q.order) :
                    /\ q.order[i] \notin q.visited
                    /\ \A j \in start .. i - 1 : q.order[j] \in q.visited
        victim == q.order[stop]
    IN  [order   |-> Without(q.order, victim),
         visited |-> q.visited \ {q.order[j] : j \in start .. stop},
         hand    |-> HandWithout(q.order, victim, victim)]
=============================================================================
