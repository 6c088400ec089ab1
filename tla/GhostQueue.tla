----------------------------- MODULE GhostQueue -----------------------------
(***************************************************************************)
(* The ghost queue of src/cache/s3fifo.rs: keys of recently evicted        *)
(* entries, as a set for look-ups and a FIFO queue for dropping the oldest.*)
(* A ghost queue is a record with both; each operation is a function of it.*)
(***************************************************************************)
EXTENDS Integers, Sequences, SequencesExt, Deque

NoGhosts == [keys |-> {}, queue |-> <<>>]

GhostContains(g, k) == k \in g.keys

(* Room is made before the push: with capacity 0 everything is dropped and *)
(* the queue then holds the one new key.                                   *)
Overfull(g, capacity) ==
    IF Len(g.queue) < capacity THEN 0
    ELSE IF capacity = 0 THEN Len(g.queue) ELSE Len(g.queue) - capacity + 1

GhostInsert(g, k, capacity) ==
    LET n == Overfull(g, capacity)
        dropped == {g.queue[i] : i \in 1 .. n}
    IN  IF GhostContains(g, k) THEN g
        ELSE [keys  |-> (g.keys \ dropped) \cup {k},
              queue |-> Append(SubSeq(g.queue, n + 1, Len(g.queue)), k)]

(* Mutant: the key is taken out of the set only. *)
GhostRemove_SetOnly(g, k) == [g EXCEPT !.keys = @ \ {k}]

GhostRemove(g, k) ==
    IF GhostContains(g, k)
    THEN [keys |-> g.keys \ {k}, queue |-> Retain(g.queue, {k})]
    ELSE g

(* The set and the queue hold the same keys, the queue each once, and no    *)
(* more than the capacity; with capacity 0, the one key inserted last.      *)
GhostSound(g, capacity) ==
    /\ g.keys = Range(g.queue)
    /\ IsInjective(g.queue)
    /\ Len(g.queue) <= IF capacity = 0 THEN 1 ELSE capacity
=============================================================================
