---------------------------- MODULE PublicGhost ----------------------------
(***************************************************************************)
(* The public GhostQueue of src/queue/ghost.rs, the twin of the private    *)
(* one of src/cache/s3fifo.rs: its operations answer whether they changed  *)
(* something, and it can be asked for its size.  insert drops the oldest   *)
(* keys in a loop of its own, one at a time.                               *)
(***************************************************************************)
EXTENDS GhostQueue, FiniteSets

new(capacity) == [ghosts |-> NoGhosts, capacity |-> capacity]
Default == new(1024)

contains(q, k) == k \in q.ghosts.keys

(* One turn of insert's loop, and the loop: it takes at most one turn for  *)
(* each key in the queue, and does nothing once there is room.             *)
DropOldest(g, capacity) ==
    IF Len(g.queue) >= capacity /\ g.queue # <<>>
    THEN [keys |-> g.keys \ {Head(g.queue)}, queue |-> Tail(g.queue)]
    ELSE g

MakeRoom(g, capacity) ==
    LET after[n \in 0 .. Len(g.queue)] ==
            IF n = 0 THEN g ELSE DropOldest(after[n - 1], capacity)
    IN  after[Len(g.queue)]

insert(q, k) ==
    IF contains(q, k)
    THEN [queue |-> q, answer |-> FALSE]
    ELSE LET g == MakeRoom(q.ghosts, q.capacity)
         IN  [queue |-> [q EXCEPT !.ghosts = [keys  |-> g.keys \cup {k},
                                              queue |-> Append(g.queue, k)]],
              answer |-> TRUE]

remove(q, k) ==
    IF contains(q, k)
    THEN [queue |-> [q EXCEPT !.ghosts = [keys  |-> q.ghosts.keys \ {k},
                                          queue |-> Retain(q.ghosts.queue, {k})]],
          answer |-> TRUE]
    ELSE [queue |-> q, answer |-> FALSE]

len(q) == Cardinality(q.ghosts.keys)
is_empty(q) == q.ghosts.keys = {}
is_full(q) == len(q) >= q.capacity
clear(q) == [q EXCEPT !.ghosts = NoGhosts]
iter(q) == q.ghosts.queue

-----------------------------------------------------------------------------
PublicQueues(S) == [ghosts : [keys : SUBSET S, queue : Seq(S)], capacity : Nat]
=============================================================================
