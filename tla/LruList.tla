------------------------------ MODULE LruList ------------------------------
(***************************************************************************)
(* The doubly-linked list of src/cache/lru.rs: head and tail, and for each *)
(* node the links prev (toward the most recently used) and next.  A list   *)
(* is a record; the operations are functions of it.                        *)
(***************************************************************************)
EXTENDS Integers

CONSTANTS Nodes, None

NoList ==
    [head |-> None, tail |-> None,
     prev |-> [n \in Nodes |-> None], next |-> [n \in Nodes |-> None]]

(* insert_at_head_locked. *)
AtHead(l, n) ==
    [head |-> n,
     tail |-> IF l.tail = None THEN n ELSE l.tail,
     prev |-> [m \in Nodes |-> IF m = l.head THEN n
                               ELSE IF m = n THEN None ELSE l.prev[m]],
     next |-> [l.next EXCEPT ![n] = l.head]]

(* unlink_node_locked. *)
Unlinked(l, n) ==
    [head |-> IF l.prev[n] = None THEN l.next[n] ELSE l.head,
     tail |-> IF l.next[n] = None THEN l.prev[n] ELSE l.tail,
     prev |-> [m \in Nodes |-> IF m = n THEN None
                               ELSE IF m = l.next[n] THEN l.prev[n] ELSE l.prev[m]],
     next |-> [m \in Nodes |-> IF m = n THEN None
                               ELSE IF m = l.prev[n] THEN l.next[n] ELSE l.next[m]]]

(* Mutants of ToHead: the node is not unlinked first; a hit moves nothing,   *)
(* as in a plain FIFO queue.                                                 *)
ToHead_StillLinked(l, n) == IF l.prev[n] = None THEN l ELSE AtHead(l, n)

ToHead_Fifo(l, n) == l

(* move_to_head_locked. *)
ToHead(l, n) == IF l.prev[n] = None THEN l ELSE AtHead(Unlinked(l, n), n)

(* The first `count' nodes from the tail, following prev.                    *)
FromTail(l, count) ==
    LET chain[i \in 1 .. count] ==
            IF i = 1 THEN l.tail
            ELSE IF chain[i - 1] = None THEN None ELSE l.prev[chain[i - 1]]
    IN  chain
=============================================================================
