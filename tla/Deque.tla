------------------------------- MODULE Deque -------------------------------
(***************************************************************************)
(* VecDeque::retain as the queues of this crate use it: remove_from_queue  *)
(* and GhostQueue::remove in src/cache/s3fifo.rs, FifoQueue::retain in     *)
(* src/queue/fifo.rs, GhostQueue::remove in src/queue/ghost.rs.            *)
(***************************************************************************)
EXTENDS Integers, Sequences

(* The elements of s that are not in Gone, in their order.                 *)
Retain(s, Gone) ==
    LET kept[i \in 0 .. Len(s)] ==
            IF i = 0 THEN <<>>
            ELSE IF s[i] \in Gone THEN kept[i - 1] ELSE Append(kept[i - 1], s[i])
    IN  kept[Len(s)]
=============================================================================
