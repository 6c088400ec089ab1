------------------------------- MODULE Sieve -------------------------------
(***************************************************************************)
(* The SIEVE cache of src/cache/sieve.rs, down to its list nodes.          *)
(*                                                                         *)
(* A HashMap maps each key to a heap node; the nodes form a doubly-linked  *)
(* list from head (newest) to tail (oldest), `prev' pointing toward the    *)
(* head; a hand sweeps from the tail toward the head to find the node to   *)
(* evict.  One Mutex guards all of it, so operations do not overlap; what  *)
(* other threads can see of an operation under way is the atomic `size',   *)
(* which len() reads without the lock, and the statistics.  An operation   *)
(* that moves `size' more than once is therefore several steps here, and   *)
(* `holder' says what the thread that has the lock has still to do.        *)
(*                                                                         *)
(* A node is an element of Nodes.  `live' is the set of allocated ones: a  *)
(* Box::new may return any node that is not live, a freed address at once  *)
(* included.  contains() and peek() change nothing and are not actions.    *)
(***************************************************************************)
EXTENDS Integers, FiniteSets

CONSTANTS Keys, Values, Nodes,
          None,         \* Option::None, for keys, values and pointers
          Capacity,     \* CacheConfig::capacity; 0 is legal in with_config
          UsizeMod,     \* 2^64 for the AtomicUsize `size'
          CounterMod    \* 2^64 for the AtomicU64 statistics

ASSUME NoneAssumption == None \notin Keys \cup Values \cup Nodes
ASSUME CapacityAssumption == Capacity \in Nat
ASSUME UsizeAssumption == UsizeMod \in Nat /\ Capacity + 1 < UsizeMod
ASSUME CounterAssumption == CounterMod \in Nat \ {0}
ASSUME NodesAssumption == IsFiniteSet(Nodes) /\ Cardinality(Nodes) > Capacity

VARIABLES index, head, tail, hand,              \* SieveState
          prev, next, nodeKey, nodeVal, visited, \* SieveNode, CacheEntry
          live,                                  \* the allocated nodes
          size, stats,                           \* atomics outside the lock
          holder                                 \* rest of the locked section

list == <<head, tail, prev, next>>
content == <<nodeKey, nodeVal>>
vars == <<index, hand, list, content, visited, live, size, stats, holder>>

Free == [op |-> "none"]
Evicting == [op |-> "evict"]
Updating(k, v) == [op |-> "update", key |-> k, value |-> v]

CounterNames == {"hits", "misses", "insertions", "evictions"}

TypeOK ==
    /\ index \in [Keys -> Nodes \cup {None}]
    /\ head \in Nodes \cup {None}
    /\ tail \in Nodes \cup {None}
    /\ hand \in Nodes \cup {None}
    /\ prev \in [Nodes -> Nodes \cup {None}]
    /\ next \in [Nodes -> Nodes \cup {None}]
    /\ nodeKey \in [Nodes -> Keys \cup {None}]
    /\ nodeVal \in [Nodes -> Values \cup {None}]
    /\ visited \in [Nodes -> BOOLEAN]
    /\ live \in SUBSET Nodes
    /\ size \in 0 .. UsizeMod - 1
    /\ stats \in [CounterNames -> 0 .. CounterMod - 1]
    /\ holder \in {Free, Evicting} \cup {Updating(k, v) : k \in Keys, v \in Values}

Init ==
    /\ index = [k \in Keys |-> None]
    /\ head = None /\ tail = None /\ hand = None
    /\ prev = [n \in Nodes |-> None]
    /\ next = [n \in Nodes |-> None]
    /\ nodeKey = [n \in Nodes |-> None]
    /\ nodeVal = [n \in Nodes |-> None]
    /\ visited = [n \in Nodes |-> FALSE]
    /\ live = {}
    /\ size = 0
    /\ stats = [c \in CounterNames |-> 0]
    /\ holder = Free

-----------------------------------------------------------------------------
(* Atomic counters wrap: fetch_add and fetch_sub never fail.               *)

Grow == size' = IF size = UsizeMod - 1 THEN 0 ELSE size + 1
Shrink == size' = IF size = 0 THEN UsizeMod - 1 ELSE size - 1

(* Mutant: the counter outgrows its width. *)
Count_Unbounded(c) == stats' = [stats EXCEPT ![c] = @ + 1]

Count(c) ==
    stats' = [stats EXCEPT ![c] = IF @ = CounterMod - 1 THEN 0 ELSE @ + 1]

(* Mutants of LinkAtHead: the old head is not told of its new predecessor;  *)
(* the new entry counts as visited.                                         *)
LinkAtHead_OneWay(n, k, v) ==
    /\ n \notin live
    /\ live' = live \cup {n}
    /\ nodeKey' = [nodeKey EXCEPT ![n] = k]
    /\ nodeVal' = [nodeVal EXCEPT ![n] = v]
    /\ visited' = [visited EXCEPT ![n] = FALSE]
    /\ index' = [index EXCEPT ![k] = n]
    /\ next' = [next EXCEPT ![n] = head]
    /\ prev' = [prev EXCEPT ![n] = None]
    /\ head' = n
    /\ tail' = IF tail = None THEN n ELSE tail

LinkAtHead_Visited(n, k, v) ==
    /\ n \notin live
    /\ live' = live \cup {n}
    /\ nodeKey' = [nodeKey EXCEPT ![n] = k]
    /\ nodeVal' = [nodeVal EXCEPT ![n] = v]
    /\ visited' = [visited EXCEPT ![n] = TRUE]
    /\ index' = [index EXCEPT ![k] = n]
    /\ next' = [next EXCEPT ![n] = head]
    /\ prev' = [m \in Nodes |-> IF m = head THEN n
                                ELSE IF m = n THEN None ELSE prev[m]]
    /\ head' = n
    /\ tail' = IF tail = None THEN n ELSE tail

(* Box::new(SieveNode::new(k, v)) at address n, and insert_at_head_locked.  *)
LinkAtHead(n, k, v) ==
    /\ n \notin live
    /\ live' = live \cup {n}
    /\ nodeKey' = [nodeKey EXCEPT ![n] = k]
    /\ nodeVal' = [nodeVal EXCEPT ![n] = v]
    /\ visited' = [visited EXCEPT ![n] = FALSE]
    /\ index' = [index EXCEPT ![k] = n]
    /\ next' = [next EXCEPT ![n] = head]
    /\ prev' = [m \in Nodes |-> IF m = head THEN n
                                ELSE IF m = n THEN None ELSE prev[m]]
    /\ head' = n
    /\ tail' = IF tail = None THEN n ELSE tail

(* Mutant: the hand is left on the node that goes away. *)
HandAfterUnlink_Stays(n, h) == h

(* Where unlink_node_locked leaves a hand that was at h.                    *)
HandAfterUnlink(n, h) ==
    LET moved == IF prev[n] # None THEN prev[n] ELSE tail
    IN  IF h # n THEN h ELSE IF moved = n THEN None ELSE moved

(* index.remove, unlink_node_locked with the hand at h, Box::from_raw.  The *)
(* fields of a freed node are reset so that states do not differ in them.   *)
UnlinkAndFree(n, h) ==
    /\ index' = [index EXCEPT ![nodeKey[n]] = None]
    /\ hand' = HandAfterUnlink(n, h)
    /\ head' = IF prev[n] = None THEN next[n] ELSE head
    /\ tail' = IF next[n] = None THEN prev[n] ELSE tail
    /\ next' = [m \in Nodes |-> IF m = n THEN None
                                ELSE IF m = prev[n] THEN next[n] ELSE next[m]]
    /\ prev' = [m \in Nodes |-> IF m = n THEN None
                                ELSE IF m = next[n] THEN prev[n] ELSE prev[m]]
    /\ nodeKey' = [nodeKey EXCEPT ![n] = None]
    /\ nodeVal' = [nodeVal EXCEPT ![n] = None]
    /\ visited' = [visited EXCEPT ![n] = FALSE]
    /\ live' = live \ {n}

-----------------------------------------------------------------------------
(* Mutant: the hit leaves no mark. *)
GetHit_Unmarked(k) ==
    /\ holder = Free
    /\ index[k] # None
    /\ Count("hits")
    /\ UNCHANGED <<index, hand, list, content, visited, live, size, holder>>

(* get: a hit only sets the node's visited flag.                            *)
GetHit(k) ==
    /\ holder = Free
    /\ index[k] # None
    /\ visited' = [visited EXCEPT ![index[k]] = TRUE]
    /\ Count("hits")
    /\ UNCHANGED <<index, hand, list, content, live, size, holder>>

GetMiss(k) ==
    /\ holder = Free
    /\ index[k] = None
    /\ Count("misses")
    /\ UNCHANGED <<index, hand, list, content, visited, live, size, holder>>

(* insert of a key that is not there: link, count, then the eviction loop.  *)
InsertNew(k, v) ==
    /\ holder = Free
    /\ index[k] = None
    /\ \E n \in Nodes : LinkAtHead(n, k, v)
    /\ Grow
    /\ Count("insertions")
    /\ holder' = Evicting
    /\ UNCHANGED hand

(* insert of a key that is there: the node is freed and len() dips ...      *)
UpdateUnlink(k, v) ==
    /\ holder = Free
    /\ index[k] # None
    /\ UnlinkAndFree(index[k], hand)
    /\ Shrink
    /\ holder' = Updating(k, v)
    /\ UNCHANGED stats

(* Mutants: the update counts as an insertion; size is not restored. *)
UpdateRelink_Counts ==
    /\ holder.op = "update"
    /\ \E n \in Nodes : LinkAtHead(n, holder.key, holder.value)
    /\ Grow
    /\ Count("insertions")
    /\ holder' = Free
    /\ UNCHANGED hand

UpdateRelink_NoGrow ==
    /\ holder.op = "update"
    /\ \E n \in Nodes : LinkAtHead(n, holder.key, holder.value)
    /\ holder' = Free
    /\ UNCHANGED <<hand, size, stats>>

(* ... until a new, unvisited node is at the head; no insertion is counted. *)
UpdateRelink ==
    /\ holder.op = "update"
    /\ \E n \in Nodes : LinkAtHead(n, holder.key, holder.value)
    /\ Grow
    /\ holder' = Free
    /\ UNCHANGED <<hand, stats>>

(* One turn of the `while size > capacity' loop runs evict_one_locked: its  *)
(* loop looks at the node under the hand, or at the tail when there is none.*)
UnderHand == IF hand = None THEN tail ELSE hand

MustEvict == holder = Evicting /\ size > Capacity

(* Mutant: a visited entry stops the hand and keeps its mark. *)
SweepVisited_Stalls ==
    /\ MustEvict
    /\ UnderHand # None
    /\ visited[UnderHand]
    /\ hand' = UnderHand
    /\ UNCHANGED <<index, list, content, visited, live, size, stats, holder>>

SweepVisited ==
    /\ MustEvict
    /\ UnderHand # None
    /\ visited[UnderHand]
    /\ visited' = [visited EXCEPT ![UnderHand] = FALSE]
    /\ hand' = IF prev[UnderHand] # None THEN prev[UnderHand] ELSE tail
    /\ UNCHANGED <<index, list, content, live, size, stats, holder>>

(* Mutant: the hand falls back toward the tail. *)
HandPast_Back(n) == IF next[n] # None THEN next[n] ELSE IF tail = n THEN None ELSE tail

(* evict_one_locked moves the hand past the victim before it unlinks it.    *)
HandPast(n) == IF prev[n] # None THEN prev[n] ELSE IF tail = n THEN None ELSE tail

EvictUnvisited ==
    /\ MustEvict
    /\ UnderHand # None
    /\ ~visited[UnderHand]
    /\ UnlinkAndFree(UnderHand, HandPast(UnderHand))
    /\ Shrink
    /\ Count("evictions")
    /\ UNCHANGED holder

(* insert returns and the lock is released.                                 *)
InsertReturn ==
    /\ holder = Evicting
    /\ size <= Capacity
    /\ holder' = Free
    /\ UNCHANGED <<index, hand, list, content, visited, live, size, stats>>

(* remove of a key that is there; of one that is not, it changes nothing.   *)
RemoveKey(k) ==
    /\ holder = Free
    /\ index[k] # None
    /\ UnlinkAndFree(index[k], hand)
    /\ Shrink
    /\ UNCHANGED <<stats, holder>>

(* Mutant: clear forgets the nodes without freeing them. *)
Clear_Leaks ==
    /\ holder = Free
    /\ index' = [k \in Keys |-> None]
    /\ head' = None /\ tail' = None /\ hand' = None
    /\ size' = 0
    /\ UNCHANGED <<content, prev, next, visited, live, stats, holder>>

(* clear frees every node the index names and keeps the statistics.         *)
Clear ==
    /\ holder = Free
    /\ LET kept == live \ {index[k] : k \in Keys}
           Reset(f, x) == [n \in Nodes |-> IF n \in kept THEN f[n] ELSE x]
       IN  /\ live' = kept
           /\ prev' = Reset(prev, None) /\ next' = Reset(next, None)
           /\ nodeKey' = Reset(nodeKey, None) /\ nodeVal' = Reset(nodeVal, None)
           /\ visited' = Reset(visited, FALSE)
    /\ index' = [k \in Keys |-> None]
    /\ head' = None /\ tail' = None /\ hand' = None
    /\ size' = 0
    /\ UNCHANGED <<stats, holder>>

(* The steps left to the thread that holds the lock.                        *)
HolderStep == UpdateRelink \/ SweepVisited \/ EvictUnvisited \/ InsertReturn

Next ==
    \/ \E k \in Keys : GetHit(k) \/ GetMiss(k) \/ RemoveKey(k)
    \/ \E k \in Keys, v \in Values : InsertNew(k, v) \/ UpdateUnlink(k, v)
    \/ Clear
    \/ HolderStep

(* A thread that holds the mutex keeps running; nobody has to call anything. *)
Spec == Init /\ [][Next]_vars /\ WF_vars(HolderStep)

-----------------------------------------------------------------------------
(* Properties.                                                              *)

(* Every pointer that a later operation would follow leads to an allocated  *)
(* node: the index, head, tail and hand, and the links of allocated nodes.  *)
(* Nothing dangles after a Box::from_raw (the module's `Safety' comment).   *)
NoDangling ==
    /\ \A k \in Keys : index[k] \in live \cup {None}
    /\ head \in live \cup {None}
    /\ tail \in live \cup {None}
    /\ hand \in live \cup {None}
    /\ \A n \in live : prev[n] \in live \cup {None} /\ next[n] \in live \cup {None}

(* The index and the allocated nodes are in bijection: no node leaks, none  *)
(* is freed twice by the drain in clear and drop, no key has two nodes.     *)
IndexOwnsNodes ==
    /\ \A n \in live : nodeKey[n] \in Keys /\ index[nodeKey[n]] = n
    /\ \A k \in Keys : index[k] # None => nodeKey[index[k]] = k

(* The two directions of the list agree, and its ends are head and tail.    *)
LinksAgree ==
    /\ (head = None) <=> (tail = None)
    /\ \A n \in live :
        /\ (prev[n] = None) <=> (n = head)
        /\ (next[n] = None) <=> (n = tail)
        /\ prev[n] # None => next[prev[n]] = n
        /\ next[n] # None => prev[next[n]] = n

(* What len() can read at any moment, between the lock holder's steps too:  *)
(* the number of allocated nodes, at most one above the capacity while an   *)
(* insertion evicts, never above it when the lock is free, never wrapped.   *)
SizeBound ==
    /\ size = Cardinality(live)
    /\ size <= Capacity + 1
    /\ holder # Evicting => size <= Capacity
    /\ holder.op = "update" => size < Capacity

(* An eviction always finds its victim: the entry at the head is the one    *)
(* just inserted, nobody can have visited it, and so the sweep stops there  *)
(* at the latest; `None => return' with the cache over capacity, after      *)
(* which insert's loop would spin for ever, is never reached.               *)
SweepStopsAtHead == MustEvict => head # None /\ ~visited[head]

(* The insertion and eviction counters follow the cache's contents: a step  *)
(* other than a removal or a clear keeps insertions - evictions - entries,  *)
(* an update under way counting as the entry it replaces.                   *)
Entries == Cardinality(live) + (IF holder.op = "update" THEN 1 ELSE 0)
Turnover == (stats.insertions - stats.evictions - Entries) % CounterMod
StatsFollowContents ==
    [][(\E k \in Keys : RemoveKey(k)) \/ Clear \/ Turnover' = Turnover]_vars

(* The lock is always released: the sweep and the eviction loop end.        *)
LockReleased == (holder # Free) ~> (holder = Free)
=============================================================================
