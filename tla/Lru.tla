-------------------------------- MODULE Lru --------------------------------
(***************************************************************************)
(* The LRU cache of src/cache/lru.rs.  As in SieveCache one Mutex guards    *)
(* the index and the list, `size' is an atomic that len() reads without    *)
(* the lock, and an operation that moves `size' more than once is several  *)
(* steps; `holder' says what the thread that has the lock has still to do. *)
(* A hit, unlike SIEVE's, moves its node.                                  *)
(***************************************************************************)
EXTENDS LruList, Sequences, FiniteSets

CONSTANTS Keys, Values,
          Capacity,     \* 0 is legal in with_config
          UsizeMod,     \* 2^64 for the AtomicUsize `size'
          CounterMod    \* 2^64 for the AtomicU64 statistics

ASSUME NoneAssumption == None \notin Keys \cup Values \cup Nodes
ASSUME CapacityAssumption == Capacity \in Nat
ASSUME UsizeAssumption == UsizeMod \in Nat /\ Capacity + 1 < UsizeMod
ASSUME CounterAssumption == CounterMod \in Nat \ {0}
ASSUME NodesAssumption == IsFiniteSet(Nodes) /\ Cardinality(Nodes) > Capacity

VARIABLES index, list,          \* LruState
          nodeKey, nodeVal,     \* LruNode
          live,                 \* the allocated nodes
          size, stats,          \* atomics outside the lock
          holder                \* rest of the locked section

vars == <<index, list, nodeKey, nodeVal, live, size, stats, holder>>

Free == [op |-> "none"]
Evicting == [op |-> "evict"]
Updating(k, v) == [op |-> "update", key |-> k, value |-> v]

CounterNames == {"hits", "misses", "insertions", "evictions"}

TypeOK ==
    /\ index \in [Keys -> Nodes \cup {None}]
    /\ list \in [head : Nodes \cup {None}, tail : Nodes \cup {None},
                 prev : [Nodes -> Nodes \cup {None}],
                 next : [Nodes -> Nodes \cup {None}]]
    /\ nodeKey \in [Nodes -> Keys \cup {None}]
    /\ nodeVal \in [Nodes -> Values \cup {None}]
    /\ live \in SUBSET Nodes
    /\ size \in 0 .. UsizeMod - 1
    /\ stats \in [CounterNames -> 0 .. CounterMod - 1]
    /\ holder \in {Free, Evicting} \cup {Updating(k, v) : k \in Keys, v \in Values}

Init ==
    /\ index = [k \in Keys |-> None]
    /\ list = NoList
    /\ nodeKey = [n \in Nodes |-> None]
    /\ nodeVal = [n \in Nodes |-> None]
    /\ live = {}
    /\ size = 0
    /\ stats = [c \in CounterNames |-> 0]
    /\ holder = Free

-----------------------------------------------------------------------------
Grow == size' = IF size = UsizeMod - 1 THEN 0 ELSE size + 1
Shrink == size' = IF size = 0 THEN UsizeMod - 1 ELSE size - 1

(* Mutant: the counter outgrows its width. *)
Count_Unbounded(c) == stats' = [stats EXCEPT ![c] = @ + 1]

Count(c) ==
    stats' = [stats EXCEPT ![c] = IF @ = CounterMod - 1 THEN 0 ELSE @ + 1]

(* Box::new(LruNode::new(k, v)) at any free address, index and list.         *)
Enter(k, v) ==
    \E n \in Nodes \ live :
        /\ live' = live \cup {n}
        /\ nodeKey' = [nodeKey EXCEPT ![n] = k]
        /\ nodeVal' = [nodeVal EXCEPT ![n] = v]
        /\ index' = [index EXCEPT ![k] = n]
        /\ list' = AtHead(list, n)

(* index.remove, unlink_node_locked and Box::from_raw.                       *)
Leave(n) ==
    /\ index' = [index EXCEPT ![nodeKey[n]] = None]
    /\ list' = Unlinked(list, n)
    /\ nodeKey' = [nodeKey EXCEPT ![n] = None]
    /\ nodeVal' = [nodeVal EXCEPT ![n] = None]
    /\ live' = live \ {n}

-----------------------------------------------------------------------------
(* get: a hit makes the node the head.  Hits and misses are counted after    *)
(* the lock is released; nothing but the counters can tell.                  *)
GetHit(k) ==
    /\ holder = Free
    /\ index[k] # None
    /\ list' = ToHead(list, index[k])
    /\ Count("hits")
    /\ UNCHANGED <<index, nodeKey, nodeVal, live, size, holder>>

GetMiss(k) ==
    /\ holder = Free
    /\ index[k] = None
    /\ Count("misses")
    /\ UNCHANGED <<index, list, nodeKey, nodeVal, live, size, holder>>

(* insert of a key that is not there: link, count, then the eviction loop.   *)
InsertNew(k, v) ==
    /\ holder = Free
    /\ index[k] = None
    /\ Enter(k, v)
    /\ Grow
    /\ Count("insertions")
    /\ holder' = Evicting

(* insert of a key that is there: the node is freed and len() dips ...       *)
UpdateUnlink(k, v) ==
    /\ holder = Free
    /\ index[k] # None
    /\ Leave(index[k])
    /\ Shrink
    /\ holder' = Updating(k, v)
    /\ UNCHANGED stats

(* ... until a new node is at the head; this counts as an insertion.         *)
UpdateRelink ==
    /\ holder.op = "update"
    /\ Enter(holder.key, holder.value)
    /\ Grow
    /\ Count("insertions")
    /\ holder' = Free

MustEvict == holder = Evicting /\ size > Capacity

(* Mutant: the node leaves and the size stays. *)
EvictTail_NotCounted ==
    /\ MustEvict
    /\ list.tail # None
    /\ Leave(list.tail)
    /\ Count("evictions")
    /\ UNCHANGED <<size, holder>>

(* Mutant: the most recently used entry goes. *)
EvictTail_Head ==
    /\ MustEvict
    /\ list.head # None
    /\ Leave(list.head)
    /\ Shrink
    /\ Count("evictions")
    /\ UNCHANGED holder

(* One turn of the `while size > capacity' loop, evict_tail_locked; with an  *)
(* empty list the turn would change nothing and the loop go on for ever.     *)
EvictTail ==
    /\ MustEvict
    /\ list.tail # None
    /\ Leave(list.tail)
    /\ Shrink
    /\ Count("evictions")
    /\ UNCHANGED holder

InsertReturn ==
    /\ holder = Evicting
    /\ size <= Capacity
    /\ holder' = Free
    /\ UNCHANGED <<index, list, nodeKey, nodeVal, live, size, stats>>

(* remove of a key that is there; of one that is not, it changes nothing.    *)
RemoveKey(k) ==
    /\ holder = Free
    /\ index[k] # None
    /\ Leave(index[k])
    /\ Shrink
    /\ UNCHANGED <<stats, holder>>

(* Mutant: clear forgets the nodes without freeing them. *)
Clear_Leaks ==
    /\ holder = Free
    /\ index' = [k \in Keys |-> None]
    /\ list' = NoList
    /\ size' = 0
    /\ UNCHANGED <<nodeKey, nodeVal, live, stats, holder>>

(* clear frees every node the index names and keeps the statistics.          *)
Clear ==
    /\ holder = Free
    /\ LET kept == live \ {index[k] : k \in Keys}
           Reset(f) == [n \in Nodes |-> IF n \in kept THEN f[n] ELSE None]
       IN  /\ live' = kept
           /\ list' = [head |-> None, tail |-> None,
                       prev |-> Reset(list.prev), next |-> Reset(list.next)]
           /\ nodeKey' = Reset(nodeKey) /\ nodeVal' = Reset(nodeVal)
    /\ index' = [k \in Keys |-> None]
    /\ size' = 0
    /\ UNCHANGED <<stats, holder>>

(* The steps left to the thread that holds the lock.                         *)
HolderStep == UpdateRelink \/ EvictTail \/ InsertReturn

Next ==
    \/ \E k \in Keys : GetHit(k) \/ GetMiss(k) \/ RemoveKey(k)
    \/ \E k \in Keys, v \in Values : InsertNew(k, v) \/ UpdateUnlink(k, v)
    \/ Clear
    \/ HolderStep

Spec == Init /\ [][Next]_vars

-----------------------------------------------------------------------------
(* Properties.                                                               *)

(* The index and the allocated nodes are in bijection: no node leaks, none   *)
(* is freed twice by the drain in clear and drop, no key has two nodes, and  *)
(* the index never leads to freed memory.                                    *)
IndexOwnsNodes ==
    /\ \A n \in live : nodeKey[n] \in Keys /\ index[nodeKey[n]] = n
    /\ \A k \in Keys : index[k] # None =>
        index[k] \in live /\ nodeKey[index[k]] = k

(* From the tail, following prev, the list visits every allocated node once, *)
(* ends at the head, and next leads back: no use of freed memory, no cycle   *)
(* and no lost part however hits, removals and evictions are mixed.          *)
ListIsWhole ==
    LET chain == FromTail(list, Cardinality(live))
        Last  == Cardinality(live)
    IN  /\ {chain[i] : i \in DOMAIN chain} = live
        /\ IF live = {} THEN list.head = None /\ list.tail = None
           ELSE chain[Last] = list.head /\ list.prev[list.head] = None
        /\ \A i \in 1 .. Last :
            list.next[chain[i]] = IF i = 1 THEN None ELSE chain[i - 1]

(* What len() can read at any moment: the number of allocated nodes, at most *)
(* one above the capacity, and above it only while an insertion evicts.      *)
SizeBound ==
    /\ size = Cardinality(live)
    /\ size <= Capacity + 1
    /\ holder # Evicting => size <= Capacity

-----------------------------------------------------------------------------
(* Lru implements LruRecency: a call takes effect in its first step, and the *)
(* abstract state is the one the lock holder will arrive at.                 *)
keyOrder ==
    LET chain == FromTail(list, Cardinality(live))
    IN  [i \in 1 .. Cardinality(live) |-> nodeKey[chain[i]]]

Arrived ==
    IF MustEvict THEN Tail(keyOrder)
    ELSE IF holder.op = "update" THEN Append(keyOrder, holder.key) ELSE keyOrder

ArrivedValue ==
    [k \in Keys |->
        IF holder.op = "update" /\ k = holder.key THEN holder.value
        ELSE IF \E i \in DOMAIN Arrived : Arrived[i] = k THEN nodeVal[index[k]] ELSE None]

R == INSTANCE LruRecency WITH NoValue <- None, order <- Arrived, value <- ArrivedValue

(* The pointer program evicts the least recently used key and no other, and  *)
(* get, peek and insert answer with the last value inserted.                 *)
ImplementsRecency == R!RSpec

(* Every call does its own part of that: a stuttering step would implement   *)
(* LruRecency too, but a hit must make its key the most recent one, and what *)
(* follows the first step of an insert changes nothing a caller could see.   *)
CallsTakeEffect ==
    [][/\ \A k \in Keys : /\ GetHit(k) => R!RGet(k)
                          /\ RemoveKey(k) => R!RRemove(k)
       /\ \A k \in Keys, v \in Values : /\ InsertNew(k, v) => R!RInsert(k, v)
                                        /\ UpdateUnlink(k, v) => R!RUpdate(k, v)
       /\ Clear => R!RClear
       /\ HolderStep => UNCHANGED <<Arrived, ArrivedValue>>]_vars
=============================================================================
