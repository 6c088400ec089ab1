-------------------------- MODULE SieveRefinement --------------------------
(***************************************************************************)
(* Sieve implements SieveQueue.  A call takes effect in its first step,    *)
(* under the lock; whatever the holder still has to do is determined by    *)
(* then, so the abstract state is the one the holder will arrive at and    *)
(* its remaining steps stutter.                                            *)
(***************************************************************************)
EXTENDS Sieve, Sequences

S == INSTANCE SieveOrder WITH NoKey <- None

(* chain[i]: the i-th node from the tail, following prev.                  *)
chain[i \in 1 .. Cardinality(live)] ==
    IF i = 1 THEN tail
    ELSE IF chain[i - 1] = None THEN None ELSE prev[chain[i - 1]]

keyOrder == [i \in 1 .. Cardinality(live) |-> nodeKey[chain[i]]]

(* A key is held exactly by the nodes on the chain, each once: the list    *)
(* has no cycle and no part that the ends do not reach.  NoDangling and    *)
(* LinksAgree do not imply that, and eviction order depends on it.         *)
ChainIsIndex ==
    /\ \A i \in DOMAIN chain : chain[i] # None
    /\ {chain[i] : i \in DOMAIN chain} = live

InQueue ==
    [order   |-> keyOrder,
     visited |-> {nodeKey[n] : n \in {m \in live : visited[m]}},
     hand    |-> IF hand = None THEN None ELSE nodeKey[hand]]

Arrived ==
    IF MustEvict THEN S!Evicted(InQueue)
    ELSE IF holder.op = "update"
         THEN [InQueue EXCEPT !.order = Append(@, holder.key)]
         ELSE InQueue

ArrivedValue ==
    [k \in Keys |->
        IF holder.op = "update" /\ k = holder.key THEN holder.value
        ELSE IF \E i \in DOMAIN Arrived.order : Arrived.order[i] = k
             THEN nodeVal[index[k]] ELSE None]

Q == INSTANCE SieveQueue WITH
        NoKey <- None, order <- Arrived.order, visited <- Arrived.visited,
        hand <- Arrived.hand, value <- ArrivedValue

(* SieveCache is a SIEVE queue: every call returns having done what one    *)
(* step of SieveQueue does, and what an eviction does to the list pointer  *)
(* by pointer is the eviction of the first unvisited key from the hand on. *)
ImplementsQueue == Q!QSpec

(* Every call does its own part of that: a stuttering step would implement  *)
(* SieveQueue too, but a hit must leave its mark, and what follows the first*)
(* step of an insert, the sweep above all, is already decided there.        *)
CallsTakeEffect ==
    [][/\ \A k \in Keys : /\ GetHit(k) => Q!QGet(k)
                          /\ RemoveKey(k) => Q!QRemove(k)
       /\ \A k \in Keys, v \in Values : /\ InsertNew(k, v) => Q!QInsert(k, v)
                                        /\ UpdateUnlink(k, v) => Q!QUpdate(k, v)
       /\ Clear => Q!QClear
       /\ HolderStep => UNCHANGED <<Arrived, ArrivedValue>>]_vars

(* sieve.rs:594, "'d' should be there (just inserted)": a key is still in  *)
(* the cache when its insert returns.  With every entry from the hand on   *)
(* visited the sweep ends at the new entry itself and evicts it.           *)
JustInsertedIsCached ==
    [][\A k \in Keys : (\E v \in Values : InsertNew(k, v)) => k \in Q!Cached']_vars
=============================================================================
