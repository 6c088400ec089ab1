----------------------------- MODULE LruProofs -----------------------------
(***************************************************************************)
(* The LRU cache for every set of keys, values and nodes and every         *)
(* capacity: the doubly-linked list is one sequence of exactly the         *)
(* allocated nodes, and call by call that sequence is the recency order.   *)
(***************************************************************************)
EXTENDS Lru, QueueProofs

(* The list l links the nodes of q, least recently used first.             *)
Orders(l, q) == q \in Seq(Nodes) /\ Follows(l, q, None)

Lists == [head : Nodes \cup {None}, tail : Nodes \cup {None},
          prev : [Nodes -> Nodes \cup {None}], next : [Nodes -> Nodes \cup {None}]]

-----------------------------------------------------------------------------
(* The list operations, as operations on the sequence.                     *)

(* What the pointers of a list say of the nodes of its sequence.           *)
LEMMA OrderFacts ==
    ASSUME NEW l \in Lists, NEW q, Orders(l, q)
    PROVE  /\ Len(q) \in Nat /\ DOMAIN q = 1 .. Len(q)
           /\ \A i \in 1 .. Len(q) : q[i] \in Nodes /\ q[i] \in Range(q) /\ q[i] # None
           /\ \A i, j \in 1 .. Len(q) : q[i] = q[j] => i = j
           /\ \A i \in 1 .. Len(q) :
                /\ (l.prev[q[i]] = None) <=> (i = Len(q))
                /\ (l.next[q[i]] = None) <=> (i = 1)
           /\ (l.head = None) <=> (q = <<>>)
           /\ (l.tail = None) <=> (q = <<>>)
           /\ q = <<>> <=> Len(q) = 0
           /\ \A i \in 1 .. Len(q) :
                /\ i # Len(q) => i + 1 \in 1 .. Len(q)
                /\ i # 1 => i - 1 \in 1 .. Len(q)
  BY FollowsFacts, NoneAssumption DEF Orders

(* insert_at_head_locked makes the node the most recently used.            *)
LEMMA AtHeadAppends ==
    ASSUME NEW l \in Lists, NEW q, Orders(l, q), NEW n \in Nodes, n \notin Range(q)
    PROVE  AtHead(l, n) \in Lists /\ Orders(AtHead(l, n), Append(q, n))
<1> DEFINE m == AtHead(l, n)
<1>1. m \in Lists /\ Append(q, n) \in Seq(Nodes)
  BY DEF AtHead, Lists, Orders
<1>2. /\ m.head = n
      /\ m.tail = IF l.tail = None THEN n ELSE l.tail
      /\ \A x \in Nodes : /\ m.prev[x] = IF x = l.head THEN n
                                         ELSE IF x = n THEN None ELSE l.prev[x]
                          /\ m.next[x] = IF x = n THEN l.head ELSE l.next[x]
  BY DEF AtHead, Lists
<1>3. q \in Seq(Nodes) /\ Follows(l, q, None)
  BY DEF Orders
<1> HIDE DEF m
<1>4. Follows(m, Append(q, n), None)
  BY <1>2, <1>3, NoneAssumption, FollowsAtHead
<1> QED BY <1>1, <1>4 DEF m, Orders

(* unlink_node_locked closes the gap, wherever in the list the node was.   *)
LEMMA UnlinkedRemoves ==
    ASSUME NEW l \in Lists, NEW q, Orders(l, q), NEW i \in 1 .. Len(q)
    PROVE  /\ Unlinked(l, q[i]) \in Lists
           /\ Orders(Unlinked(l, q[i]), RemoveAt(q, i))
<1> DEFINE n == q[i]
           m == Unlinked(l, n)
<1>1. q \in Seq(Nodes) /\ Follows(l, q, None) /\ n \in Nodes
  BY DEF Orders
<1>2. m \in Lists /\ RemoveAt(q, i) \in Seq(Nodes)
  BY <1>1, RemoveAtKeeps DEF Unlinked, Lists
<1>3. /\ m.head = IF l.prev[n] = None THEN l.next[n] ELSE l.head
      /\ m.tail = IF l.next[n] = None THEN l.prev[n] ELSE l.tail
      /\ \A y \in Nodes : y # n =>
            /\ m.prev[y] = IF y = l.next[n] THEN l.prev[n] ELSE l.prev[y]
            /\ m.next[y] = IF y = l.prev[n] THEN l.next[n] ELSE l.next[y]
  BY DEF Unlinked
<1> HIDE DEF m
<1>4. Follows(m, RemoveAt(q, i), None)
  BY <1>1, <1>3, NoneAssumption, FollowsUnlinked
<1> QED BY <1>2, <1>4 DEF m, Orders

(* move_to_head_locked makes the node the most recently used and keeps the *)
(* order of the others.                                                    *)
LEMMA ToHeadMoves ==
    ASSUME NEW l \in Lists, NEW q, Orders(l, q), NEW i \in 1 .. Len(q)
    PROVE  /\ ToHead(l, q[i]) \in Lists
           /\ Orders(ToHead(l, q[i]), Append(RemoveAt(q, i), q[i]))
<1> DEFINE n == q[i]
           r == RemoveAt(q, i)
<1>1. /\ Len(q) \in Nat /\ q \in Seq(Nodes) /\ IsInjective(q)
      /\ n \in Nodes /\ ((l.prev[n] = None) <=> (i = Len(q)))
  BY OrderFacts DEF Orders, Follows
<1>2. /\ r \in Seq(Nodes) /\ Len(r) = Len(q) - 1 /\ IsInjective(r)
      /\ \A j \in 1 .. Len(q) - 1 : r[j] = IF j < i THEN q[j] ELSE q[j + 1]
      /\ Range(r) = Range(q) \ {n}
  BY <1>1, RemoveAtKeeps
<1>3. CASE i = Len(q)
  <2>1. ToHead(l, n) = l
    BY <1>1, <1>3 DEF ToHead
  <2> DEFINE t == Append(r, n)
  <2>2. t \in Seq(Nodes) /\ Len(t) = Len(q) /\ DOMAIN q = 1 .. Len(q) /\ DOMAIN t = 1 .. Len(q)
    BY <1>1, <1>2
  <2>3. ASSUME NEW j \in 1 .. Len(q) PROVE t[j] = q[j]
    <3>1. CASE j = Len(q)
      BY <1>1, <1>2, <1>3, <3>1
    <3>2. CASE j # Len(q)
      <4>1. j \in 1 .. Len(q) - 1 /\ j < i
        BY <1>1, <1>3, <3>2
      <4> QED BY <1>1, <1>2, <4>1
    <3> QED BY <3>1, <3>2
  <2> HIDE DEF t
  <2>4. t = q
    BY <1>1, <2>2, <2>3, SeqEqual
  <2> QED BY <2>1, <2>4 DEF t
<1>4. CASE i # Len(q)
  <2>1. ToHead(l, n) = AtHead(Unlinked(l, n), n)
    BY <1>1, <1>4 DEF ToHead
  <2>2. Unlinked(l, n) \in Lists /\ Orders(Unlinked(l, n), r)
    BY UnlinkedRemoves
  <2>3. n \notin Range(r)
    BY <1>2
  <2> HIDE DEF n, r
  <2>4. /\ AtHead(Unlinked(l, n), n) \in Lists
        /\ Orders(AtHead(Unlinked(l, n), n), Append(r, n))
    BY <1>1, <2>2, <2>3, AtHeadAppends
  <2> QED BY <2>1, <2>4 DEF n, r
<1> QED BY <1>3, <1>4

(* Following prev from the tail visits the sequence a list follows: no     *)
(* other sequence does.                                                    *)
LEMMA FromTailFollows ==
    ASSUME NEW l \in Lists, NEW q, Orders(l, q)
    PROVE  FromTail(l, Len(q)) = q /\ FromTail(l, Cardinality(Range(q))) = q
<1>1. q \in Seq(Nodes) /\ Follows(l, q, None)
  BY DEF Orders
<1>2. Cardinality(Range(q)) = Len(q)
  BY <1>1, RangeCounts DEF Follows
<1> DEFINE Good(f) == f = [i \in 1 .. Len(q) |->
                              IF i = 1 THEN l.tail
                              ELSE IF f[i - 1] = None THEN None ELSE l.prev[f[i - 1]]]
<1>3. \A f : Good(f) <=> f = q
  BY <1>1, NoneAssumption, FollowsOnly
<1>4. FromTail(l, Len(q)) = CHOOSE f : Good(f)
  BY DEF FromTail
<1> HIDE DEF Good
<1>5. FromTail(l, Len(q)) = q
  BY <1>3, <1>4
<1> QED BY <1>2, <1>5

-----------------------------------------------------------------------------
(* The invariant.                                                          *)

(* The nodes of the cache's list, least recently used first.               *)
nodes == FromTail(list, Cardinality(live))

ListOrdersNodes == Orders(list, nodes) /\ Range(nodes) = live

UpdateHasRoom ==
    holder.op = "update" => index[holder.key] = None /\ size < Capacity

IInv == TypeOK /\ IndexOwnsNodes /\ SizeBound /\ ListOrdersNodes /\ UpdateHasRoom

(* The allocated nodes are finitely many, as many as the list has, and each *)
(* allocation or free changes their number by one.                         *)
LEMMA LiveCounts ==
    ASSUME TypeOK
    PROVE  /\ IsFiniteSet(live)
           /\ Cardinality(live) \in Nat
           /\ \A n \in Nodes \ live : Cardinality(live \cup {n}) = Cardinality(live) + 1
           /\ \A n \in live : /\ Cardinality(live \ {n}) = Cardinality(live) - 1
                              /\ Cardinality(live) > 0
<1>1. IsFiniteSet(live)
  BY NodesAssumption, FS_Subset DEF TypeOK
<1>2. Cardinality(live) \in Nat
  BY <1>1, FS_CardinalityType
<1>3. \A n \in Nodes \ live : Cardinality(live \cup {n}) = Cardinality(live) + 1
  BY <1>1, FS_AddElement
<1>4. \A n \in live : Cardinality(live \ {n}) = Cardinality(live) - 1
  BY <1>1, FS_RemoveElement
<1>5. \A n \in live : Cardinality(live) > 0
  <2>1. live # {} => Cardinality(live) # 0
    BY <1>1, FS_EmptySet
  <2> QED BY <1>2, <2>1
<1> QED BY <1>1, <1>2, <1>3, <1>4, <1>5

LEMMA NodesCount ==
    ASSUME ListOrdersNodes
    PROVE  Len(nodes) = Cardinality(live) /\ nodes \in Seq(Nodes) /\ IsInjective(nodes)
  BY RangeCounts DEF ListOrdersNodes, Orders, Follows

(* What the lock holder can be doing.                                      *)
LEMMA HolderCases ==
    ASSUME TypeOK
    PROVE  /\ Free.op = "none" /\ Evicting.op = "evict"
           /\ \A k, v : /\ Updating(k, v).op = "update"
                        /\ Updating(k, v).key = k /\ Updating(k, v).value = v
           /\ holder.op = "update" => holder.key \in Keys /\ holder.value \in Values
           /\ holder = Evicting \/ holder = Free \/ holder.op = "update"
  BY DEF TypeOK, Free, Evicting, Updating

(* While size is within its width, growing adds and shrinking takes one.   *)
LEMMA SizeSteps ==
    ASSUME TypeOK
    PROVE  /\ Grow => size' \in 0 .. UsizeMod - 1
           /\ Shrink => size' \in 0 .. UsizeMod - 1
           /\ Grow /\ size <= Capacity => size' = size + 1
           /\ Shrink /\ size > 0 => size' = size - 1
           /\ size \in Nat
  BY UsizeAssumption, CapacityAssumption DEF TypeOK, Grow, Shrink

LEMMA CountKeepsTypes ==
    ASSUME TypeOK, NEW c \in CounterNames, Count(c)
    PROVE  stats' \in [CounterNames -> 0 .. CounterMod - 1]
  BY CounterAssumption DEF TypeOK, Count

(* A sequence the list follows is the nodes of the cache.                  *)
LEMMA NodesAre ==
    ASSUME NEW q, list' \in Lists, Orders(list', q), Range(q) = live'
    PROVE  nodes' = q /\ ListOrdersNodes'
<1>1. FromTail(list', Cardinality(Range(q))) = q
  BY FromTailFollows
<1>2. nodes' = q
  BY <1>1 DEF nodes
<1> QED BY <1>2 DEF ListOrdersNodes

(* A new node for a key without one comes last in the list.                *)
LEMMA EnterStep ==
    ASSUME TypeOK, IndexOwnsNodes, ListOrdersNodes,
           NEW k \in Keys, NEW v \in Values, index[k] = None, Enter(k, v)
    PROVE  /\ index' \in [Keys -> Nodes \cup {None}] /\ list' \in Lists
           /\ nodeKey' \in [Nodes -> Keys \cup {None}]
           /\ nodeVal' \in [Nodes -> Values \cup {None}]
           /\ live' \in SUBSET Nodes
           /\ IndexOwnsNodes' /\ ListOrdersNodes'
           /\ Cardinality(live') = Cardinality(live) + 1
           /\ \E n \in Nodes \ live :
                 /\ nodes' = Append(nodes, n)
                 /\ index' = [index EXCEPT ![k] = n]
                 /\ nodeKey' = [nodeKey EXCEPT ![n] = k]
                 /\ nodeVal' = [nodeVal EXCEPT ![n] = v]
<1>1. PICK n \in Nodes \ live :
        /\ live' = live \cup {n}
        /\ nodeKey' = [nodeKey EXCEPT ![n] = k]
        /\ nodeVal' = [nodeVal EXCEPT ![n] = v]
        /\ index' = [index EXCEPT ![k] = n]
        /\ list' = AtHead(list, n)
  BY DEF Enter
<1>2. list \in Lists
  BY DEF TypeOK, Lists
<1>3. Orders(list, nodes) /\ Range(nodes) = live /\ nodes \in Seq(Nodes)
  BY DEF ListOrdersNodes, Orders, Follows
<1>4. list' \in Lists /\ Orders(list', Append(nodes, n))
  BY <1>1, <1>2, <1>3, AtHeadAppends
<1>5. Range(Append(nodes, n)) = live'
  BY <1>1, <1>3, AppendKeeps
<1>6. nodes' = Append(nodes, n) /\ ListOrdersNodes'
  BY <1>4, <1>5, NodesAre
<1>7. Cardinality(live') = Cardinality(live) + 1
  BY <1>1, LiveCounts
<1>8. /\ index' \in [Keys -> Nodes \cup {None}]
      /\ nodeKey' \in [Nodes -> Keys \cup {None}]
      /\ nodeVal' \in [Nodes -> Values \cup {None}]
      /\ live' \in SUBSET Nodes
  BY <1>1 DEF TypeOK
<1>9. IndexOwnsNodes'
  BY <1>1, NoneAssumption DEF IndexOwnsNodes, TypeOK
<1> QED BY <1>1, <1>4, <1>6, <1>7, <1>8, <1>9

(* A node that is freed leaves its place in the list and nothing else.     *)
LEMMA LeaveStep ==
    ASSUME TypeOK, IndexOwnsNodes, ListOrdersNodes, NEW n \in live, Leave(n)
    PROVE  /\ index' \in [Keys -> Nodes \cup {None}] /\ list' \in Lists
           /\ nodeKey' \in [Nodes -> Keys \cup {None}]
           /\ nodeVal' \in [Nodes -> Values \cup {None}]
           /\ live' \in SUBSET Nodes
           /\ IndexOwnsNodes' /\ ListOrdersNodes'
           /\ Cardinality(live') = Cardinality(live) - 1
           /\ \E i \in 1 .. Len(nodes) : nodes[i] = n /\ nodes' = RemoveAt(nodes, i)
<1> USE NoneAssumption
<1>1. /\ n \in Nodes /\ nodeKey[n] \in Keys /\ index[nodeKey[n]] = n
  BY DEF TypeOK, IndexOwnsNodes
<1>2. /\ index' = [index EXCEPT ![nodeKey[n]] = None]
      /\ list' = Unlinked(list, n)
      /\ nodeKey' = [nodeKey EXCEPT ![n] = None]
      /\ nodeVal' = [nodeVal EXCEPT ![n] = None]
      /\ live' = live \ {n}
  BY DEF Leave
<1>3. list \in Lists
  BY DEF TypeOK, Lists
<1>4. /\ Orders(list, nodes) /\ Range(nodes) = live
      /\ nodes \in Seq(Nodes) /\ IsInjective(nodes) /\ DOMAIN nodes = 1 .. Len(nodes)
  BY DEF ListOrdersNodes, Orders, Follows
<1>5. PICK i \in 1 .. Len(nodes) : nodes[i] = n
  BY <1>4 DEF Range
<1>6. list' \in Lists /\ Orders(list', RemoveAt(nodes, i))
  BY <1>2, <1>3, <1>4, <1>5, UnlinkedRemoves
<1>7. Range(RemoveAt(nodes, i)) = live'
  BY <1>2, <1>4, <1>5, RemoveAtKeeps
<1>8. nodes' = RemoveAt(nodes, i) /\ ListOrdersNodes'
  BY <1>6, <1>7, NodesAre
<1>9. Cardinality(live') = Cardinality(live) - 1
  BY <1>2, LiveCounts
<1>10. /\ index' \in [Keys -> Nodes \cup {None}]
       /\ nodeKey' \in [Nodes -> Keys \cup {None}]
       /\ nodeVal' \in [Nodes -> Values \cup {None}]
       /\ live' \in SUBSET Nodes
  BY <1>1, <1>2 DEF TypeOK
<1>11. IndexOwnsNodes'
  BY <1>1, <1>2 DEF IndexOwnsNodes, TypeOK
<1> QED BY <1>5, <1>6, <1>8, <1>9, <1>10, <1>11

(* A node of the list that is hit becomes its last one.                    *)
LEMMA ToHeadStep ==
    ASSUME TypeOK, ListOrdersNodes, NEW n \in live,
           list' = ToHead(list, n), live' = live
    PROVE  /\ list' \in Lists /\ ListOrdersNodes'
           /\ \E i \in 1 .. Len(nodes) :
                 nodes[i] = n /\ nodes' = Append(RemoveAt(nodes, i), n)
<1>1. list \in Lists
  BY DEF TypeOK, Lists
<1>2. /\ Orders(list, nodes) /\ Range(nodes) = live
      /\ nodes \in Seq(Nodes) /\ IsInjective(nodes) /\ DOMAIN nodes = 1 .. Len(nodes)
  BY DEF ListOrdersNodes, Orders, Follows
<1>3. PICK i \in 1 .. Len(nodes) : nodes[i] = n
  BY <1>2 DEF Range
<1> DEFINE q == Append(RemoveAt(nodes, i), n)
<1>4. list' \in Lists /\ Orders(list', q)
  BY <1>1, <1>2, <1>3, ToHeadMoves
<1>5. Range(q) = live'
  <2>1. RemoveAt(nodes, i) \in Seq(Nodes) /\ Range(RemoveAt(nodes, i)) = live \ {n}
    BY <1>2, <1>3, RemoveAtKeeps
  <2>2. n \in Nodes
    BY DEF TypeOK
  <2>3. Range(q) = (live \ {n}) \cup {n}
    BY <2>1, <2>2, AppendKeeps
  <2> QED BY <2>3
<1> HIDE DEF q
<1>6. nodes' = q /\ ListOrdersNodes'
  BY <1>4, <1>5, NodesAre
<1> QED BY <1>3, <1>4, <1>6 DEF q

-----------------------------------------------------------------------------
LEMMA InitIInv == Init => IInv
<1> SUFFICES ASSUME Init PROVE IInv
  OBVIOUS
<1>1. list \in Lists /\ TypeOK
  BY UsizeAssumption, CapacityAssumption, CounterAssumption
  DEF Init, TypeOK, CounterNames, NoList, Lists
<1>2. IndexOwnsNodes
  BY DEF Init, IndexOwnsNodes
<1>3. Cardinality(live) = 0
  BY FS_EmptySet DEF Init
<1>4. Orders(list, <<>>) /\ Range(<<>>) = live
  BY DEF Init, NoList, Orders, Follows, Range, IsInjective
<1>5. FromTail(list, Cardinality(Range(<<>>))) = <<>>
  BY <1>1, <1>4, FromTailFollows
<1>6. ListOrdersNodes
  BY <1>4, <1>5 DEF ListOrdersNodes, nodes
<1>7. holder = Free /\ Free.op = "none" /\ Free # Evicting
  BY DEF Init, Free, Evicting
<1> QED
  BY <1>1, <1>2, <1>3, <1>6, <1>7, CapacityAssumption
  DEF Init, IInv, SizeBound, UpdateHasRoom

(* A hit changes the order and the counters, a miss the counters.          *)
LEMMA GetKeepsIInv ==
    ASSUME IInv, NEW k \in Keys, GetHit(k) \/ GetMiss(k) PROVE IInv'
<1>1. stats' \in [CounterNames -> 0 .. CounterMod - 1]
  BY CountKeepsTypes DEF GetHit, GetMiss, CounterNames, IInv
<1>2. list' \in Lists /\ ListOrdersNodes'
  <2>1. CASE GetHit(k)
    <3>1. index[k] \in live
      BY <2>1 DEF GetHit, IInv, IndexOwnsNodes
    <3> QED BY <2>1, <3>1, ToHeadStep DEF GetHit, IInv
  <2>2. CASE GetMiss(k)
    BY <2>2 DEF GetMiss, IInv, TypeOK, Lists, ListOrdersNodes, nodes
  <2> QED BY <2>1, <2>2
<1>3. UNCHANGED <<index, nodeKey, nodeVal, live, size, holder>>
  BY DEF GetHit, GetMiss
<1>4. TypeOK'
  BY <1>1, <1>2, <1>3 DEF IInv, TypeOK, Lists
<1> QED
  BY <1>2, <1>3, <1>4 DEF IInv, IndexOwnsNodes, SizeBound, UpdateHasRoom

(* An insertion of a new key brings the cache at most one over capacity.   *)
LEMMA InsertNewKeepsIInv ==
    ASSUME IInv, NEW k \in Keys, NEW v \in Values, InsertNew(k, v) PROVE IInv'
<1>1. TypeOK /\ IndexOwnsNodes /\ ListOrdersNodes /\ SizeBound
  BY DEF IInv
<1>2. index[k] = None /\ Enter(k, v) /\ Grow /\ holder = Free /\ holder' = Evicting
  BY DEF InsertNew
<1>3. stats' \in [CounterNames -> 0 .. CounterMod - 1]
  BY <1>1, CountKeepsTypes DEF InsertNew, CounterNames
<1>4. IndexOwnsNodes' /\ ListOrdersNodes' /\ Cardinality(live') = Cardinality(live) + 1
  BY <1>1, <1>2, EnterStep
<1>5. TypeOK'
  <2>1. holder' \in {Free, Evicting} \cup {Updating(x, w) : x \in Keys, w \in Values}
    BY <1>2
  <2> QED BY <1>1, <1>2, <1>3, <2>1, EnterStep, SizeSteps DEF TypeOK, Lists
<1>6. SizeBound'
  <2>1. size \in Nat /\ size <= Capacity /\ size' = size + 1
    BY <1>1, <1>2, SizeSteps DEF SizeBound, Free, Evicting
  <2> QED BY <1>1, <1>2, <1>4, <2>1, CapacityAssumption DEF SizeBound
<1>7. UpdateHasRoom'
  BY <1>2 DEF UpdateHasRoom, Evicting
<1> QED BY <1>4, <1>5, <1>6, <1>7 DEF IInv

(* Any step that frees one node and counts it leaves all but the holder's  *)
(* part of the invariant.                                                  *)
LEMMA LeaveKeeps ==
    ASSUME IInv, NEW n \in live, Leave(n), Shrink,
           stats' \in [CounterNames -> 0 .. CounterMod - 1],
           holder' \in {Free, Evicting} \cup {Updating(x, w) : x \in Keys, w \in Values}
    PROVE  /\ TypeOK' /\ IndexOwnsNodes' /\ ListOrdersNodes'
           /\ size' = Cardinality(live') /\ size' = size - 1 /\ size' \in Nat
           /\ size' <= Capacity
<1>1. TypeOK /\ IndexOwnsNodes /\ ListOrdersNodes /\ SizeBound
  BY DEF IInv
<1>2. IndexOwnsNodes' /\ ListOrdersNodes' /\ Cardinality(live') = Cardinality(live) - 1
  BY <1>1, LeaveStep
<1>3. TypeOK'
  BY <1>1, LeaveStep, SizeSteps DEF TypeOK, Lists
<1>4. size = Cardinality(live) /\ size \in Nat /\ size > 0
  BY <1>1, LiveCounts DEF SizeBound
<1>5. size' = size - 1
  BY <1>1, <1>4, SizeSteps
<1>6. size - 1 \in Nat /\ size - 1 <= Capacity
  BY <1>1, <1>4, CapacityAssumption DEF SizeBound
<1> QED BY <1>2, <1>3, <1>4, <1>5, <1>6

(* An update first takes one entry out ...                                 *)
LEMMA UpdateUnlinkKeepsIInv ==
    ASSUME IInv, NEW k \in Keys, NEW v \in Values, UpdateUnlink(k, v) PROVE IInv'
<1>1. index[k] \in live /\ nodeKey[index[k]] = k /\ index \in [Keys -> Nodes \cup {None}]
  BY DEF UpdateUnlink, IInv, IndexOwnsNodes, TypeOK
<1>2. holder' = Updating(k, v) /\ holder'.op = "update" /\ holder'.key = k
  BY DEF UpdateUnlink, Updating
<1>3. /\ TypeOK' /\ IndexOwnsNodes' /\ ListOrdersNodes'
      /\ size' = Cardinality(live') /\ size' \in Nat /\ size' <= Capacity
  BY <1>1, <1>2, LeaveKeeps DEF UpdateUnlink, IInv, TypeOK
<1>4. SizeBound'
  BY <1>3, CapacityAssumption DEF SizeBound
<1>5. UpdateHasRoom'
  <2>1. size \in Nat /\ size <= Capacity /\ size' = size - 1
    BY <1>1, <1>2, LeaveKeeps, SizeSteps
    DEF UpdateUnlink, IInv, TypeOK, SizeBound, Free, Evicting
  <2>2. index'[k] = None
    BY <1>1 DEF UpdateUnlink, Leave
  <2> QED BY <1>2, <2>1, <2>2, CapacityAssumption DEF UpdateHasRoom
<1> QED BY <1>3, <1>4, <1>5 DEF IInv

(* ... and then puts one in for the same key.                              *)
LEMMA UpdateRelinkKeepsIInv ==
    ASSUME IInv, UpdateRelink PROVE IInv'
<1>1. TypeOK /\ IndexOwnsNodes /\ ListOrdersNodes /\ SizeBound /\ UpdateHasRoom
  BY DEF IInv
<1>2. /\ holder.key \in Keys /\ holder.value \in Values
      /\ index[holder.key] = None /\ size < Capacity
      /\ Enter(holder.key, holder.value) /\ Grow
  BY <1>1, HolderCases DEF UpdateRelink, UpdateHasRoom
<1>3. stats' \in [CounterNames -> 0 .. CounterMod - 1]
  BY <1>1, CountKeepsTypes DEF UpdateRelink, CounterNames
<1>4. IndexOwnsNodes' /\ ListOrdersNodes' /\ Cardinality(live') = Cardinality(live) + 1
  BY <1>1, <1>2, EnterStep
<1>5. holder' = Free /\ holder'.op = "none" /\ holder' # Evicting
  BY DEF UpdateRelink, Free, Evicting
<1>6. TypeOK'
  <2>1. holder' \in {Free, Evicting} \cup {Updating(x, w) : x \in Keys, w \in Values}
    BY <1>5
  <2> QED BY <1>1, <1>2, <1>3, <2>1, EnterStep, SizeSteps DEF TypeOK, Lists
<1>7. SizeBound'
  <2>1. size \in Nat /\ size' = size + 1
    BY <1>1, <1>2, SizeSteps, CapacityAssumption
  <2> QED BY <1>1, <1>2, <1>4, <2>1, CapacityAssumption DEF SizeBound
<1> QED BY <1>4, <1>5, <1>6, <1>7 DEF IInv, UpdateHasRoom

(* The eviction frees the node at the tail, and the size is back within    *)
(* the capacity.                                                           *)
LEMMA EvictTailKeepsIInv ==
    ASSUME IInv, EvictTail PROVE IInv'
<1>1. TypeOK /\ ListOrdersNodes /\ list.tail # None
  BY DEF IInv, EvictTail
<1>2. list.tail \in live
  <2>1. list \in Lists /\ Orders(list, nodes)
    BY <1>1 DEF TypeOK, Lists, ListOrdersNodes
  <2>2. nodes # <<>>
    BY <1>1, <2>1, OrderFacts
  <2>3. list.tail = nodes[1] /\ 1 \in 1 .. Len(nodes)
    BY <2>1, <2>2, OrderFacts, Neighbours DEF Orders, Follows
  <2> QED BY <1>1, <2>1, <2>3, OrderFacts DEF ListOrdersNodes
<1>3. holder' = Evicting /\ holder'.op = "evict"
  BY DEF EvictTail, MustEvict, Evicting
<1>4. stats' \in [CounterNames -> 0 .. CounterMod - 1]
  BY <1>1, CountKeepsTypes DEF EvictTail, CounterNames
<1>5. /\ TypeOK' /\ IndexOwnsNodes' /\ ListOrdersNodes'
      /\ size' = Cardinality(live') /\ size' \in Nat /\ size' <= Capacity
  BY <1>2, <1>3, <1>4, LeaveKeeps DEF EvictTail
<1> QED BY <1>3, <1>5, CapacityAssumption DEF IInv, SizeBound, UpdateHasRoom

LEMMA InsertReturnKeepsIInv ==
    ASSUME IInv, InsertReturn PROVE IInv'
<1>1. holder' = Free /\ holder'.op = "none" /\ size <= Capacity
  BY DEF InsertReturn, Free
<1>2. UNCHANGED <<index, list, nodeKey, nodeVal, live, size, stats>>
  BY DEF InsertReturn
<1> QED
  BY <1>1, <1>2 DEF IInv, TypeOK, IndexOwnsNodes, ListOrdersNodes, nodes, SizeBound,
     UpdateHasRoom

(* A removal frees the key's node and no other.                            *)
LEMMA RemoveKeepsIInv ==
    ASSUME IInv, NEW k \in Keys, RemoveKey(k) PROVE IInv'
<1>1. index[k] \in live
  BY DEF RemoveKey, IInv, IndexOwnsNodes
<1>2. holder' = Free /\ holder'.op = "none"
  BY DEF RemoveKey, Free
<1>3. /\ TypeOK' /\ IndexOwnsNodes' /\ ListOrdersNodes'
      /\ size' = Cardinality(live') /\ size' \in Nat /\ size' <= Capacity
  BY <1>1, <1>2, LeaveKeeps DEF RemoveKey, IInv, TypeOK
<1> QED BY <1>2, <1>3, CapacityAssumption DEF IInv, SizeBound, UpdateHasRoom

(* Clear frees the nodes in the index, which are all there are.            *)
LEMMA ClearKeepsIInv ==
    ASSUME IInv, Clear PROVE IInv' /\ nodes' = <<>> /\ live' = {}
<1>1. live' = {}
  BY DEF Clear, IInv, IndexOwnsNodes
<1>2. holder' = Free /\ holder'.op = "none"
  BY DEF Clear, Free
<1>3. list' \in Lists /\ list'.head = None /\ list'.tail = None
  BY DEF Clear, IInv, TypeOK, Lists
<1>4. /\ nodeKey' \in [Nodes -> Keys \cup {None}]
      /\ nodeVal' \in [Nodes -> Values \cup {None}]
  BY DEF Clear, IInv, TypeOK
<1>5. index' = [k \in Keys |-> None] /\ size' = 0 /\ UNCHANGED <<stats, holder>>
  BY DEF Clear
<1>6. TypeOK'
  BY <1>1, <1>3, <1>4, <1>5, UsizeAssumption, CapacityAssumption DEF IInv, TypeOK, Lists
<1>7. IndexOwnsNodes'
  BY <1>1, <1>5 DEF IndexOwnsNodes
<1>8. Orders(list', <<>>) /\ Range(<<>>) = live'
  BY <1>1, <1>3 DEF Orders, Follows, Range, IsInjective
<1>9. nodes' = <<>> /\ ListOrdersNodes'
  BY <1>3, <1>8, NodesAre
<1>10. SizeBound'
  BY <1>1, <1>5, FS_EmptySet, CapacityAssumption DEF SizeBound
<1> QED BY <1>1, <1>2, <1>6, <1>7, <1>9, <1>10 DEF IInv, UpdateHasRoom

LEMMA StepKeepsIInv == IInv /\ [Next]_vars => IInv'
<1> SUFFICES ASSUME IInv, [Next]_vars PROVE IInv'
  OBVIOUS
<1>1. CASE \E k \in Keys : GetHit(k) \/ GetMiss(k)
  BY <1>1, GetKeepsIInv
<1>2. CASE \E k \in Keys : RemoveKey(k)
  BY <1>2, RemoveKeepsIInv
<1>3. CASE \E k \in Keys, v \in Values : InsertNew(k, v)
  BY <1>3, InsertNewKeepsIInv
<1>4. CASE \E k \in Keys, v \in Values : UpdateUnlink(k, v)
  BY <1>4, UpdateUnlinkKeepsIInv
<1>5. CASE Clear
  BY <1>5, ClearKeepsIInv
<1>6. CASE HolderStep
  BY <1>6, UpdateRelinkKeepsIInv, EvictTailKeepsIInv, InsertReturnKeepsIInv DEF HolderStep
<1>7. CASE UNCHANGED vars
  BY <1>7 DEF vars, IInv, TypeOK, IndexOwnsNodes, ListOrdersNodes, nodes, SizeBound,
     UpdateHasRoom
<1> QED
  BY <1>1, <1>2, <1>3, <1>4, <1>5, <1>6, <1>7 DEF Next

THEOREM Invariant == Spec => []IInv
  BY InitIInv, StepKeepsIInv, PTL DEF Spec

-----------------------------------------------------------------------------
(* Every variable keeps its type.                                          *)
THEOREM TypeCorrect == Spec => []TypeOK
<1>1. IInv => TypeOK
  BY DEF IInv
<1> QED BY Invariant, <1>1, PTL

(* The index and the allocated nodes are in bijection: the unsafe code of  *)
(* lru.rs neither leaks a node nor frees one twice.                        *)
THEOREM NoLeakNoDoubleFree == Spec => []IndexOwnsNodes
<1>1. IInv => IndexOwnsNodes
  BY DEF IInv
<1> QED BY Invariant, <1>1, PTL

(* len() never shows more than one entry over the capacity, and never more *)
(* than the capacity when no insertion is evicting.                        *)
THEOREM CapacityRespected == Spec => []SizeBound
<1>1. IInv => SizeBound
  BY DEF IInv
<1> QED BY Invariant, <1>1, PTL

(* Both ways along the list lead through every allocated node once.        *)
THEOREM ListStaysWhole == Spec => []ListIsWhole
<1>1. IInv => ListIsWhole
  <2> SUFFICES ASSUME IInv PROVE ListIsWhole
    OBVIOUS
  <2>1. Len(nodes) = Cardinality(live) /\ Orders(list, nodes) /\ Range(nodes) = live
    BY NodesCount DEF IInv, ListOrdersNodes
  <2>2. list \in Lists
    BY DEF IInv, TypeOK, Lists
  <2>3. {nodes[i] : i \in DOMAIN nodes} = live
    BY <2>1 DEF Range
  <2>4. IF live = {} THEN list.head = None /\ list.tail = None
        ELSE nodes[Len(nodes)] = list.head /\ list.prev[list.head] = None
    <3>1. CASE nodes = <<>>
      <4>1. live = {}
        BY <2>3, <3>1
      <4> QED BY <2>1, <3>1, <4>1 DEF Orders, Follows
    <3>2. CASE nodes # <<>>
      <4>1. Len(nodes) \in 1 .. Len(nodes) /\ nodes[Len(nodes)] \in live
        BY <2>1, <2>2, <3>2, OrderFacts, Neighbours
      <4>2. list.head = nodes[Len(nodes)] /\ list.prev[nodes[Len(nodes)]] = None
        BY <2>1, <3>2, <4>1 DEF Orders, Follows
      <4> QED BY <4>1, <4>2
    <3> QED BY <3>1, <3>2
  <2>5. \A i \in 1 .. Len(nodes) :
          list.next[nodes[i]] = IF i = 1 THEN None ELSE nodes[i - 1]
    BY <2>1 DEF Orders, Follows
  <2>6. FromTail(list, Cardinality(live)) = nodes
    BY DEF nodes
  <2> HIDE DEF nodes
  <2> QED BY <2>1, <2>3, <2>4, <2>5, <2>6 DEF ListIsWhole
<1> QED BY Invariant, <1>1, PTL

-----------------------------------------------------------------------------
(* The refinement: what the recency order gains and loses in each step.    *)

(* A key has one place in the order, its node's place in the list; and the *)
(* values the callers are promised are those of the nodes.                 *)
KeyOrderSound ==
    /\ keyOrder \in Seq(Keys) /\ IsInjective(keyOrder)
    /\ Len(keyOrder) = Len(nodes) /\ Len(keyOrder) = size
    /\ \A i \in 1 .. Len(nodes) : /\ keyOrder[i] = nodeKey[nodes[i]]
                                  /\ nodes[i] = index[keyOrder[i]]
    /\ \A k \in Keys : k \in Range(keyOrder) <=> index[k] # None
    /\ ArrivedValue =
          [k \in Keys |->
              IF holder.op = "update" /\ k = holder.key THEN holder.value
              ELSE IF k \in Range(Arrived) THEN nodeVal[index[k]] ELSE None]

LEMMA KeyOrderHolds == IInv => KeyOrderSound
<1> SUFFICES ASSUME IInv PROVE KeyOrderSound
  OBVIOUS
<1>1. /\ Len(nodes) = Cardinality(live) /\ nodes \in Seq(Nodes) /\ IsInjective(nodes)
      /\ Range(nodes) = live /\ size = Cardinality(live)
  BY NodesCount DEF IInv, ListOrdersNodes, SizeBound
<1>2. keyOrder = [i \in 1 .. Len(nodes) |-> nodeKey[nodes[i]]]
  BY <1>1 DEF keyOrder, nodes
<1> DEFINE N == Len(nodes)
<1> HIDE DEF nodes
<1>3. /\ N \in Nat /\ DOMAIN nodes = 1 .. N
      /\ \A i \in 1 .. N : nodes[i] \in live
  BY <1>1 DEF Range
<1>4. /\ \A n \in live : nodeKey[n] \in Keys /\ index[nodeKey[n]] = n
      /\ \A k \in Keys : index[k] # None => index[k] \in live /\ nodeKey[index[k]] = k
      /\ None \notin live
  BY NoneAssumption DEF IInv, IndexOwnsNodes, TypeOK
<1>5. \A i \in 1 .. N : /\ keyOrder[i] = nodeKey[nodes[i]] /\ keyOrder[i] \in Keys
                        /\ nodes[i] = index[keyOrder[i]]
  BY <1>2, <1>3, <1>4
<1>6. keyOrder \in Seq(Keys) /\ Len(keyOrder) = N /\ DOMAIN keyOrder = 1 .. N
  BY <1>2, <1>3, <1>5
<1>7. IsInjective(keyOrder)
  <2>1. ASSUME NEW i \in 1 .. N, NEW j \in 1 .. N, keyOrder[i] = keyOrder[j] PROVE i = j
    <3>1. nodes[i] = nodes[j]
      BY <1>5, <2>1
    <3> QED BY <1>1, <1>3, <3>1 DEF IsInjective
  <2> QED BY <1>6, <2>1 DEF IsInjective
<1>8. ASSUME NEW k \in Keys PROVE k \in Range(keyOrder) <=> index[k] # None
  <2>1. ASSUME k \in Range(keyOrder) PROVE index[k] # None
    <3>1. PICK i \in 1 .. N : keyOrder[i] = k
      BY <1>6, <2>1 DEF Range
    <3> QED BY <1>3, <1>4, <1>5, <3>1
  <2>2. ASSUME index[k] # None PROVE k \in Range(keyOrder)
    <3>1. index[k] \in live /\ nodeKey[index[k]] = k
      BY <1>4, <2>2
    <3>2. PICK i \in 1 .. N : nodes[i] = index[k]
      BY <1>1, <1>3, <3>1 DEF Range
    <3>3. keyOrder[i] = k
      BY <1>5, <3>1, <3>2
    <3> QED BY <1>6, <3>3 DEF Range
  <2> QED BY <2>1, <2>2
<1>9. \A k : (\E i \in DOMAIN Arrived : Arrived[i] = k) <=> k \in Range(Arrived)
  BY DEF Range
<1>10. ArrivedValue =
         [k \in Keys |->
             IF holder.op = "update" /\ k = holder.key THEN holder.value
             ELSE IF k \in Range(Arrived) THEN nodeVal[index[k]] ELSE None]
  <2> HIDE DEF Arrived
  <2> QED BY <1>9 DEF ArrivedValue
<1> QED BY <1>1, <1>5, <1>6, <1>7, <1>8, <1>10 DEF KeyOrderSound

LEMMA KeyOrderHoldsNext == IInv' => KeyOrderSound'
  BY KeyOrderHolds, PTL

(* The order gains a key ...                                               *)
LEMMA KeyEnters ==
    ASSUME KeyOrderSound, KeyOrderSound', nodes \in Seq(Nodes), NEW k \in Keys,
           NEW n \in Nodes, n \notin Range(nodes), nodes' = Append(nodes, n),
           nodeKey \in [Nodes -> Keys \cup {None}], nodeKey' = [nodeKey EXCEPT ![n] = k]
    PROVE  keyOrder' = Append(keyOrder, k)
<1>1. keyOrder \in Seq(Keys) /\ Named(nodes, nodeKey, keyOrder)
  BY DEF KeyOrderSound, Named
<1>2. keyOrder' \in Seq(Keys) /\ Named(Append(nodes, n), nodeKey', keyOrder')
  BY DEF KeyOrderSound, Named
<1>3. nodeKey'[n] = k /\ \A m \in Range(nodes) : nodeKey'[m] = nodeKey[m]
  BY DEF Range
<1> DEFINE f == nodeKey
           g == nodeKey'
           ks == keyOrder
<1>4. /\ ks \in Seq(Keys) /\ Named(nodes, f, ks)
      /\ g[n] = k /\ \A m \in Range(nodes) : g[m] = f[m]
  BY <1>1, <1>3
<1> HIDE DEF f, g, ks
<1>5. Append(ks, k) \in Seq(Keys) /\ Named(Append(nodes, n), g, Append(ks, k))
  BY <1>4, NamedAppend
<1> QED BY <1>2, <1>5, Append(nodes, n) \in Seq(Nodes), NamedOnly DEF f, g, ks

(* ... loses one ...                                                       *)
LEMMA KeyLeaves ==
    ASSUME KeyOrderSound, KeyOrderSound', nodes \in Seq(Nodes), IsInjective(nodes),
           NEW i \in 1 .. Len(nodes), nodes' = RemoveAt(nodes, i),
           \A m \in Nodes : m # nodes[i] => nodeKey'[m] = nodeKey[m]
    PROVE  keyOrder' = RemoveAt(keyOrder, i)
<1>1. keyOrder \in Seq(Keys) /\ Named(nodes, nodeKey, keyOrder)
  BY DEF KeyOrderSound, Named
<1>2. keyOrder' \in Seq(Keys) /\ Named(RemoveAt(nodes, i), nodeKey', keyOrder')
  BY DEF KeyOrderSound, Named
<1>3. \A m \in Range(RemoveAt(nodes, i)) : nodeKey'[m] = nodeKey[m]
  <2>1. Range(RemoveAt(nodes, i)) = Range(nodes) \ {nodes[i]}
    BY RemoveAtKeeps
  <2>2. Range(nodes) \subseteq Nodes
    BY DEF Range
  <2> QED BY <2>1, <2>2
<1>4. /\ RemoveAt(keyOrder, i) \in Seq(Keys)
      /\ Named(RemoveAt(nodes, i), nodeKey', RemoveAt(keyOrder, i))
  BY <1>1, <1>3, NamedRemoveAt
<1>5. RemoveAt(nodes, i) \in Seq(Nodes)
  BY RemoveAtKeeps
<1> QED BY <1>2, <1>4, <1>5, NamedOnly

(* ... or has one of its keys moved to the end.                            *)
LEMMA KeyMoves ==
    ASSUME KeyOrderSound, KeyOrderSound', nodes \in Seq(Nodes), IsInjective(nodes),
           NEW i \in 1 .. Len(nodes), nodes' = Append(RemoveAt(nodes, i), nodes[i]),
           nodeKey' = nodeKey
    PROVE  keyOrder' = Append(RemoveAt(keyOrder, i), keyOrder[i])
<1> DEFINE r == RemoveAt(nodes, i)
           t == RemoveAt(keyOrder, i)
<1>1. keyOrder \in Seq(Keys) /\ Named(nodes, nodeKey, keyOrder)
  BY DEF KeyOrderSound, Named
<1>2. keyOrder' \in Seq(Keys) /\ Named(Append(r, nodes[i]), nodeKey, keyOrder')
  BY DEF KeyOrderSound, Named
<1>3. t \in Seq(Keys) /\ Named(r, nodeKey, t)
  BY <1>1, NamedRemoveAt
<1>4. r \in Seq(Nodes) /\ nodes[i] \in Nodes
  BY RemoveAtKeeps
<1>5. keyOrder[i] \in Keys /\ nodeKey[nodes[i]] = keyOrder[i]
  BY <1>1 DEF Named
<1> HIDE DEF r, t
<1>6. /\ Append(t, keyOrder[i]) \in Seq(Keys)
      /\ Named(Append(r, nodes[i]), nodeKey, Append(t, keyOrder[i]))
  BY <1>3, <1>4, <1>5, NamedAppend
<1>7. keyOrder' = Append(t, keyOrder[i])
  BY <1>2, <1>4, <1>6, Append(r, nodes[i]) \in Seq(Nodes), NamedOnly
<1> QED BY <1>7 DEF t

-----------------------------------------------------------------------------
(* The order a caller is promised, by what the lock holder does.           *)
LEMMA ArrivedCases ==
    ASSUME TypeOK
    PROVE  /\ holder = Free => Arrived = keyOrder /\ holder.op # "update"
           /\ holder = Evicting =>
                /\ Arrived = IF size > Capacity THEN Tail(keyOrder) ELSE keyOrder
                /\ holder.op # "update"
           /\ holder.op = "update" => Arrived = Append(keyOrder, holder.key)
  BY DEF Arrived, MustEvict, Free, Evicting

LEMMA ArrivedCasesNext ==
    ASSUME TypeOK'
    PROVE  /\ holder' = Free => Arrived' = keyOrder' /\ holder'.op # "update"
           /\ holder' = Evicting =>
                /\ Arrived' = IF size' > Capacity THEN Tail(keyOrder') ELSE keyOrder'
                /\ holder'.op # "update"
           /\ holder'.op = "update" => Arrived' = Append(keyOrder', holder'.key)
  BY DEF Arrived, MustEvict, Free, Evicting

(* What a call that frees one node does to the order and the values.       *)
LEMMA LeaveEffect ==
    ASSUME IInv, IInv', NEW k \in Keys, index[k] # None, Leave(index[k])
    PROVE  /\ \E i \in 1 .. Len(keyOrder) :
                 keyOrder[i] = k /\ keyOrder' = RemoveAt(keyOrder, i)
           /\ \A x \in Keys : index[x] # None /\ x # k =>
                 index'[x] = index[x] /\ nodeVal'[index[x]] = nodeVal[index[x]]
<1>1. KeyOrderSound /\ KeyOrderSound'
  BY KeyOrderHolds, KeyOrderHoldsNext
<1>2. /\ index[k] \in live /\ live \subseteq Nodes /\ nodeKey[index[k]] = k
      /\ \A x \in Keys : index[x] # None => index[x] \in live /\ nodeKey[index[x]] = x
  BY DEF IInv, IndexOwnsNodes, TypeOK
<1>3. PICK i \in 1 .. Len(nodes) : nodes[i] = index[k] /\ nodes' = RemoveAt(nodes, i)
  BY <1>2, LeaveStep DEF IInv
<1>4. \A m \in Nodes : m # nodes[i] => nodeKey'[m] = nodeKey[m]
  BY <1>3 DEF Leave, IInv, TypeOK
<1>5. nodes \in Seq(Nodes) /\ IsInjective(nodes)
  BY NodesCount DEF IInv
<1>6. keyOrder' = RemoveAt(keyOrder, i)
  BY <1>1, <1>3, <1>4, <1>5, KeyLeaves
<1>7. keyOrder[i] = k /\ i \in 1 .. Len(keyOrder)
  BY <1>1, <1>2, <1>3 DEF KeyOrderSound
<1>8. ASSUME NEW x \in Keys, index[x] # None, x # k
      PROVE  index'[x] = index[x] /\ nodeVal'[index[x]] = nodeVal[index[x]]
  BY <1>2, <1>8 DEF Leave, IInv, TypeOK
<1> QED BY <1>6, <1>7, <1>8

(* R has the library's operators under its own names.                      *)
LEMMA SameLibrary ==
    /\ \A f : R!Range(f) = Range(f)
    /\ \A s, i : R!RemoveAt(s, i) = RemoveAt(s, i)
  BY DEF R!Range, Range, R!RemoveAt, RemoveAt

(* R's order without a key.                                                *)
LEMMA OthersIs ==
    ASSUME KeyOrderSound, Arrived = keyOrder, NEW i \in 1 .. Len(keyOrder)
    PROVE  /\ R!Others(keyOrder[i]) = RemoveAt(keyOrder, i)
           /\ keyOrder[i] \in R!Cached
<1>1. (CHOOSE j \in DOMAIN keyOrder : keyOrder[j] = keyOrder[i]) = i
  BY OnePlace DEF KeyOrderSound
<1>2. keyOrder[i] \in Range(keyOrder)
  BY DEF KeyOrderSound, Range
<1>3. R!Others(keyOrder[i]) = RemoveAt(keyOrder, i)
  BY <1>1 DEF R!Others, R!RemoveAt, RemoveAt
<1> QED BY <1>2, <1>3, SameLibrary DEF R!Cached

(* get of a key that is there makes it the most recently used.             *)
LEMMA GetHitEffect ==
    ASSUME IInv, IInv', NEW k \in Keys, GetHit(k)
    PROVE  R!RGet(k)
<1>1. KeyOrderSound /\ KeyOrderSound' /\ TypeOK /\ TypeOK'
  BY KeyOrderHolds, KeyOrderHoldsNext DEF IInv
<1>2. /\ holder = Free /\ holder' = Free /\ index[k] # None
      /\ list' = ToHead(list, index[k])
      /\ UNCHANGED <<index, nodeKey, nodeVal, live, size>>
  BY DEF GetHit
<1>3. index[k] \in live /\ nodeKey[index[k]] = k
  BY <1>2 DEF IInv, IndexOwnsNodes
<1>4. PICK i \in 1 .. Len(nodes) :
        nodes[i] = index[k] /\ nodes' = Append(RemoveAt(nodes, i), index[k])
  BY <1>2, <1>3, ToHeadStep DEF IInv
<1>5. nodes \in Seq(Nodes) /\ IsInjective(nodes)
  BY NodesCount DEF IInv
<1>6. keyOrder' = Append(RemoveAt(keyOrder, i), keyOrder[i])
  BY <1>1, <1>2, <1>4, <1>5, KeyMoves
<1>7. keyOrder[i] = k /\ i \in 1 .. Len(keyOrder)
  BY <1>1, <1>3, <1>4 DEF KeyOrderSound
<1>8. Arrived = keyOrder /\ Arrived' = keyOrder' /\ holder.op # "update" /\ holder'.op # "update"
  BY <1>1, <1>2, ArrivedCases, ArrivedCasesNext
<1>9. R!Others(k) = RemoveAt(keyOrder, i) /\ k \in R!Cached
  BY <1>1, <1>7, <1>8, OthersIs
<1>10. ArrivedValue' = ArrivedValue
  <2>1. \A x \in Keys : x \in Range(keyOrder') <=> x \in Range(keyOrder)
    BY <1>1, <1>2 DEF KeyOrderSound
  <2>2. ArrivedValue = [x \in Keys |->
          IF x \in Range(keyOrder) THEN nodeVal[index[x]] ELSE None]
    BY <1>1, <1>8 DEF KeyOrderSound
  <2>3. ArrivedValue' = [x \in Keys |->
          IF x \in Range(keyOrder') THEN nodeVal'[index'[x]] ELSE None]
    BY <1>1, <1>8 DEF KeyOrderSound
  <2> QED BY <1>2, <2>1, <2>2, <2>3
<1> QED BY <1>6, <1>7, <1>8, <1>9, <1>10 DEF R!RGet

(* remove takes the key out and touches no other.                          *)
LEMMA RemoveEffect ==
    ASSUME IInv, IInv', NEW k \in Keys, RemoveKey(k)
    PROVE  R!RRemove(k)
<1>1. KeyOrderSound /\ KeyOrderSound' /\ TypeOK /\ TypeOK'
  BY KeyOrderHolds, KeyOrderHoldsNext DEF IInv
<1>2. holder = Free /\ holder' = Free /\ index[k] # None /\ Leave(index[k])
  BY DEF RemoveKey
<1>3. PICK i \in 1 .. Len(keyOrder) :
        keyOrder[i] = k /\ keyOrder' = RemoveAt(keyOrder, i)
  BY <1>2, LeaveEffect
<1>4. \A x \in Keys : index[x] # None /\ x # k =>
        index'[x] = index[x] /\ nodeVal'[index[x]] = nodeVal[index[x]]
  BY <1>2, LeaveEffect
<1>5. Arrived = keyOrder /\ Arrived' = keyOrder' /\ holder.op # "update" /\ holder'.op # "update"
  BY <1>1, <1>2, ArrivedCases, ArrivedCasesNext
<1>6. R!Others(k) = RemoveAt(keyOrder, i) /\ k \in R!Cached
  BY <1>1, <1>3, <1>5, OthersIs
<1>7. ArrivedValue' = [ArrivedValue EXCEPT ![k] = None]
  <2>1. \A x \in Keys : x \in Range(keyOrder') <=> x \in Range(keyOrder) /\ x # k
    BY <1>1, <1>3, RemoveAtKeeps DEF KeyOrderSound
  <2>2. ArrivedValue = [x \in Keys |->
          IF x \in Range(keyOrder) THEN nodeVal[index[x]] ELSE None]
    BY <1>1, <1>5 DEF KeyOrderSound
  <2>3. ArrivedValue' = [x \in Keys |->
          IF x \in Range(keyOrder') THEN nodeVal'[index'[x]] ELSE None]
    BY <1>1, <1>5 DEF KeyOrderSound
  <2>4. \A x \in Keys : x \in Range(keyOrder) => index[x] # None
    BY <1>1 DEF KeyOrderSound
  <2> QED BY <1>4, <2>1, <2>2, <2>3, <2>4
<1> QED BY <1>3, <1>5, <1>6, <1>7 DEF R!RRemove

(* An update makes its key the most recently used one in its first step.   *)
LEMMA UpdateUnlinkEffect ==
    ASSUME IInv, IInv', NEW k \in Keys, NEW v \in Values, UpdateUnlink(k, v)
    PROVE  R!RUpdate(k, v)
<1>1. KeyOrderSound /\ KeyOrderSound' /\ TypeOK /\ TypeOK'
  BY KeyOrderHolds, KeyOrderHoldsNext DEF IInv
<1>2. /\ holder = Free /\ index[k] # None /\ Leave(index[k])
      /\ holder'.op = "update" /\ holder'.key = k /\ holder'.value = v
  BY DEF UpdateUnlink, Updating
<1>3. PICK i \in 1 .. Len(keyOrder) :
        keyOrder[i] = k /\ keyOrder' = RemoveAt(keyOrder, i)
  BY <1>2, LeaveEffect
<1>4. \A x \in Keys : index[x] # None /\ x # k =>
        index'[x] = index[x] /\ nodeVal'[index[x]] = nodeVal[index[x]]
  BY <1>2, LeaveEffect
<1>5. Arrived = keyOrder /\ Arrived' = Append(keyOrder', k) /\ holder.op # "update"
  BY <1>1, <1>2, ArrivedCases, ArrivedCasesNext
<1>6. R!Others(k) = RemoveAt(keyOrder, i) /\ k \in R!Cached
  BY <1>1, <1>3, <1>5, OthersIs
<1>7. ArrivedValue' = [ArrivedValue EXCEPT ![k] = v]
  <2>1. \A x \in Keys : x \in Range(keyOrder') <=> x \in Range(keyOrder) /\ x # k
    BY <1>1, <1>3, RemoveAtKeeps DEF KeyOrderSound
  <2>2. \A x \in Keys : x \in Range(Arrived') <=> x \in Range(keyOrder) \/ x = k
    <3>1. Range(Arrived') = Range(keyOrder') \cup {k}
      BY <1>1, <1>5, AppendKeeps DEF KeyOrderSound
    <3>2. k \in Range(keyOrder)
      BY <1>1, <1>2 DEF KeyOrderSound
    <3> QED BY <2>1, <3>1, <3>2
  <2>3. ArrivedValue = [x \in Keys |->
          IF x \in Range(keyOrder) THEN nodeVal[index[x]] ELSE None]
    BY <1>1, <1>5 DEF KeyOrderSound
  <2>4. ArrivedValue' = [x \in Keys |-> IF x = k THEN v
          ELSE IF x \in Range(Arrived') THEN nodeVal'[index'[x]] ELSE None]
    BY <1>1, <1>2 DEF KeyOrderSound
  <2>5. \A x \in Keys : x \in Range(keyOrder) => index[x] # None
    BY <1>1 DEF KeyOrderSound
  <2> QED BY <1>4, <2>2, <2>3, <2>4, <2>5
<1> QED BY <1>3, <1>5, <1>6, <1>7 DEF R!RUpdate

(* What a step that allocates a node does to the order and the values.     *)
LEMMA EnterEffect ==
    ASSUME IInv, IInv', NEW k \in Keys, NEW v \in Values, index[k] = None, Enter(k, v)
    PROVE  /\ keyOrder' = Append(keyOrder, k)
           /\ k \notin Range(keyOrder)
           /\ nodeVal'[index'[k]] = v
           /\ \A x \in Keys : index[x] # None /\ x # k =>
                 index'[x] = index[x] /\ nodeVal'[index[x]] = nodeVal[index[x]]
<1>1. KeyOrderSound /\ KeyOrderSound' /\ TypeOK /\ IndexOwnsNodes /\ ListOrdersNodes
  BY KeyOrderHolds, KeyOrderHoldsNext DEF IInv
<1>2. PICK n \in Nodes \ live :
        /\ nodes' = Append(nodes, n)
        /\ index' = [index EXCEPT ![k] = n]
        /\ nodeKey' = [nodeKey EXCEPT ![n] = k]
        /\ nodeVal' = [nodeVal EXCEPT ![n] = v]
  BY <1>1, EnterStep
<1>3. nodes \in Seq(Nodes) /\ n \notin Range(nodes)
  BY <1>1, <1>2, NodesCount DEF ListOrdersNodes
<1>3a. nodeKey \in [Nodes -> Keys \cup {None}]
  BY <1>1 DEF TypeOK
<1>4. keyOrder' = Append(keyOrder, k)
  BY <1>1, <1>2, <1>3, <1>3a, KeyEnters
<1>5. k \notin Range(keyOrder)
  BY <1>1 DEF KeyOrderSound
<1>6. nodeVal'[index'[k]] = v
  BY <1>1, <1>2 DEF TypeOK
<1>7. ASSUME NEW x \in Keys, index[x] # None, x # k
      PROVE  index'[x] = index[x] /\ nodeVal'[index[x]] = nodeVal[index[x]]
  BY <1>1, <1>2, <1>7 DEF TypeOK, IndexOwnsNodes
<1> QED BY <1>4, <1>5, <1>6, <1>7

(* An insertion puts its key last and, if the cache was full, the least    *)
(* recently used key leaves.                                               *)
LEMMA InsertNewEffect ==
    ASSUME IInv, IInv', NEW k \in Keys, NEW v \in Values, InsertNew(k, v)
    PROVE  R!RInsert(k, v)
<1>1. KeyOrderSound /\ KeyOrderSound' /\ TypeOK /\ TypeOK'
  BY KeyOrderHolds, KeyOrderHoldsNext DEF IInv
<1>2. /\ holder = Free /\ index[k] = None /\ Enter(k, v)
      /\ holder' = Evicting
  BY DEF InsertNew
<1>3. /\ keyOrder' = Append(keyOrder, k) /\ k \notin Range(keyOrder)
      /\ nodeVal'[index'[k]] = v
      /\ \A x \in Keys : index[x] # None /\ x # k =>
            index'[x] = index[x] /\ nodeVal'[index[x]] = nodeVal[index[x]]
  BY <1>2, EnterEffect
<1>4. /\ Arrived = keyOrder /\ holder.op # "update" /\ holder'.op # "update"
      /\ Arrived' = IF size' > Capacity THEN Tail(keyOrder') ELSE keyOrder'
  BY <1>1, <1>2, ArrivedCases, ArrivedCasesNext
<1>5. k \notin R!Cached
  BY <1>3, <1>4, SameLibrary DEF R!Cached
<1>6. Arrived' = LET used == Append(Arrived, k)
                 IN  IF Len(used) > Capacity THEN Tail(used) ELSE used
  BY <1>1, <1>3, <1>4 DEF KeyOrderSound
<1>7. ArrivedValue' = [x \in Keys |-> IF x \notin Range(Arrived') THEN None
                                      ELSE IF x = k THEN v ELSE ArrivedValue[x]]
  <2>1. ArrivedValue = [x \in Keys |->
          IF x \in Range(keyOrder) THEN nodeVal[index[x]] ELSE None]
    BY <1>1, <1>4 DEF KeyOrderSound
  <2>2. ArrivedValue' = [x \in Keys |->
          IF x \in Range(Arrived') THEN nodeVal'[index'[x]] ELSE None]
    BY <1>1, <1>4 DEF KeyOrderSound
  <2>3. Range(Arrived') \subseteq Range(keyOrder) \cup {k}
    <3>1. keyOrder' \in Seq(Keys) /\ keyOrder' # <<>> /\ Range(keyOrder') = Range(keyOrder) \cup {k}
      BY <1>1, <1>3, AppendKeeps DEF KeyOrderSound
    <3>2. Range(Tail(keyOrder')) \subseteq Range(keyOrder')
      BY <3>1, TailKeeps
    <3> QED BY <1>4, <3>1, <3>2
  <2>4. \A x \in Keys : x \in Range(keyOrder) => index[x] # None
    BY <1>1 DEF KeyOrderSound
  <2> QED BY <1>3, <2>1, <2>2, <2>3, <2>4
<1> QED BY <1>5, <1>6, <1>7, SameLibrary DEF R!RInsert

(* The rest of an update changes nothing a caller is promised ...          *)
LEMMA UpdateRelinkEffect ==
    ASSUME IInv, IInv', UpdateRelink
    PROVE  UNCHANGED <<Arrived, ArrivedValue>>
<1>1. KeyOrderSound /\ KeyOrderSound' /\ TypeOK /\ TypeOK'
  BY KeyOrderHolds, KeyOrderHoldsNext DEF IInv
<1> DEFINE k == holder.key
           v == holder.value
<1>2. /\ holder.op = "update" /\ k \in Keys /\ v \in Values
      /\ index[k] = None /\ Enter(k, v) /\ holder' = Free
  BY <1>1, HolderCases DEF UpdateRelink, IInv, UpdateHasRoom
<1>3. /\ keyOrder' = Append(keyOrder, k) /\ k \notin Range(keyOrder)
      /\ nodeVal'[index'[k]] = v
      /\ \A x \in Keys : index[x] # None /\ x # k =>
            index'[x] = index[x] /\ nodeVal'[index[x]] = nodeVal[index[x]]
  BY <1>2, EnterEffect
<1>4. Arrived = Append(keyOrder, k) /\ Arrived' = keyOrder' /\ holder'.op # "update"
  BY <1>1, <1>2, ArrivedCases, ArrivedCasesNext
<1>5. ArrivedValue' = ArrivedValue
  <2>1. ArrivedValue = [x \in Keys |-> IF x = k THEN v
          ELSE IF x \in Range(Arrived) THEN nodeVal[index[x]] ELSE None]
    BY <1>1, <1>2 DEF KeyOrderSound
  <2>2. ArrivedValue' = [x \in Keys |->
          IF x \in Range(Arrived) THEN nodeVal'[index'[x]] ELSE None]
    BY <1>1, <1>3, <1>4 DEF KeyOrderSound
  <2>3. Range(Arrived) = Range(keyOrder) \cup {k}
    BY <1>1, <1>2, <1>4, AppendKeeps DEF KeyOrderSound
  <2>4. \A x \in Keys : x \in Range(keyOrder) => index[x] # None
    BY <1>1 DEF KeyOrderSound
  <2> HIDE DEF k, v
  <2> QED BY <1>3, <2>1, <2>2, <2>3, <2>4
<1> QED BY <1>3, <1>4, <1>5

(* ... nor does the eviction at the end of an insertion ...                *)
LEMMA EvictTailEffect ==
    ASSUME IInv, IInv', EvictTail
    PROVE  UNCHANGED <<Arrived, ArrivedValue>>
<1>1. KeyOrderSound /\ KeyOrderSound' /\ TypeOK /\ TypeOK' /\ Len(nodes) \in Nat
  BY KeyOrderHolds, KeyOrderHoldsNext, NodesCount DEF IInv
<1>2. /\ holder = Evicting /\ holder' = Evicting /\ size > Capacity
      /\ list.tail # None /\ Leave(list.tail) /\ Shrink
  BY DEF EvictTail, MustEvict
<1>3. list.tail = nodes[1] /\ nodes # <<>> /\ 1 \in 1 .. Len(nodes)
  <2>1. list \in Lists /\ Orders(list, nodes)
    BY DEF IInv, TypeOK, Lists, ListOrdersNodes
  <2>2. nodes # <<>>
    BY <1>2, <2>1, OrderFacts
  <2> QED BY <2>1, <2>2, OrderFacts, Neighbours DEF Orders, Follows
<1> DEFINE k == keyOrder[1]
<1>4. 1 \in 1 .. Len(keyOrder) /\ keyOrder \in Seq(Keys) /\ k \in Keys /\ index[k] = list.tail
  BY <1>1, <1>3 DEF KeyOrderSound
<1>5. index[k] # None /\ Leave(index[k])
  BY <1>2, <1>4
<1> HIDE DEF k
<1>6. PICK i \in 1 .. Len(keyOrder) :
        keyOrder[i] = k /\ keyOrder' = RemoveAt(keyOrder, i)
  BY <1>4, <1>5, LeaveEffect
<1>7. \A x \in Keys : index[x] # None /\ x # k =>
        index'[x] = index[x] /\ nodeVal'[index[x]] = nodeVal[index[x]]
  BY <1>4, <1>5, LeaveEffect
<1>8. i = 1
  <2>1. DOMAIN keyOrder = 1 .. Len(keyOrder) /\ IsInjective(keyOrder)
    BY <1>1 DEF KeyOrderSound
  <2> QED BY <1>4, <1>6, <2>1 DEF IsInjective, k
<1>9. keyOrder' = Tail(keyOrder)
  BY <1>4, <1>6, <1>8, FirstRemoved
<1>10. size' <= Capacity
  BY <1>1, <1>2, SizeSteps, CapacityAssumption DEF IInv, SizeBound
<1>11. Arrived = Tail(keyOrder) /\ Arrived' = keyOrder' /\ holder.op # "update" /\ holder'.op # "update"
  <2>1. ~(size' > Capacity)
    BY <1>1, <1>10, CapacityAssumption DEF TypeOK
  <2> QED BY <1>1, <1>2, <2>1, ArrivedCases, ArrivedCasesNext
<1>12. ArrivedValue' = ArrivedValue
  <2>1. ArrivedValue = [x \in Keys |->
          IF x \in Range(Arrived) THEN nodeVal[index[x]] ELSE None]
    BY <1>1, <1>11 DEF KeyOrderSound
  <2>2. ArrivedValue' = [x \in Keys |->
          IF x \in Range(Arrived) THEN nodeVal'[index'[x]] ELSE None]
    BY <1>1, <1>9, <1>11 DEF KeyOrderSound
  <2>3. \A x \in Keys : x \in Range(Arrived) => x \in Range(keyOrder) /\ x # k
    <3>1. keyOrder # <<>> /\ Head(keyOrder) = k
      BY <1>4 DEF k
    <3>2. Range(Tail(keyOrder)) \subseteq Range(keyOrder) /\ k \notin Range(Tail(keyOrder))
      BY <1>1, <3>1, TailKeeps DEF KeyOrderSound
    <3> QED BY <1>11, <3>2
  <2>4. \A x \in Keys : x \in Range(keyOrder) => index[x] # None
    BY <1>1 DEF KeyOrderSound
  <2> QED BY <1>7, <2>1, <2>2, <2>3, <2>4
<1> QED BY <1>9, <1>11, <1>12

(* ... nor the return of insert.                                           *)
LEMMA InsertReturnEffect ==
    ASSUME IInv, IInv', InsertReturn
    PROVE  UNCHANGED <<Arrived, ArrivedValue>>
<1>1. KeyOrderSound /\ KeyOrderSound' /\ TypeOK /\ TypeOK'
  BY KeyOrderHolds, KeyOrderHoldsNext DEF IInv
<1>2. /\ holder = Evicting /\ holder' = Free /\ ~(size > Capacity)
      /\ UNCHANGED <<index, list, nodeKey, nodeVal, live, size>>
  BY <1>1, CapacityAssumption DEF InsertReturn, TypeOK
<1>3. keyOrder' = keyOrder
  BY <1>2 DEF keyOrder
<1>4. Arrived = keyOrder /\ Arrived' = keyOrder /\ holder.op # "update" /\ holder'.op # "update"
  BY <1>1, <1>2, <1>3, ArrivedCases, ArrivedCasesNext
<1>5. ArrivedValue' = ArrivedValue
  <2>1. ArrivedValue = [x \in Keys |->
          IF x \in Range(Arrived) THEN nodeVal[index[x]] ELSE None]
    BY <1>1, <1>4 DEF KeyOrderSound
  <2>2. ArrivedValue' = [x \in Keys |->
          IF x \in Range(Arrived) THEN nodeVal[index[x]] ELSE None]
    BY <1>1, <1>2, <1>4 DEF KeyOrderSound
  <2> QED BY <2>1, <2>2
<1> QED BY <1>4, <1>5

(* clear empties the order and the values.                                 *)
LEMMA ClearEffect ==
    ASSUME IInv, IInv', Clear
    PROVE  R!RClear
<1>1. KeyOrderSound' /\ TypeOK /\ TypeOK'
  BY KeyOrderHoldsNext DEF IInv
<1>2. holder = Free /\ holder' = Free /\ nodes' = <<>>
  BY ClearKeepsIInv DEF Clear
<1>3. keyOrder' = <<>>
  <2>1. keyOrder' \in Seq(Keys) /\ Len(keyOrder') = Len(nodes') /\ Len(nodes') = 0
    BY <1>1, <1>2 DEF KeyOrderSound
  <2> QED BY <2>1
<1>4. Arrived' = <<>> /\ holder'.op # "update"
  BY <1>1, <1>2, <1>3, ArrivedCasesNext
<1>5. ArrivedValue' = [x \in Keys |-> None]
  <2>1. ArrivedValue' = [x \in Keys |->
          IF x \in Range(<<>>) THEN nodeVal'[index'[x]] ELSE None]
    BY <1>1, <1>4 DEF KeyOrderSound
  <2>2. Range(<<>>) = {}
    BY DEF Range
  <2> QED BY <2>1, <2>2
<1> QED BY <1>4, <1>5 DEF R!RClear

(* A cache without entries promises none.                                  *)
LEMMA InitEffect == Init => R!RInit
<1> SUFFICES ASSUME Init PROVE R!RInit
  OBVIOUS
<1>1. IInv /\ KeyOrderSound /\ TypeOK
  BY InitIInv, KeyOrderHolds DEF IInv
<1>2. holder = Free /\ size = 0
  BY DEF Init
<1>3. Arrived = <<>> /\ holder.op # "update"
  BY <1>1, <1>2, ArrivedCases DEF KeyOrderSound
<1>4. ArrivedValue = [x \in Keys |-> None]
  <2>1. ArrivedValue = [x \in Keys |->
          IF x \in Range(<<>>) THEN nodeVal[index[x]] ELSE None]
    BY <1>1, <1>3 DEF KeyOrderSound
  <2>2. Range(<<>>) = {}
    BY DEF Range
  <2> QED BY <2>1, <2>2
<1> QED BY <1>3, <1>4 DEF R!RInit

(* A miss, and what leaves every variable as it was, is not seen.          *)
LEMMA UnseenEffect ==
    ASSUME UNCHANGED <<index, list, nodeKey, nodeVal, live, size, holder>>
    PROVE  UNCHANGED <<Arrived, ArrivedValue>>
<1>1. keyOrder' = keyOrder
  BY DEF keyOrder
<1>2. Arrived' = Arrived
  BY <1>1 DEF Arrived, MustEvict
<1> QED BY <1>2 DEF ArrivedValue

-----------------------------------------------------------------------------
(* get, insert (new and known key), remove and clear each do in one step   *)
(* what LruRecency says of the call, and the steps that follow the first   *)
(* of an insert change nothing a caller could see.                         *)
THEOREM EachCallTakesEffect == Spec => CallsTakeEffect
<1> DEFINE Effects ==
        /\ \A k \in Keys : /\ GetHit(k) => R!RGet(k)
                           /\ RemoveKey(k) => R!RRemove(k)
        /\ \A k \in Keys, v \in Values : /\ InsertNew(k, v) => R!RInsert(k, v)
                                         /\ UpdateUnlink(k, v) => R!RUpdate(k, v)
        /\ Clear => R!RClear
        /\ HolderStep => UNCHANGED <<Arrived, ArrivedValue>>
<1>1. IInv /\ IInv' => Effects
  BY GetHitEffect, RemoveEffect, InsertNewEffect, UpdateUnlinkEffect, ClearEffect,
     UpdateRelinkEffect, EvictTailEffect, InsertReturnEffect DEF HolderStep
<1>2. IInv /\ IInv' => [Effects]_vars
  BY <1>1
<1> QED BY Invariant, <1>2, PTL DEF CallsTakeEffect

(* The pointer program is a recency order: the least recently used key is  *)
(* evicted and no other, and every answer is the last value inserted.      *)
THEOREM RecencyRefined == Spec => ImplementsRecency
<1>1. IInv /\ IInv' /\ [Next]_vars => [R!RNext]_<<Arrived, ArrivedValue>>
  <2> SUFFICES ASSUME IInv, IInv', [Next]_vars
               PROVE  [R!RNext]_<<Arrived, ArrivedValue>>
    OBVIOUS
  <2>1. CASE \E k \in Keys : GetHit(k)
    BY <2>1, GetHitEffect DEF R!RNext
  <2>2. CASE \E k \in Keys : GetMiss(k)
    BY <2>2, UnseenEffect DEF GetMiss
  <2>3. CASE \E k \in Keys : RemoveKey(k)
    BY <2>3, RemoveEffect DEF R!RNext
  <2>4. CASE \E k \in Keys, v \in Values : InsertNew(k, v)
    BY <2>4, InsertNewEffect DEF R!RNext
  <2>5. CASE \E k \in Keys, v \in Values : UpdateUnlink(k, v)
    BY <2>5, UpdateUnlinkEffect DEF R!RNext
  <2>6. CASE Clear
    BY <2>6, ClearEffect DEF R!RNext
  <2>7. CASE HolderStep
    BY <2>7, UpdateRelinkEffect, EvictTailEffect, InsertReturnEffect DEF HolderStep
  <2>8. CASE UNCHANGED vars
    BY <2>8, UnseenEffect DEF vars
  <2> QED BY <2>1, <2>2, <2>3, <2>4, <2>5, <2>6, <2>7, <2>8 DEF Next
<1> QED BY Invariant, InitEffect, <1>1, PTL DEF Spec, ImplementsRecency, R!RSpec
=============================================================================
