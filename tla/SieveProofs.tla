---------------------------- MODULE SieveProofs ----------------------------
(***************************************************************************)
(* Theorems about the SIEVE cache for every set of keys, values and nodes  *)
(* and every capacity, 0 included.                                         *)
(*                                                                         *)
(* Memory safety never speaks of the list as a whole.  What each operation *)
(* needs to know of a node are its two neighbours, and the local facts in  *)
(* Structure say enough about them to be kept by linking at the head and   *)
(* by unlinking anywhere.  Two more facts close the invariant: the key of  *)
(* an update under way is not in the index, so that relinking it gives it  *)
(* one node; and the head is unvisited while an insertion evicts, so that  *)
(* the sweep has a node to look at in every turn.                          *)
(*                                                                         *)
(* The chain and the refinement of SieveQueue do need the list as a whole: *)
(* RInv adds that some sequence of the live nodes is what the links        *)
(* follow.                                                                 *)
(***************************************************************************)
EXTENDS SieveRefinement, QueueProofs

Structure == NoDangling /\ IndexOwnsNodes /\ LinksAgree

UpdatedKeyIsOut == holder.op = "update" => index[holder.key] = None

IInv == TypeOK /\ Structure /\ SizeBound /\ SweepStopsAtHead /\ UpdatedKeyIsOut

-----------------------------------------------------------------------------
(* The allocated nodes are finitely many, and each allocation or free       *)
(* changes their number by one.                                             *)
LEMMA LiveCounts ==
    ASSUME TypeOK
    PROVE  /\ IsFiniteSet(live)
           /\ Cardinality(live) \in Nat
           /\ \A n \in Nodes \ live : Cardinality(live \cup {n}) = Cardinality(live) + 1
           /\ \A n \in live : Cardinality(live \ {n}) = Cardinality(live) - 1
<1>1. IsFiniteSet(live)
  BY NodesAssumption, FS_Subset DEF TypeOK
<1>2. Cardinality(live) \in Nat
  BY <1>1, FS_CardinalityType
<1>3. \A n \in Nodes \ live : Cardinality(live \cup {n}) = Cardinality(live) + 1
  BY <1>1, FS_AddElement
<1>4. \A n \in live : Cardinality(live \ {n}) = Cardinality(live) - 1
  BY <1>1, FS_RemoveElement
<1> QED
  BY <1>1, <1>2, <1>3, <1>4

(* Updating a function at a point, of its domain or not, keeps its type.    *)
LEMMA ExceptKeepsType ==
    ASSUME NEW D, NEW T, NEW f \in [D -> T], NEW x, NEW y \in T
    PROVE  [f EXCEPT ![x] = y] \in [D -> T]
  OBVIOUS

(* What the lock holder can be doing.                                       *)
LEMMA HolderCases ==
    ASSUME TypeOK
    PROVE  /\ Free.op = "none" /\ Evicting.op = "evict"
           /\ \A k, v : Updating(k, v).op = "update"
           /\ holder.op = "update" => holder.key \in Keys /\ holder.value \in Values
           /\ holder = Evicting \/ holder = Free \/ holder.op = "update"
  BY DEF TypeOK, Free, Evicting, Updating

(* Linking a new node for a key without one keeps the structure.            *)
LEMMA LinkKeepsStructure ==
    ASSUME TypeOK, Structure,
           NEW k \in Keys, NEW v \in Values, NEW n \in Nodes,
           index[k] = None, LinkAtHead(n, k, v), hand' = hand
    PROVE  Structure'
<1> USE NoneAssumption DEF TypeOK, Structure, LinkAtHead
<1>1. NoDangling'
  BY DEF NoDangling
<1>2. IndexOwnsNodes'
  BY DEF IndexOwnsNodes, NoDangling
<1>3. LinksAgree'
  <2>1. (head' = None) <=> (tail' = None)
    BY DEF LinksAgree
  <2>2. ASSUME NEW m \in live'
        PROVE  /\ (prev'[m] = None) <=> (m = head')
               /\ (next'[m] = None) <=> (m = tail')
               /\ prev'[m] # None => next'[prev'[m]] = m
               /\ next'[m] # None => prev'[next'[m]] = m
    <3>1. CASE m = n
      BY <3>1 DEF LinksAgree, NoDangling
    <3>2. CASE m # n
      BY <2>2, <3>2 DEF LinksAgree, NoDangling
    <3> QED
      BY <3>1, <3>2
  <2> QED
    BY <2>1, <2>2 DEF LinksAgree
<1> QED
  BY <1>1, <1>2, <1>3

(* Unlinking and freeing any node keeps the structure, wherever among the   *)
(* allocated nodes the hand was.                                            *)
LEMMA UnlinkKeepsStructure ==
    ASSUME TypeOK, Structure,
           NEW n \in live, NEW h \in live \cup {None}, UnlinkAndFree(n, h)
    PROVE  Structure'
<1> USE NoneAssumption DEF TypeOK, Structure, UnlinkAndFree
<1>1. /\ n \in Nodes
      /\ prev[n] \in live \cup {None} /\ next[n] \in live \cup {None}
      /\ nodeKey[n] \in Keys /\ index[nodeKey[n]] = n
  BY DEF NoDangling, IndexOwnsNodes
<1>2. hand' \in live' \cup {None}
  BY <1>1 DEF NoDangling, LinksAgree, HandAfterUnlink
<1>3. NoDangling'
  <2>1. \A k \in Keys : index'[k] \in live' \cup {None}
    BY <1>1 DEF NoDangling, IndexOwnsNodes
  <2>2. head' \in live' \cup {None} /\ tail' \in live' \cup {None}
    BY <1>1 DEF NoDangling, LinksAgree
  <2>3. \A m \in live' : prev'[m] \in live' \cup {None} /\ next'[m] \in live' \cup {None}
    BY <1>1 DEF NoDangling, LinksAgree
  <2> QED
    BY <1>2, <2>1, <2>2, <2>3 DEF NoDangling
<1>4. IndexOwnsNodes'
  BY <1>1 DEF IndexOwnsNodes, NoDangling
<1>5. LinksAgree'
  <2>1. (head' = None) <=> (tail' = None)
    BY <1>1 DEF LinksAgree, NoDangling
  <2>2. ASSUME NEW m \in live'
        PROVE  /\ (prev'[m] = None) <=> (m = head')
               /\ prev'[m] # None => next'[prev'[m]] = m
    BY <1>1, <2>2 DEF LinksAgree, NoDangling
  <2>3. ASSUME NEW m \in live'
        PROVE  /\ (next'[m] = None) <=> (m = tail')
               /\ next'[m] # None => prev'[next'[m]] = m
    BY <1>1, <2>3 DEF LinksAgree, NoDangling
  <2> QED
    BY <2>1, <2>2, <2>3 DEF LinksAgree
<1> QED
  BY <1>3, <1>4, <1>5

-----------------------------------------------------------------------------
(* The two list operations also keep the types.                             *)
LEMMA LinkKeepsTypes ==
    ASSUME TypeOK, NEW k \in Keys, NEW v \in Values, NEW n \in Nodes,
           LinkAtHead(n, k, v)
    PROVE  /\ index' \in [Keys -> Nodes \cup {None}]
           /\ head' \in Nodes \cup {None} /\ tail' \in Nodes \cup {None}
           /\ prev' \in [Nodes -> Nodes \cup {None}]
           /\ next' \in [Nodes -> Nodes \cup {None}]
           /\ nodeKey' \in [Nodes -> Keys \cup {None}]
           /\ nodeVal' \in [Nodes -> Values \cup {None}]
           /\ visited' \in [Nodes -> BOOLEAN]
           /\ live' \in SUBSET Nodes
  BY DEF TypeOK, LinkAtHead

LEMMA UnlinkKeepsTypes ==
    ASSUME TypeOK, NEW n \in Nodes, NEW h \in Nodes \cup {None}, UnlinkAndFree(n, h)
    PROVE  /\ index' \in [Keys -> Nodes \cup {None}]
           /\ head' \in Nodes \cup {None} /\ tail' \in Nodes \cup {None}
           /\ hand' \in Nodes \cup {None}
           /\ prev' \in [Nodes -> Nodes \cup {None}]
           /\ next' \in [Nodes -> Nodes \cup {None}]
           /\ nodeKey' \in [Nodes -> Keys \cup {None}]
           /\ nodeVal' \in [Nodes -> Values \cup {None}]
           /\ visited' \in [Nodes -> BOOLEAN]
           /\ live' \in SUBSET Nodes
<1> USE DEF TypeOK, UnlinkAndFree
<1>1. index' \in [Keys -> Nodes \cup {None}]
  <2>1. index' = [index EXCEPT ![nodeKey[n]] = None] /\ index \in [Keys -> Nodes \cup {None}]
    OBVIOUS
  <2>2. None \in Nodes \cup {None}
    OBVIOUS
  <2> QED
    BY ONLY <2>1, <2>2, ExceptKeepsType, Zenon
<1>2. /\ head' \in Nodes \cup {None} /\ tail' \in Nodes \cup {None}
      /\ hand' \in Nodes \cup {None}
  BY DEF HandAfterUnlink
<1>3. /\ prev' \in [Nodes -> Nodes \cup {None}]
      /\ next' \in [Nodes -> Nodes \cup {None}]
  OBVIOUS
<1>4. /\ nodeKey' \in [Nodes -> Keys \cup {None}]
      /\ nodeVal' \in [Nodes -> Values \cup {None}]
  OBVIOUS
<1>5. visited' \in [Nodes -> BOOLEAN] /\ live' \in SUBSET Nodes
  OBVIOUS
<1> QED
  BY <1>1, <1>2, <1>3, <1>4, <1>5

(* While size is within its width, growing adds and shrinking takes one.    *)
LEMMA SizeSteps ==
    ASSUME TypeOK
    PROVE  /\ Grow => size' \in 0 .. UsizeMod - 1
           /\ Shrink => size' \in 0 .. UsizeMod - 1
           /\ Grow /\ size <= Capacity => size' = size + 1
           /\ Shrink /\ size > 0 => size' = size - 1
  BY UsizeAssumption, CapacityAssumption DEF TypeOK, Grow, Shrink

LEMMA CountKeepsTypes ==
    ASSUME TypeOK, NEW c \in CounterNames, Count(c)
    PROVE  stats' \in [CounterNames -> 0 .. CounterMod - 1]
  BY CounterAssumption DEF TypeOK, Count

-----------------------------------------------------------------------------
LEMMA InitIInv == Init => IInv
<1> SUFFICES ASSUME Init PROVE IInv
  OBVIOUS
<1>1. TypeOK
  BY UsizeAssumption, CapacityAssumption, CounterAssumption DEF Init, TypeOK, CounterNames
<1>2. Structure
  BY DEF Init, Structure, NoDangling, IndexOwnsNodes, LinksAgree
<1>3. Cardinality(live) = 0
  BY FS_EmptySet DEF Init
<1>4. holder = Free /\ Free.op = "none" /\ Free # Evicting
  BY DEF Init, Free, Evicting
<1> QED
  BY <1>1, <1>2, <1>3, <1>4, CapacityAssumption
  DEF Init, IInv, SizeBound, SweepStopsAtHead, MustEvict, UpdatedKeyIsOut

(* A hit or a miss changes no link and no count of entries.                 *)
LEMMA GetKeepsIInv ==
    ASSUME IInv, NEW k \in Keys, GetHit(k) \/ GetMiss(k) PROVE IInv'
<1> USE NoneAssumption DEF IInv
<1>1. Free.op = "none" /\ Free # Evicting
  BY DEF Free, Evicting
<1>2. stats' \in [CounterNames -> 0 .. CounterMod - 1]
  BY CountKeepsTypes DEF GetHit, GetMiss, CounterNames
<1>3. TypeOK'
  <2>1. visited' \in [Nodes -> BOOLEAN]
    BY ExceptKeepsType DEF TypeOK, GetHit, GetMiss
  <2> QED
    BY <1>2, <2>1 DEF TypeOK, GetHit, GetMiss, list, content
<1>4. Structure'
  BY DEF Structure, NoDangling, IndexOwnsNodes, LinksAgree, GetHit, GetMiss, list, content
<1>5. SizeBound' /\ SweepStopsAtHead' /\ UpdatedKeyIsOut'
  BY <1>1 DEF SizeBound, SweepStopsAtHead, UpdatedKeyIsOut, MustEvict, GetHit, GetMiss, list
<1> QED
  BY <1>3, <1>4, <1>5

(* An insertion of a new key brings the cache at most one over capacity,    *)
(* with the new entry, unvisited, at the head.                              *)
LEMMA InsertNewKeepsIInv ==
    ASSUME IInv, NEW k \in Keys, NEW v \in Values, InsertNew(k, v) PROVE IInv'
<1> USE NoneAssumption DEF IInv
<1>1. PICK n \in Nodes : LinkAtHead(n, k, v)
  BY DEF InsertNew
<1>2. stats' \in [CounterNames -> 0 .. CounterMod - 1]
  BY CountKeepsTypes DEF InsertNew, CounterNames
<1>3. TypeOK'
  BY <1>1, <1>2, LinkKeepsTypes, SizeSteps DEF TypeOK, InsertNew
<1>4. Structure'
  BY <1>1, LinkKeepsStructure DEF InsertNew
<1>5. SizeBound'
  <2>1. size \in Nat /\ size <= Capacity /\ size' = size + 1
    BY SizeSteps, UsizeAssumption DEF InsertNew, SizeBound, TypeOK, Free, Evicting
  <2>2. Cardinality(live') = Cardinality(live) + 1
    BY <1>1, LiveCounts DEF LinkAtHead
  <2> QED
    BY <2>1, <2>2, HolderCases, CapacityAssumption DEF SizeBound, InsertNew, Evicting
<1>6. SweepStopsAtHead' /\ UpdatedKeyIsOut'
  BY <1>1 DEF SweepStopsAtHead, UpdatedKeyIsOut, InsertNew, LinkAtHead, TypeOK, Evicting
<1> QED
  BY <1>3, <1>4, <1>5, <1>6

(* An update first takes one entry out ...                                  *)
LEMMA UpdateUnlinkKeepsIInv ==
    ASSUME IInv, NEW k \in Keys, NEW v \in Values, UpdateUnlink(k, v) PROVE IInv'
<1> USE NoneAssumption DEF IInv
<1>1. index[k] \in live /\ nodeKey[index[k]] = k /\ hand \in live \cup {None}
  BY DEF UpdateUnlink, Structure, NoDangling, IndexOwnsNodes
<1>2. index[k] \in Nodes /\ hand \in Nodes \cup {None}
  BY <1>1 DEF TypeOK
<1>3. TypeOK'
  BY <1>2, UnlinkKeepsTypes, SizeSteps DEF TypeOK, UpdateUnlink
<1>4. Structure'
  BY <1>1, UnlinkKeepsStructure DEF UpdateUnlink
<1>5. holder' = Updating(k, v) /\ holder'.op = "update" /\ holder'.key = k
  BY DEF UpdateUnlink, Updating
<1>6. SizeBound'
  <2>1. size \in Nat /\ size <= Capacity
    BY CapacityAssumption, UsizeAssumption DEF UpdateUnlink, SizeBound, TypeOK, Free, Evicting
  <2>2. Cardinality(live') = Cardinality(live) - 1 /\ size > 0
    <3>1. Cardinality(live \ {index[k]}) = Cardinality(live) - 1
      BY <1>1, LiveCounts
    <3>2. Cardinality(live \ {index[k]}) \in Nat
      BY LiveCounts, FS_RemoveElement, FS_CardinalityType
    <3> QED
      BY <3>1, <3>2, LiveCounts DEF UpdateUnlink, UnlinkAndFree, SizeBound
  <2>3. size' = size - 1
    BY <2>2, SizeSteps DEF UpdateUnlink
  <2> QED
    BY <2>1, <2>2, <2>3, <1>5, CapacityAssumption DEF SizeBound, Evicting
<1>7. SweepStopsAtHead' /\ UpdatedKeyIsOut'
  BY <1>1, <1>5 DEF SweepStopsAtHead, UpdatedKeyIsOut, MustEvict, Evicting, UpdateUnlink,
     UnlinkAndFree, TypeOK
<1> QED
  BY <1>3, <1>4, <1>6, <1>7

(* ... and then puts one in for the same key.                               *)
LEMMA UpdateRelinkKeepsIInv ==
    ASSUME IInv, UpdateRelink PROVE IInv'
<1> USE NoneAssumption DEF IInv
<1>1. PICK n \in Nodes : LinkAtHead(n, holder.key, holder.value)
  BY DEF UpdateRelink
<1>2. holder.key \in Keys /\ holder.value \in Values /\ index[holder.key] = None
  BY HolderCases DEF UpdateRelink, UpdatedKeyIsOut
<1>3. TypeOK'
  BY <1>1, <1>2, LinkKeepsTypes, SizeSteps DEF TypeOK, UpdateRelink
<1>4. Structure'
  BY <1>1, <1>2, LinkKeepsStructure DEF UpdateRelink
<1>5. holder' = Free /\ holder'.op = "none" /\ holder' # Evicting
  BY DEF UpdateRelink, Free, Evicting
<1>6. SizeBound'
  <2>1. size \in Nat /\ size < Capacity /\ size' = size + 1
    BY SizeSteps, CapacityAssumption, UsizeAssumption DEF UpdateRelink, SizeBound, TypeOK
  <2>2. Cardinality(live') = Cardinality(live) + 1
    BY <1>1, LiveCounts DEF LinkAtHead
  <2> QED
    BY <2>1, <2>2, <1>5, CapacityAssumption DEF SizeBound
<1> QED
  BY <1>3, <1>4, <1>5, <1>6 DEF SweepStopsAtHead, UpdatedKeyIsOut, MustEvict

(* The sweep only clears a mark and moves the hand.                         *)
LEMMA SweepVisitedKeepsIInv ==
    ASSUME IInv, SweepVisited PROVE IInv'
<1> USE NoneAssumption DEF IInv
<1>1. UnderHand \in live
  BY DEF SweepVisited, UnderHand, Structure, NoDangling
<1>2. hand' \in live \cup {None}
  BY <1>1 DEF SweepVisited, Structure, NoDangling
<1>3. TypeOK'
  <2>1. visited' \in [Nodes -> BOOLEAN]
    BY ExceptKeepsType DEF TypeOK, SweepVisited
  <2> QED
    BY <1>2, <2>1 DEF TypeOK, SweepVisited, list, content
<1>4. Structure'
  BY <1>2 DEF Structure, NoDangling, IndexOwnsNodes, LinksAgree, SweepVisited, list, content
<1>5. SizeBound' /\ UpdatedKeyIsOut'
  BY DEF SizeBound, UpdatedKeyIsOut, SweepVisited
<1>6. SweepStopsAtHead'
  BY DEF SweepStopsAtHead, MustEvict, SweepVisited, list, TypeOK
<1> QED
  BY <1>3, <1>4, <1>5, <1>6

(* The eviction brings the cache back to its capacity.                      *)
LEMMA EvictUnvisitedKeepsIInv ==
    ASSUME IInv, EvictUnvisited PROVE IInv'
<1> USE NoneAssumption DEF IInv
<1>1. UnderHand \in live /\ UnderHand \in Nodes
  BY DEF EvictUnvisited, UnderHand, Structure, NoDangling, TypeOK
<1>2. HandPast(UnderHand) \in live \cup {None}
  BY <1>1 DEF HandPast, Structure, NoDangling
<1>3. stats' \in [CounterNames -> 0 .. CounterMod - 1]
  BY CountKeepsTypes DEF EvictUnvisited, CounterNames
<1>4. TypeOK'
  BY <1>1, <1>2, <1>3, UnlinkKeepsTypes, SizeSteps DEF TypeOK, EvictUnvisited
<1>5. Structure'
  BY <1>1, <1>2, UnlinkKeepsStructure DEF EvictUnvisited
<1>6. holder = Evicting /\ holder' = Evicting /\ holder'.op = "evict"
  BY DEF EvictUnvisited, MustEvict, Evicting
<1>7. SizeBound' /\ size' <= Capacity
  <2>1. size \in Nat /\ size = Capacity + 1 /\ size = Cardinality(live)
    BY <1>6, CapacityAssumption, UsizeAssumption DEF EvictUnvisited, MustEvict, SizeBound, TypeOK
  <2>2. size' = size - 1
    BY <2>1, SizeSteps, CapacityAssumption DEF EvictUnvisited
  <2>3. Cardinality(live') = Cardinality(live) - 1
    BY <1>1, LiveCounts DEF EvictUnvisited, UnlinkAndFree
  <2>4. size' = Cardinality(live') /\ size' = Capacity
    BY <2>1, <2>2, <2>3, CapacityAssumption
  <2> QED
    BY <2>4, <1>6, CapacityAssumption DEF SizeBound
<1>8. SweepStopsAtHead' /\ UpdatedKeyIsOut'
  BY <1>4, <1>6, <1>7, CapacityAssumption DEF SweepStopsAtHead, MustEvict, UpdatedKeyIsOut, TypeOK
<1> QED
  BY <1>4, <1>5, <1>7, <1>8

LEMMA InsertReturnKeepsIInv ==
    ASSUME IInv, InsertReturn PROVE IInv'
<1> USE NoneAssumption DEF IInv
<1>1. holder' = Free /\ holder'.op = "none" /\ holder' # Evicting
  BY DEF InsertReturn, Free, Evicting
<1>2. TypeOK'
  BY <1>1 DEF TypeOK, InsertReturn, list, content
<1>3. Structure'
  BY DEF Structure, NoDangling, IndexOwnsNodes, LinksAgree, InsertReturn, list, content
<1> QED
  BY <1>1, <1>2, <1>3 DEF SizeBound, SweepStopsAtHead, UpdatedKeyIsOut, MustEvict, InsertReturn,
     TypeOK

(* A removal frees the key's node and no other.                             *)
LEMMA RemoveKeepsIInv ==
    ASSUME IInv, NEW k \in Keys, RemoveKey(k) PROVE IInv'
<1> USE NoneAssumption DEF IInv
<1>1. index[k] \in live /\ hand \in live \cup {None}
  BY DEF RemoveKey, Structure, NoDangling
<1>2. index[k] \in Nodes /\ hand \in Nodes \cup {None}
  BY <1>1 DEF TypeOK
<1>3. TypeOK'
  BY <1>2, UnlinkKeepsTypes, SizeSteps DEF TypeOK, RemoveKey
<1>4. Structure'
  BY <1>1, UnlinkKeepsStructure DEF RemoveKey
<1>5. holder' = Free /\ holder'.op = "none" /\ holder' # Evicting /\ holder = holder'
  BY DEF RemoveKey, Free, Evicting
<1>6. SizeBound'
  <2>1. Cardinality(live') = Cardinality(live) - 1 /\ size > 0
    <3>1. Cardinality(live \ {index[k]}) = Cardinality(live) - 1
      BY <1>1, LiveCounts
    <3>2. Cardinality(live \ {index[k]}) \in Nat
      BY LiveCounts, FS_RemoveElement, FS_CardinalityType
    <3> QED
      BY <3>1, <3>2, LiveCounts DEF RemoveKey, UnlinkAndFree, SizeBound
  <2>2. size' = size - 1
    BY <2>1, SizeSteps DEF RemoveKey
  <2> QED
    BY <2>1, <2>2, <1>5, CapacityAssumption, LiveCounts DEF SizeBound
<1> QED
  BY <1>3, <1>4, <1>5, <1>6 DEF SweepStopsAtHead, UpdatedKeyIsOut, MustEvict

(* Clear frees exactly the nodes in the index, which are all there are.     *)
LEMMA ClearKeepsIInv ==
    ASSUME IInv, Clear PROVE IInv'
<1> USE NoneAssumption DEF IInv
<1>1. live' = {}
  BY DEF Clear, Structure, IndexOwnsNodes
<1>2. holder' = Free /\ holder'.op = "none" /\ holder' # Evicting
  BY DEF Clear, Free, Evicting
<1>3. TypeOK'
  <2>1. /\ prev' \in [Nodes -> Nodes \cup {None}]
        /\ next' \in [Nodes -> Nodes \cup {None}]
    BY DEF TypeOK, Clear
  <2>2. /\ nodeKey' \in [Nodes -> Keys \cup {None}]
        /\ nodeVal' \in [Nodes -> Values \cup {None}]
    BY DEF TypeOK, Clear
  <2>3. visited' \in [Nodes -> BOOLEAN]
    <3>1. visited' = [n \in Nodes |-> IF n \in live' THEN visited[n] ELSE FALSE]
      BY Zenon DEF Clear
    <3> QED
      BY <3>1, <1>1
  <2>4. size' \in 0 .. UsizeMod - 1
    BY UsizeAssumption, CapacityAssumption DEF Clear
  <2>5. /\ index' \in [Keys -> Nodes \cup {None}]
        /\ head' = None /\ tail' = None /\ hand' = None
        /\ stats' = stats /\ holder' = holder
    BY DEF Clear
  <2> QED
    BY <1>1, <2>1, <2>2, <2>3, <2>4, <2>5 DEF TypeOK
<1>4. Structure'
  BY <1>1 DEF Structure, NoDangling, IndexOwnsNodes, LinksAgree, Clear
<1>5. SizeBound'
  <2>1. size' = 0 /\ Cardinality(live') = 0
    BY <1>1, FS_EmptySet DEF Clear
  <2> QED
    BY <1>2, <2>1, CapacityAssumption DEF SizeBound
<1> QED
  BY <1>2, <1>3, <1>4, <1>5 DEF SweepStopsAtHead, UpdatedKeyIsOut, MustEvict

LEMMA StepKeepsIInv == IInv /\ [Next]_vars => IInv'
<1> SUFFICES ASSUME IInv, [Next]_vars PROVE IInv'
  OBVIOUS
<1>1. CASE \E k \in Keys : GetHit(k) \/ GetMiss(k)
  BY <1>1, GetKeepsIInv
<1>2. CASE \E k \in Keys : RemoveKey(k)
  BY <1>2, RemoveKeepsIInv
<1>3. CASE \E k \in Keys, v \in Values : InsertNew(k, v)
  BY <1>3, InsertNewKeepsIInv
<1>4. CASE \E k \in Keys, v \in Values : UpdateUnlink(k, v)
  BY <1>4, UpdateUnlinkKeepsIInv
<1>5. CASE Clear
  BY <1>5, ClearKeepsIInv
<1>6. CASE HolderStep
  BY <1>6, UpdateRelinkKeepsIInv, SweepVisitedKeepsIInv, EvictUnvisitedKeepsIInv,
     InsertReturnKeepsIInv DEF HolderStep
<1>7. CASE UNCHANGED vars
  BY <1>7 DEF vars, list, content, IInv, TypeOK, Structure, NoDangling, IndexOwnsNodes,
     LinksAgree, SizeBound, SweepStopsAtHead, MustEvict, UpdatedKeyIsOut
<1> QED
  BY <1>1, <1>2, <1>3, <1>4, <1>5, <1>6, <1>7 DEF Next

LEMMA IInvHolds == Spec => []IInv
  BY InitIInv, StepKeepsIInv, PTL DEF Spec

-----------------------------------------------------------------------------
(* Every variable keeps its type: in particular size never leaves its       *)
(* width, and every pointer is a node or None.                              *)
THEOREM TypeCorrect == Spec => []TypeOK
<1>1. IInv => TypeOK
  BY DEF IInv
<1> QED
  BY IInvHolds, <1>1, PTL

(* The unsafe code of sieve.rs dereferences, links and frees only nodes     *)
(* that are allocated, and frees each once.                                 *)
THEOREM MemorySafety == Spec => [](NoDangling /\ IndexOwnsNodes /\ LinksAgree)
<1>1. IInv => NoDangling /\ IndexOwnsNodes /\ LinksAgree
  BY DEF IInv, Structure
<1> QED
  BY IInvHolds, <1>1, PTL

(* Nothing leaks and nothing is freed twice: what is allocated is what the  *)
(* index names, each node under its own key (sieve.rs 282-454).             *)
THEOREM NoLeakNoDoubleFree == Spec => []IndexOwnsNodes
BY MemorySafety, PTL

(* insert_at_head_locked and unlink_node_locked leave prev and next inverse *)
(* to each other, and the ends where head and tail say.                     *)
THEOREM LinksStayMutual == Spec => []LinksAgree
BY MemorySafety, PTL

(* len() never shows more than one entry over the capacity, and never more  *)
(* than the capacity when no insertion is evicting.                         *)
THEOREM CapacityRespected == Spec => []SizeBound
<1>1. IInv => SizeBound
  BY DEF IInv
<1> QED
  BY IInvHolds, <1>1, PTL

(* The sweep of an eviction always has a node to look at, and an unvisited  *)
(* one ahead of it.                                                         *)
THEOREM SweepFindsVictim == Spec => []SweepStopsAtHead
<1>1. IInv => SweepStopsAtHead
  BY DEF IInv
<1> QED
  BY IInvHolds, <1>1, PTL

-----------------------------------------------------------------------------
(* The statistics.                                                         *)

(* Remainders: there is one for each number, and m more does not change it.*)
LEMMA Remainder ==
    ASSUME NEW m \in Nat \ {0}, NEW x \in Int
    PROVE  (x + m) % m = x % m /\ (x - m) % m = x % m
<1>1. \A y \in Int : y = m * (y \div m) + (y % m) /\ y % m \in 0 .. m - 1 /\ y \div m \in Int
  OBVIOUS
<1>2. \A p, q \in Int, r, s \in 0 .. m - 1 : m * q + r = m * p + s => r = s
  OBVIOUS
<1>3. (x + m) % m = x % m
  <2> DEFINE q == x \div m
             r == x % m
             z == x + m
             p == z \div m
             s == z % m
  <2>1. x = m * q + r /\ r \in 0 .. m - 1 /\ q \in Int
    BY <1>1
  <2>2. z = x + m /\ z \in Int
    OBVIOUS
  <2> HIDE DEF z
  <2>3. z = m * p + s /\ s \in 0 .. m - 1 /\ p \in Int
    BY <1>1, <2>2
  <2> HIDE DEF q, r, p, s
  <2>4. m * (q + 1) + r = m * p + s /\ q + 1 \in Int
    BY <2>1, <2>2, <2>3
  <2>5. r = s
    BY <1>2, <2>1, <2>3, <2>4
  <2> QED BY <2>5 DEF r, s, z
<1>4. (x - m) % m = x % m
  <2> DEFINE q == x \div m
             r == x % m
             z == x - m
             p == z \div m
             s == z % m
  <2>1. x = m * q + r /\ r \in 0 .. m - 1 /\ q \in Int
    BY <1>1
  <2>2. z = x - m /\ z \in Int
    OBVIOUS
  <2> HIDE DEF z
  <2>3. z = m * p + s /\ s \in 0 .. m - 1 /\ p \in Int
    BY <1>1, <2>2
  <2> HIDE DEF q, r, p, s
  <2>4. m * (q - 1) + r = m * p + s /\ q - 1 \in Int
    BY <2>1, <2>2, <2>3
  <2>5. r = s
    BY <1>2, <2>1, <2>3, <2>4
  <2> QED BY <2>5 DEF r, s, z
<1> QED BY <1>3, <1>4

(* A counter that wraps is the number counted, less its width if need be.  *)
LEMMA CountIs ==
    ASSUME TypeOK, NEW c \in CounterNames, Count(c)
    PROVE  /\ stats[c] \in Int
           /\ stats'[c] = stats[c] + 1 \/ stats'[c] = stats[c] + 1 - CounterMod
           /\ \A d \in CounterNames : d # c => stats'[d] = stats[d]
<1>1. stats[c] \in 0 .. CounterMod - 1 /\ CounterMod \in Nat \ {0}
  BY CounterAssumption DEF TypeOK
<1>2. stats'[c] = IF stats[c] = CounterMod - 1 THEN 0 ELSE stats[c] + 1
  BY DEF TypeOK, Count
<1>3. \A d \in CounterNames : d # c => stats'[d] = stats[d]
  BY DEF TypeOK, Count
<1> QED BY <1>1, <1>2, <1>3

(* An insertion is counted once and adds an entry ...                      *)
LEMMA InsertNewKeepsTurnover ==
    ASSUME IInv, IInv', NEW k \in Keys, NEW v \in Values, InsertNew(k, v)
    PROVE  Turnover' = Turnover
<1>1. PICK n \in Nodes : LinkAtHead(n, k, v)
  BY DEF InsertNew
<1>2. TypeOK /\ TypeOK'
  BY DEF IInv
<1>3. /\ Cardinality(live') = Cardinality(live) + 1 /\ Cardinality(live) \in Int
      /\ holder.op # "update" /\ holder'.op # "update"
  BY <1>1, <1>2, LiveCounts DEF LinkAtHead, InsertNew, Free, Evicting
<1> DEFINE i == stats.insertions
           e == stats.evictions
           j == stats'.insertions
           x == i - e - Entries
           y == j - e - Entries'
<1>4. /\ i \in Int /\ e \in Int /\ CounterMod \in Nat \ {0}
      /\ j = i + 1 \/ j = i + 1 - CounterMod
      /\ stats'.evictions = e
  <2>1. Count("insertions") /\ "insertions" \in CounterNames /\ "evictions" \in CounterNames
    BY DEF InsertNew, CounterNames
  <2>2. stats["evictions"] \in Int
    BY <1>2, <2>1 DEF TypeOK
  <2> QED BY <1>2, <2>1, <2>2, CountIs, CounterAssumption
<1>5. Entries' = Entries + 1 /\ Entries \in Int
  BY <1>3 DEF Entries
<1>6. Turnover = x % CounterMod /\ Turnover' = y % CounterMod
  BY <1>4 DEF Turnover
<1> HIDE DEF i, e, j
<1>7. x \in Int /\ (y = x \/ y = x - CounterMod)
  BY <1>4, <1>5
<1> HIDE DEF x, y
<1> QED BY <1>4, <1>6, <1>7, Remainder

(* ... an eviction is counted once and takes one away ...                  *)
LEMMA EvictUnvisitedKeepsTurnover ==
    ASSUME IInv, IInv', EvictUnvisited
    PROVE  Turnover' = Turnover
<1>1. UnderHand \in live
  BY DEF EvictUnvisited, UnderHand, IInv, Structure, NoDangling
<1>2. TypeOK /\ TypeOK'
  BY DEF IInv
<1>3. /\ Cardinality(live') = Cardinality(live) - 1 /\ Cardinality(live) \in Int
      /\ holder.op # "update" /\ holder'.op # "update"
  BY <1>1, <1>2, LiveCounts DEF UnlinkAndFree, EvictUnvisited, MustEvict, Evicting
<1> DEFINE i == stats.insertions
           e == stats.evictions
           f == stats'.evictions
           x == i - e - Entries
           y == i - f - Entries'
<1>4. /\ i \in Int /\ e \in Int /\ CounterMod \in Nat \ {0}
      /\ f = e + 1 \/ f = e + 1 - CounterMod
      /\ stats'.insertions = i
  <2>1. Count("evictions") /\ "insertions" \in CounterNames /\ "evictions" \in CounterNames
    BY DEF EvictUnvisited, CounterNames
  <2>2. stats["insertions"] \in Int
    BY <1>2, <2>1 DEF TypeOK
  <2> QED BY <1>2, <2>1, <2>2, CountIs, CounterAssumption
<1>5. Entries' = Entries - 1 /\ Entries \in Int
  BY <1>3 DEF Entries
<1>6. Turnover = x % CounterMod /\ Turnover' = y % CounterMod
  BY <1>4 DEF Turnover
<1> HIDE DEF i, e, f
<1>7. x \in Int /\ (y = x \/ y = x + CounterMod)
  BY <1>4, <1>5
<1> HIDE DEF x, y
<1> QED BY <1>4, <1>6, <1>7, Remainder

(* ... and no other step but a removal or a clear changes either, an update *)
(* standing for its entry between the two.                                 *)
LEMMA OthersKeepTurnover ==
    ASSUME IInv, IInv',
           \/ \E k \in Keys : GetHit(k) \/ GetMiss(k)
           \/ \E k \in Keys, v \in Values : UpdateUnlink(k, v)
           \/ UpdateRelink \/ SweepVisited \/ InsertReturn
    PROVE  Turnover' = Turnover
<1>1. TypeOK /\ TypeOK' /\ Cardinality(live) \in Nat
  BY LiveCounts DEF IInv
<1>2. Entries' = Entries
  <2>1. CASE \E k \in Keys : GetHit(k) \/ GetMiss(k)
    BY <2>1 DEF GetHit, GetMiss, Entries
  <2>2. CASE \E k \in Keys, v \in Values : UpdateUnlink(k, v)
    <3>1. PICK k \in Keys, v \in Values : UpdateUnlink(k, v)
      BY <2>2
    <3>2. index[k] \in live
      BY <3>1 DEF UpdateUnlink, IInv, Structure, NoDangling
    <3>3. Cardinality(live') = Cardinality(live) - 1
      BY <1>1, <3>1, <3>2, LiveCounts DEF UpdateUnlink, UnlinkAndFree
    <3>4. holder.op # "update" /\ holder'.op = "update"
      BY <3>1 DEF UpdateUnlink, Free, Updating
    <3> QED BY <1>1, <3>3, <3>4 DEF Entries
  <2>3. CASE UpdateRelink
    <3>1. PICK n \in Nodes : LinkAtHead(n, holder.key, holder.value)
      BY <2>3 DEF UpdateRelink
    <3>2. Cardinality(live') = Cardinality(live) + 1
      BY <1>1, <3>1, LiveCounts DEF LinkAtHead
    <3>3. holder.op = "update" /\ holder'.op # "update"
      BY <2>3 DEF UpdateRelink, Free
    <3> QED BY <1>1, <3>2, <3>3 DEF Entries
  <2>4. CASE SweepVisited
    BY <2>4 DEF SweepVisited, Entries
  <2>5. CASE InsertReturn
    BY <2>5 DEF InsertReturn, Entries, Evicting, Free
  <2> QED BY <2>1, <2>2, <2>3, <2>4, <2>5
<1>3. stats'.insertions = stats.insertions /\ stats'.evictions = stats.evictions
  <2>1. CASE stats' = stats
    BY <2>1
  <2>2. CASE Count("hits") \/ Count("misses")
    <3>1. {"hits", "misses", "insertions", "evictions"} = CounterNames
      BY DEF CounterNames
    <3> QED BY <1>1, <2>2, <3>1, CountIs
  <2> QED BY <2>1, <2>2 DEF GetHit, GetMiss, UpdateUnlink, UpdateRelink, SweepVisited,
             InsertReturn
<1> QED BY <1>2, <1>3 DEF Turnover

(* insertions - evictions is the number of entries, modulo the counters'    *)
(* width and what was removed or cleared.                                  *)
THEOREM StatsFollow == Spec => StatsFollowContents
<1>1. IInv /\ IInv' /\ [Next]_vars =>
        [(\E k \in Keys : RemoveKey(k)) \/ Clear \/ Turnover' = Turnover]_vars
  BY InsertNewKeepsTurnover, EvictUnvisitedKeepsTurnover, OthersKeepTurnover
  DEF Next, HolderStep
<1> QED BY IInvHolds, <1>1, PTL DEF Spec, StatsFollowContents

-----------------------------------------------------------------------------
(* The list as a whole: the nodes from the tail to the head are a sequence  *)
(* of exactly the allocated ones.                                          *)

links == [head |-> head, tail |-> tail, prev |-> prev, next |-> next]

Orders(q) == q \in Seq(Nodes) /\ Follows(links, q, None) /\ Range(q) = live

RInv == IInv /\ Orders(chain)

(* A sequence the pointers follow is the chain, in this state ...           *)
LEMMA ChainIs ==
    ASSUME NEW q, Orders(q)
    PROVE  chain = q
<1>1. q \in Seq(Nodes) /\ Follows(links, q, None) /\ Cardinality(live) = Len(q)
  BY RangeCounts DEF Orders, Follows
<1> DEFINE Good(f) == f = [i \in 1 .. Len(q) |->
                              IF i = 1 THEN tail
                              ELSE IF f[i - 1] = None THEN None ELSE prev[f[i - 1]]]
<1>2. \A f : Good(f) <=> f = q
  <2> DEFINE t == tail
             p == prev
             l == links
  <2>1. t = l.tail /\ p = l.prev
    BY DEF links
  <2>2. q \in Seq(Nodes) /\ Follows(l, q, None)
    BY <1>1
  <2> HIDE DEF t, p, l
  <2>3. \A f : f = [i \in 1 .. Len(q) |->
                     IF i = 1 THEN t ELSE IF f[i - 1] = None THEN None ELSE p[f[i - 1]]]
               <=> f = q
    BY ONLY <2>1, <2>2, NoneAssumption, FollowsOnly
  <2> QED BY <2>3 DEF t, p
<1>3. chain = CHOOSE f : Good(f)
  BY <1>1 DEF chain
<1> HIDE DEF Good
<1> QED BY <1>2, <1>3

(* ... and in the next.                                                     *)
LEMMA ChainIsNext ==
    ASSUME NEW q, q \in Seq(Nodes), Follows(links', q, None), Range(q) = live'
    PROVE  chain' = q /\ Orders(chain)'
<1>1. q \in Seq(Nodes) /\ Follows(links', q, None) /\ Cardinality(live') = Len(q)
  BY RangeCounts DEF Follows
<1> DEFINE Good(f) == f = [i \in 1 .. Len(q) |->
                              IF i = 1 THEN tail'
                              ELSE IF f[i - 1] = None THEN None ELSE prev'[f[i - 1]]]
<1>2. \A f : Good(f) <=> f = q
  <2> DEFINE t == tail'
             p == prev'
             l == links'
  <2>1. t = l.tail /\ p = l.prev
    BY DEF links
  <2>2. q \in Seq(Nodes) /\ Follows(l, q, None)
    BY <1>1
  <2> HIDE DEF t, p, l
  <2>3. \A f : f = [i \in 1 .. Len(q) |->
                     IF i = 1 THEN t ELSE IF f[i - 1] = None THEN None ELSE p[f[i - 1]]]
               <=> f = q
    BY ONLY <2>1, <2>2, NoneAssumption, FollowsOnly
  <2> QED BY <2>3 DEF t, p
<1>3. chain' = CHOOSE f : Good(f)
  BY <1>1 DEF chain
<1> HIDE DEF Good
<1>4. chain' = q
  BY <1>2, <1>3
<1> HIDE DEF chain
<1> QED BY <1>4 DEF Orders

(* A new node is the last of the chain.                                     *)
LEMMA ChainGains ==
    ASSUME RInv, NEW n \in Nodes, NEW k, NEW v, LinkAtHead(n, k, v)
    PROVE  Orders(chain)' /\ chain' = Append(chain, n) /\ n \notin Range(chain)
<1>1. /\ chain \in Seq(Nodes) /\ Follows(links, chain, None) /\ Range(chain) = live
      /\ n \notin live
  BY DEF RInv, Orders, LinkAtHead
<1>2. /\ links'.head = n
      /\ links'.tail = IF links.tail = None THEN n ELSE links.tail
      /\ \A x \in Nodes :
            /\ links'.prev[x] = IF x = links.head THEN n
                                ELSE IF x = n THEN None ELSE links.prev[x]
            /\ links'.next[x] = IF x = n THEN links.head ELSE links.next[x]
  BY DEF LinkAtHead, links, RInv, IInv, TypeOK
<1> DEFINE q == Append(chain, n)
<1> HIDE DEF chain
<1>3. Follows(links', q, None)
  BY <1>1, <1>2, NoneAssumption, FollowsAtHead
<1>4. q \in Seq(Nodes) /\ Range(q) = live'
  BY <1>1, AppendKeeps DEF LinkAtHead
<1> HIDE DEF q
<1>5. chain' = q /\ Orders(chain)'
  BY <1>3, <1>4, ChainIsNext
<1> QED BY <1>1, <1>5 DEF q

(* A node that is freed leaves its place in the chain and nothing else.     *)
LEMMA ChainLoses ==
    ASSUME RInv, NEW n \in live, NEW h, UnlinkAndFree(n, h)
    PROVE  /\ Orders(chain)'
           /\ \E i \in 1 .. Len(chain) : chain[i] = n /\ chain' = RemoveAt(chain, i)
<1>1. /\ chain \in Seq(Nodes) /\ Follows(links, chain, None) /\ Range(chain) = live
      /\ IsInjective(chain) /\ DOMAIN chain = 1 .. Len(chain) /\ n \in Nodes
  BY DEF RInv, Orders, Follows, IInv, TypeOK
<1> HIDE DEF chain
<1>2. PICK i \in 1 .. Len(chain) : chain[i] = n
  BY <1>1 DEF Range
<1>3. /\ links'.head = IF links.prev[n] = None THEN links.next[n] ELSE links.head
      /\ links'.tail = IF links.next[n] = None THEN links.prev[n] ELSE links.tail
      /\ \A y \in Nodes : y # n =>
            /\ links'.prev[y] = IF y = links.next[n] THEN links.prev[n] ELSE links.prev[y]
            /\ links'.next[y] = IF y = links.prev[n] THEN links.next[n] ELSE links.next[y]
  BY <1>1 DEF UnlinkAndFree, links
<1> DEFINE q == RemoveAt(chain, i)
<1>4. Follows(links', q, None)
  BY <1>1, <1>2, <1>3, NoneAssumption, FollowsUnlinked
<1>5. q \in Seq(Nodes) /\ Range(q) = live'
  BY <1>1, <1>2, RemoveAtKeeps DEF UnlinkAndFree
<1> HIDE DEF q
<1>6. chain' = q /\ Orders(chain)'
  BY <1>4, <1>5, ChainIsNext
<1> QED BY <1>2, <1>6 DEF q

(* Steps that do not touch the list keep the chain.                         *)
LEMMA ChainStays ==
    ASSUME Orders(chain), UNCHANGED <<list, live>>
    PROVE  Orders(chain)' /\ chain' = chain
<1>1. links' = links /\ live' = live
  BY DEF links, list
<1> HIDE DEF chain
<1> QED BY <1>1, ChainIsNext DEF Orders

LEMMA InitRInv == Init => RInv /\ chain = <<>>
<1> SUFFICES ASSUME Init PROVE RInv /\ chain = <<>>
  OBVIOUS
<1>1. Orders(<<>>)
  BY DEF Init, links, Orders, Follows, Range, IsInjective
<1>2. chain = <<>>
  BY <1>1, ChainIs
<1> HIDE DEF chain
<1> QED BY <1>1, <1>2, InitIInv DEF RInv

LEMMA ChainCleared ==
    ASSUME IInv, Clear
    PROVE  Orders(chain)' /\ chain' = <<>>
<1>1. live' = {} /\ head' = None /\ tail' = None
  BY DEF Clear, IInv, Structure, IndexOwnsNodes
<1> DEFINE q == <<>>
<1>2. q \in Seq(Nodes) /\ Follows(links', q, None) /\ Range(q) = live'
  BY <1>1 DEF links, Follows, Range, IsInjective
<1> HIDE DEF q
<1>3. Orders(chain)' /\ chain' = q
  BY <1>2, ChainIsNext
<1> QED BY <1>3 DEF q

LEMMA StepKeepsRInv == RInv /\ [Next]_vars => RInv'
<1> SUFFICES ASSUME RInv, [Next]_vars PROVE Orders(chain)'
  BY StepKeepsIInv DEF RInv
<1>1. Structure /\ Orders(chain)
  BY DEF RInv, IInv
<1>2. \A k \in Keys : index[k] # None => index[k] \in live
  BY <1>1 DEF Structure, NoDangling
<1>3. CASE \E k \in Keys : GetHit(k) \/ GetMiss(k)
  BY <1>1, <1>3, ChainStays DEF GetHit, GetMiss
<1>4. CASE \E k \in Keys : RemoveKey(k)
  BY <1>2, <1>4, ChainLoses DEF RemoveKey
<1>5. CASE \E k \in Keys, v \in Values : InsertNew(k, v)
  BY <1>5, ChainGains DEF InsertNew
<1>6. CASE \E k \in Keys, v \in Values : UpdateUnlink(k, v)
  BY <1>2, <1>6, ChainLoses DEF UpdateUnlink
<1>7. CASE Clear
  BY <1>7, ChainCleared DEF RInv
<1>8. CASE UpdateRelink
  BY <1>8, ChainGains DEF UpdateRelink
<1>9. CASE SweepVisited
  BY <1>1, <1>9, ChainStays DEF SweepVisited
<1>10. CASE EvictUnvisited
  <2>1. UnderHand \in live
    BY <1>1, <1>10 DEF EvictUnvisited, UnderHand, Structure, NoDangling
  <2> QED BY <1>10, <2>1, ChainLoses DEF EvictUnvisited
<1>11. CASE InsertReturn
  BY <1>1, <1>11, ChainStays DEF InsertReturn
<1>12. CASE UNCHANGED vars
  BY <1>1, <1>12, ChainStays DEF vars
<1> QED
  BY <1>3, <1>4, <1>5, <1>6, <1>7, <1>8, <1>9, <1>10, <1>11, <1>12 DEF Next, HolderStep

LEMMA RInvHolds == Spec => []RInv
<1>1. Init => RInv
  BY InitRInv
<1> QED BY <1>1, StepKeepsRInv, PTL DEF Spec

(* The list has no cycle and leaves no allocated node out.                  *)
THEOREM ChainStaysWhole == Spec => []ChainIsIndex
<1>1. RInv => ChainIsIndex
  <2> SUFFICES ASSUME RInv PROVE ChainIsIndex
    OBVIOUS
  <2>1. chain \in Seq(Nodes) /\ Range(chain) = live
    BY DEF RInv, Orders
  <2> HIDE DEF chain
  <2>2. \A i \in DOMAIN chain : chain[i] # None
    BY <2>1, NoneAssumption
  <2> QED BY <2>1, <2>2 DEF ChainIsIndex, Range
<1> QED BY RInvHolds, <1>1, PTL

-----------------------------------------------------------------------------
(* SIEVE's queue as a value: what SieveOrder's operators are, given the     *)
(* places of the keys they speak of.                                       *)

LEMMA WithoutIs ==
    ASSUME NEW s \in Seq(Keys), IsInjective(s), NEW i \in 1 .. Len(s)
    PROVE  /\ S!Position(s, s[i]) = i
           /\ S!Without(s, s[i]) = RemoveAt(s, i)
           /\ \A h : S!HandWithout(s, h, s[i]) =
                 IF h # s[i] THEN h
                 ELSE IF Len(s) = 1 THEN None
                 ELSE IF i = Len(s) THEN s[1] ELSE s[i + 1]
<1>1. S!Position(s, s[i]) = i
  BY OnePlace DEF S!Position
<1>2. S!Without(s, s[i]) = RemoveAt(s, i)
  BY <1>1 DEF S!Without, S!RemoveAt, RemoveAt
<1> QED BY <1>1, <1>2 DEF S!HandWithout

(* From any place on there is a first key that is not visited, if the last  *)
(* one is not.                                                             *)
LEMMA SweepStops ==
    ASSUME NEW s \in Seq(Keys), NEW marked, NEW start \in 1 .. Len(s),
           s[Len(s)] \notin marked
    PROVE  \E stop \in start .. Len(s) :
              s[stop] \notin marked /\ \A j \in start .. stop - 1 : s[j] \in marked
<1> DEFINE T == {i \in start .. Len(s) : s[i] \notin marked}
<1>1. T \in SUBSET Nat /\ Len(s) \in T
  OBVIOUS
<1>2. PICK stop \in T : \A j \in T : stop <= j
  <2> HIDE DEF T
  <2> QED BY <1>1, LeastElement
<1>3. ASSUME NEW j \in start .. stop - 1 PROVE s[j] \in marked
  <2>1. j \in start .. Len(s) /\ ~(stop <= j)
    BY <1>2
  <2> QED BY <1>2, <2>1
<1> QED BY <1>2, <1>3

(* An eviction takes out the key at that place.                            *)
LEMMA EvictedIs ==
    ASSUME NEW s \in Seq(Keys), IsInjective(s), NEW marked, NEW h,
           NEW start \in 1 .. Len(s), IF h = None THEN start = 1 ELSE s[start] = h,
           NEW stop \in start .. Len(s), s[stop] \notin marked,
           \A j \in start .. stop - 1 : s[j] \in marked
    PROVE  S!Evicted([order |-> s, visited |-> marked, hand |-> h]) =
              [order   |-> RemoveAt(s, stop),
               visited |-> marked \ {s[j] : j \in start .. stop},
               hand    |-> IF Len(s) = 1 THEN None
                           ELSE IF stop = Len(s) THEN s[1] ELSE s[stop + 1]]
<1> DEFINE q == [order |-> s, visited |-> marked, hand |-> h]
           from == IF q.hand = None THEN 1 ELSE S!Position(q.order, q.hand)
           Stops(i) == /\ q.order[i] \notin q.visited
                       /\ \A j \in from .. i - 1 : q.order[j] \in q.visited
           to == CHOOSE i \in from .. Len(q.order) : Stops(i)
           victim == q.order[to]
<1>1. q.order = s /\ q.visited = marked /\ q.hand = h
  OBVIOUS
<1>2. S!Evicted(q) = [order   |-> S!Without(q.order, victim),
                      visited |-> q.visited \ {q.order[j] : j \in from .. to},
                      hand    |-> S!HandWithout(q.order, victim, victim)]
  <2> HIDE DEF q
  <2> QED BY Zenon DEF S!Evicted
<1> HIDE DEF q
<1>3. Len(s) \in Nat /\ stop \in 1 .. Len(s)
  OBVIOUS
<1>4. from = start
  BY <1>1, WithoutIs
<1>5. ASSUME NEW i \in start .. Len(s), Stops(i) PROVE i = stop
  <2>1. ~(i < stop)
    <3> SUFFICES ASSUME i < stop PROVE FALSE
      OBVIOUS
    <3>1. i \in start .. stop - 1
      OBVIOUS
    <3> QED BY <1>1, <1>5, <3>1
  <2>2. ~(stop < i)
    <3> SUFFICES ASSUME stop < i PROVE FALSE
      OBVIOUS
    <3>1. stop \in from .. i - 1
      BY <1>4
    <3> QED BY <1>1, <1>5, <3>1
  <2> QED BY <2>1, <2>2
<1>6. to = stop
  <2>1. Stops(stop)
    BY <1>1, <1>4
  <2>2. \A i \in from .. Len(q.order) : Stops(i) => i = stop
    BY <1>1, <1>4, <1>5
  <2>3. stop \in from .. Len(q.order)
    BY <1>1, <1>4
  <2> HIDE DEF Stops, from
  <2> QED BY <2>1, <2>2, <2>3
<1> HIDE DEF from, to
<1>7. S!Without(q.order, victim) = RemoveAt(s, stop)
  BY <1>1, <1>3, <1>6, WithoutIs
<1>8. S!HandWithout(q.order, victim, victim) =
         IF Len(s) = 1 THEN None ELSE IF stop = Len(s) THEN s[1] ELSE s[stop + 1]
  BY <1>1, <1>3, <1>6, WithoutIs
<1>9. q.visited \ {q.order[j] : j \in from .. to} = marked \ {s[j] : j \in start .. stop}
  BY <1>1, <1>4, <1>6
<1> QED BY <1>2, <1>7, <1>8, <1>9 DEF q

(* SieveQueue's operators are SieveOrder's.                                *)
LEMMA SameLibrary ==
    /\ \A f : Q!Range(f) = Range(f)
    /\ \A s, k : Q!Without(s, k) = S!Without(s, k)
    /\ \A s, h, k : Q!HandWithout(s, h, k) = S!HandWithout(s, h, k)
    /\ \A q : Q!Evicted(q) = S!Evicted(q)
<1>1. \A f : Q!Range(f) = Range(f)
  BY DEF Q!Range, Range
<1>2. \A s, k : Q!Position(s, k) = S!Position(s, k)
  BY DEF Q!Position, S!Position
<1>3. \A s, k : Q!Without(s, k) = S!Without(s, k)
  BY <1>2 DEF Q!Without, S!Without, Q!RemoveAt, S!RemoveAt
<1>4. \A s, h, k : Q!HandWithout(s, h, k) = S!HandWithout(s, h, k)
  BY <1>2 DEF Q!HandWithout, S!HandWithout
<1>5. \A q : Q!Evicted(q) = S!Evicted(q)
  BY <1>2, <1>3, <1>4, Zenon DEF Q!Evicted, S!Evicted
<1> QED BY <1>1, <1>3, <1>4, <1>5

-----------------------------------------------------------------------------
(* The queue the list stands for.                                          *)

marks == {nodeKey[n] : n \in {m \in live : visited[m]}}

KeyAt(h) == IF h = None THEN None ELSE nodeKey[h]

(* A key has one place in the queue, its node's place in the chain; its     *)
(* mark is its node's; and the values promised are those of the nodes.     *)
QueueHolds ==
    /\ chain \in Seq(Nodes) /\ IsInjective(chain)
    /\ \A i \in 1 .. Len(chain) : chain[i] \in live /\ chain[i] \in Nodes /\ chain[i] # None
    /\ keyOrder \in Seq(Keys) /\ IsInjective(keyOrder)
    /\ Len(keyOrder) = Len(chain) /\ Len(keyOrder) = size
    /\ \A i \in 1 .. Len(chain) : /\ keyOrder[i] = nodeKey[chain[i]] /\ keyOrder[i] \in Keys
                                  /\ chain[i] = index[keyOrder[i]]
    /\ \A n \in live : \E i \in 1 .. Len(chain) : chain[i] = n
    /\ \A k \in Keys : k \in Range(keyOrder) <=> index[k] # None
    /\ marks \in SUBSET Keys
    /\ \A k \in Keys : k \in marks <=> index[k] # None /\ visited[index[k]]
    /\ InQueue = [order |-> keyOrder, visited |-> marks, hand |-> KeyAt(hand)]
    /\ ArrivedValue =
          [k \in Keys |->
              IF holder.op = "update" /\ k = holder.key THEN holder.value
              ELSE IF k \in Range(Arrived.order) THEN nodeVal[index[k]] ELSE None]

LEMMA QueueFacts == RInv => QueueHolds
<1> SUFFICES ASSUME RInv PROVE QueueHolds
  OBVIOUS
<1>1. /\ chain \in Seq(Nodes) /\ IsInjective(chain) /\ Range(chain) = live
      /\ Len(chain) = Cardinality(live) /\ size = Cardinality(live)
  BY RangeCounts DEF RInv, IInv, SizeBound, Orders, Follows
<1>2. keyOrder = [i \in 1 .. Len(chain) |-> nodeKey[chain[i]]]
  BY <1>1 DEF keyOrder
<1> DEFINE N == Len(chain)
<1> HIDE DEF chain
<1>3. /\ N \in Nat /\ DOMAIN chain = 1 .. N
      /\ \A i \in 1 .. N : chain[i] \in live
  BY <1>1 DEF Range
<1>4. /\ \A n \in live : nodeKey[n] \in Keys /\ index[nodeKey[n]] = n
      /\ \A k \in Keys : index[k] # None => index[k] \in live /\ nodeKey[index[k]] = k
      /\ None \notin live /\ live \in SUBSET Nodes /\ visited \in [Nodes -> BOOLEAN]
  BY NoneAssumption DEF RInv, IInv, Structure, NoDangling, IndexOwnsNodes, TypeOK
<1>5. \A i \in 1 .. N : /\ keyOrder[i] = nodeKey[chain[i]] /\ keyOrder[i] \in Keys
                        /\ chain[i] = index[keyOrder[i]]
  BY <1>2, <1>3, <1>4
<1>6. keyOrder \in Seq(Keys) /\ Len(keyOrder) = N /\ DOMAIN keyOrder = 1 .. N
  BY <1>2, <1>3, <1>5
<1>7. IsInjective(keyOrder)
  <2>1. ASSUME NEW i \in 1 .. N, NEW j \in 1 .. N, keyOrder[i] = keyOrder[j] PROVE i = j
    <3>1. chain[i] = chain[j]
      BY <1>5, <2>1
    <3> QED BY <1>1, <1>3, <3>1 DEF IsInjective
  <2> QED BY <1>6, <2>1 DEF IsInjective
<1>8. \A n \in live : \E i \in 1 .. N : chain[i] = n
  BY <1>1, <1>3 DEF Range
<1>9. ASSUME NEW k \in Keys PROVE k \in Range(keyOrder) <=> index[k] # None
  <2>1. ASSUME k \in Range(keyOrder) PROVE index[k] # None
    <3>1. PICK i \in 1 .. N : keyOrder[i] = k
      BY <1>6, <2>1 DEF Range
    <3> QED BY <1>3, <1>4, <1>5, <3>1
  <2>2. ASSUME index[k] # None PROVE k \in Range(keyOrder)
    <3>1. index[k] \in live /\ nodeKey[index[k]] = k
      BY <1>4, <2>2
    <3>2. PICK i \in 1 .. N : chain[i] = index[k]
      BY <1>8, <3>1
    <3>3. keyOrder[i] = k
      BY <1>5, <3>1, <3>2
    <3> QED BY <1>6, <3>3 DEF Range
  <2> QED BY <2>1, <2>2
<1>10. marks \in SUBSET Keys
  BY <1>4 DEF marks
<1>11. \A k \in Keys : k \in marks <=> index[k] # None /\ visited[index[k]]
  BY <1>4 DEF marks
<1>12. InQueue = [order |-> keyOrder, visited |-> marks, hand |-> KeyAt(hand)]
  BY DEF InQueue, marks, KeyAt
<1>13. ArrivedValue =
          [k \in Keys |->
              IF holder.op = "update" /\ k = holder.key THEN holder.value
              ELSE IF k \in Range(Arrived.order) THEN nodeVal[index[k]] ELSE None]
  <2>1. \A k : (\E i \in DOMAIN Arrived.order : Arrived.order[i] = k)
               <=> k \in Range(Arrived.order)
    BY DEF Range
  <2> HIDE DEF Arrived
  <2> QED BY <2>1 DEF ArrivedValue
<1> QED
  BY <1>1, <1>3, <1>4, <1>5, <1>6, <1>7, <1>8, <1>9, <1>10, <1>11, <1>12, <1>13 DEF QueueHolds

LEMMA QueueFactsNext == RInv' => QueueHolds'
  BY QueueFacts, PTL

(* The queue a caller is promised, by what the lock holder does.           *)
LEMMA ArrivedCases ==
    ASSUME TypeOK
    PROVE  /\ holder = Free => Arrived = InQueue /\ holder.op # "update"
           /\ holder = Evicting =>
                /\ Arrived = IF size > Capacity THEN S!Evicted(InQueue) ELSE InQueue
                /\ holder.op # "update"
           /\ holder.op = "update" =>
                Arrived = [InQueue EXCEPT !.order = Append(@, holder.key)]
  BY DEF Arrived, MustEvict, Free, Evicting

LEMMA ArrivedCasesNext ==
    ASSUME TypeOK'
    PROVE  /\ holder' = Free => Arrived' = InQueue' /\ holder'.op # "update"
           /\ holder' = Evicting =>
                /\ Arrived' = IF size' > Capacity THEN S!Evicted(InQueue') ELSE InQueue'
                /\ holder'.op # "update"
           /\ holder'.op = "update" =>
                Arrived' = [InQueue' EXCEPT !.order = Append(@, holder'.key)]
  BY DEF Arrived, MustEvict, Free, Evicting

(* The queue gains a key ...                                               *)
LEMMA KeyEnters ==
    ASSUME QueueHolds, QueueHolds', NEW k \in Keys,
           NEW n \in Nodes, n \notin Range(chain), chain' = Append(chain, n),
           nodeKey \in [Nodes -> Keys \cup {None}], nodeKey' = [nodeKey EXCEPT ![n] = k]
    PROVE  keyOrder' = Append(keyOrder, k)
<1> DEFINE f == nodeKey
           g == nodeKey'
           ks == keyOrder
           ls == keyOrder'
<1> HIDE DEF chain
<1>1. ks \in Seq(Keys) /\ Named(chain, f, ks) /\ chain \in Seq(Nodes)
  BY DEF QueueHolds, Named
<1>2. ls \in Seq(Keys) /\ Named(Append(chain, n), g, ls)
  BY DEF QueueHolds, Named
<1>3. g[n] = k /\ \A m \in Range(chain) : g[m] = f[m]
  BY <1>1 DEF Range
<1> HIDE DEF f, g, ks, ls
<1>4. Append(ks, k) \in Seq(Keys) /\ Named(Append(chain, n), g, Append(ks, k))
  BY <1>1, <1>3, NamedAppend
<1>5. Append(chain, n) \in Seq(Nodes)
  BY <1>1
<1>6. ls = Append(ks, k)
  BY <1>2, <1>4, <1>5, NamedOnly
<1> QED BY <1>6 DEF ks, ls

(* ... or loses one.                                                       *)
LEMMA KeyLeaves ==
    ASSUME QueueHolds, QueueHolds', NEW i \in 1 .. Len(chain), chain' = RemoveAt(chain, i),
           \A m \in Nodes : m # chain[i] => nodeKey'[m] = nodeKey[m]
    PROVE  keyOrder' = RemoveAt(keyOrder, i)
<1> DEFINE f == nodeKey
           g == nodeKey'
           ks == keyOrder
           ls == keyOrder'
           r == RemoveAt(chain, i)
<1> HIDE DEF chain
<1>1. /\ ks \in Seq(Keys) /\ Named(chain, f, ks)
      /\ chain \in Seq(Nodes) /\ IsInjective(chain)
  BY DEF QueueHolds, Named
<1>2. ls \in Seq(Keys) /\ Named(r, g, ls)
  BY DEF QueueHolds, Named
<1>3. r \in Seq(Nodes) /\ \A m \in Range(r) : g[m] = f[m]
  <2>1. r \in Seq(Nodes) /\ Range(r) = Range(chain) \ {chain[i]}
    BY <1>1, RemoveAtKeeps
  <2>2. Range(chain) \subseteq Nodes
    BY <1>1 DEF Range
  <2> QED BY <2>1, <2>2
<1> HIDE DEF f, g, ks, ls
<1>4. RemoveAt(ks, i) \in Seq(Keys) /\ Named(r, g, RemoveAt(ks, i))
  BY <1>1, <1>3, NamedRemoveAt
<1> HIDE DEF r
<1>5. ls = RemoveAt(ks, i)
  BY <1>2, <1>3, <1>4, NamedOnly
<1> QED BY <1>5 DEF ks, ls

(* What the pointers say of a node at a place of the chain.                *)
LEMMA ChainLinks ==
    ASSUME RInv, NEW i \in 1 .. Len(chain)
    PROVE  /\ prev[chain[i]] = IF i = Len(chain) THEN None ELSE chain[i + 1]
           /\ tail = chain[1] /\ head = chain[Len(chain)]
           /\ 1 \in 1 .. Len(chain) /\ Len(chain) \in 1 .. Len(chain)
           /\ i # Len(chain) => i + 1 \in 1 .. Len(chain)
<1>1. chain \in Seq(Nodes) /\ Follows(links, chain, None)
  BY DEF RInv, Orders
<1> HIDE DEF chain
<1>2. chain # <<>> /\ Len(chain) \in Nat
  BY <1>1
<1>3. links.prev = prev /\ links.tail = tail /\ links.head = head
  BY DEF links
<1> QED BY <1>1, <1>2, <1>3, Neighbours DEF Follows

(* What unlinking and freeing a key's node does to the queue: the key goes, *)
(* its mark with it, and a hand on it moves on.                            *)
LEMMA UnlinkEffect ==
    ASSUME RInv, RInv', NEW k \in Keys, index[k] # None,
           NEW h \in live \cup {None}, UnlinkAndFree(index[k], h)
    PROVE  /\ k \in Range(keyOrder) /\ k \notin Range(keyOrder')
           /\ Range(keyOrder') \subseteq Range(keyOrder)
           /\ \A x \in Keys : index[x] # None /\ x # k =>
                 /\ x \in Range(keyOrder')
                 /\ index'[x] = index[x] /\ nodeVal'[index[x]] = nodeVal[index[x]]
           /\ InQueue' = [order   |-> S!Without(keyOrder, k),
                          visited |-> marks \ {k},
                          hand    |-> S!HandWithout(keyOrder, KeyAt(h), k)]
           /\ keyOrder' = S!Without(keyOrder, k)
<1> DEFINE n == index[k]
<1>1. QueueHolds /\ QueueHolds'
  BY QueueFacts, QueueFactsNext
<1>2. /\ \A m \in live : nodeKey[m] \in Keys /\ index[nodeKey[m]] = m
      /\ \A x \in Keys : index[x] # None => index[x] \in live /\ nodeKey[index[x]] = x
      /\ None \notin live /\ live \in SUBSET Nodes /\ visited \in [Nodes -> BOOLEAN]
      /\ index \in [Keys -> Nodes \cup {None}]
      /\ nodeKey \in [Nodes -> Keys \cup {None}] /\ nodeVal \in [Nodes -> Values \cup {None}]
  BY NoneAssumption DEF RInv, IInv, Structure, NoDangling, IndexOwnsNodes, TypeOK
<1>3. n \in live /\ nodeKey[n] = k /\ n \in Nodes
  BY <1>2
<1>4. PICK i \in 1 .. Len(chain) : chain[i] = n /\ chain' = RemoveAt(chain, i)
  BY <1>3, ChainLoses
<1>5. /\ index' = [index EXCEPT ![k] = None]
      /\ nodeKey' = [nodeKey EXCEPT ![n] = None]
      /\ nodeVal' = [nodeVal EXCEPT ![n] = None]
      /\ visited' = [visited EXCEPT ![n] = FALSE]
      /\ hand' = HandAfterUnlink(n, h)
  BY <1>3 DEF UnlinkAndFree
<1>6. keyOrder' = RemoveAt(keyOrder, i)
  <2>1. \A m \in Nodes : m # chain[i] => nodeKey'[m] = nodeKey[m]
    BY <1>2, <1>4, <1>5
  <2> HIDE DEF chain
  <2> QED BY <1>1, <1>4, <2>1, KeyLeaves
<1> HIDE DEF chain
<1>7. /\ i \in 1 .. Len(keyOrder) /\ keyOrder[i] = k
      /\ Len(keyOrder) = Len(chain) /\ keyOrder \in Seq(Keys) /\ IsInjective(keyOrder)
  BY <1>1, <1>3, <1>4 DEF QueueHolds
<1>8. keyOrder' = S!Without(keyOrder, k)
  BY <1>6, <1>7, WithoutIs
<1>9. \A x \in Keys : index[x] # None /\ x # k =>
         index'[x] = index[x] /\ nodeVal'[index[x]] = nodeVal[index[x]]
  BY <1>2, <1>5
<1>10. /\ \A x \in Keys : x \in Range(keyOrder) <=> index[x] # None
       /\ \A x \in Keys : x \in Range(keyOrder') <=> index'[x] # None
       /\ keyOrder' \in Seq(Keys)
  BY <1>1 DEF QueueHolds
<1>11. index'[k] = None
  BY <1>2, <1>5
<1>12. Range(keyOrder') \subseteq Range(keyOrder)
  <2>1. Range(keyOrder') \subseteq Keys
    BY <1>10 DEF Range
  <2>2. \A x \in Keys : x # k => index'[x] = index[x]
    BY <1>2, <1>5
  <2> QED BY <1>10, <1>11, <2>1, <2>2
<1>13. marks' = marks \ {k}
  <2>1. /\ marks \in SUBSET Keys /\ marks' \in SUBSET Keys
        /\ \A x \in Keys : x \in marks <=> index[x] # None /\ visited[index[x]]
        /\ \A x \in Keys : x \in marks' <=> index'[x] # None /\ visited'[index'[x]]
    BY <1>1 DEF QueueHolds
  <2>2. ASSUME NEW x \in Keys, x # k PROVE x \in marks' <=> x \in marks
    <3>1. index'[x] = index[x]
      BY <1>2, <1>5, <2>2
    <3>2. index[x] # None => index[x] # n /\ index[x] \in Nodes
      BY <1>2, <1>3, <2>2
    <3>3. index[x] # None => visited'[index[x]] = visited[index[x]]
      BY <1>2, <1>5, <3>2
    <3> QED BY <2>1, <2>2, <3>1, <3>3
  <2>3. k \notin marks'
    BY <1>11, <2>1
  <2> QED BY <2>1, <2>2, <2>3
<1>14. KeyAt(hand)' = S!HandWithout(keyOrder, KeyAt(h), k)
  <2>1. S!HandWithout(keyOrder, KeyAt(h), k) =
           IF KeyAt(h) # k THEN KeyAt(h)
           ELSE IF Len(chain) = 1 THEN None
           ELSE IF i = Len(chain) THEN keyOrder[1] ELSE keyOrder[i + 1]
    <3> DEFINE s == keyOrder
               g == KeyAt(h)
    <3>1. s \in Seq(Keys) /\ IsInjective(s) /\ i \in 1 .. Len(s) /\ k = s[i]
      BY <1>7
    <3> HIDE DEF s, g
    <3>2. S!HandWithout(s, g, s[i]) =
             IF g # s[i] THEN g
             ELSE IF Len(s) = 1 THEN None ELSE IF i = Len(s) THEN s[1] ELSE s[i + 1]
      BY <3>1, WithoutIs
    <3>3. Len(s) = Len(chain)
      BY <1>7 DEF s
    <3> QED BY <3>1, <3>2, <3>3 DEF s, g
  <2>2. KeyAt(hand)' = IF hand' = None THEN None ELSE nodeKey'[hand']
    BY DEF KeyAt
  <2>3. /\ prev[n] = IF i = Len(chain) THEN None ELSE chain[i + 1]
        /\ tail = chain[1] /\ 1 \in 1 .. Len(chain) /\ Len(chain) \in Nat
        /\ i # Len(chain) => i + 1 \in 1 .. Len(chain)
    BY <1>1, <1>4, ChainLinks DEF QueueHolds
  <2>4. \A j \in 1 .. Len(chain) :
           /\ chain[j] \in live /\ keyOrder[j] = nodeKey[chain[j]]
           /\ j # i => chain[j] # n /\ nodeKey'[chain[j]] = keyOrder[j]
    <3>1. \A j \in 1 .. Len(chain) : /\ chain[j] \in live /\ keyOrder[j] = nodeKey[chain[j]]
                                     /\ chain[j] \in Nodes
      BY <1>1 DEF QueueHolds
    <3>2. \A j \in 1 .. Len(chain) : j # i => chain[j] # n
      <4>1. chain \in Seq(Nodes) /\ IsInjective(chain)
        BY <1>1 DEF QueueHolds
      <4>2. DOMAIN chain = 1 .. Len(chain)
        BY <4>1
      <4> QED BY <1>4, <4>1, <4>2 DEF IsInjective
    <3> QED BY <1>2, <1>5, <3>1, <3>2
  <2>5. CASE h # n
    <3>1. KeyAt(h) # k
      BY <1>2, <2>5, NoneAssumption DEF KeyAt
    <3>2. hand' = h /\ (h # None => nodeKey'[h] = nodeKey[h])
      BY <1>2, <1>5, <2>5 DEF HandAfterUnlink
    <3> QED BY <2>1, <2>2, <3>1, <3>2 DEF KeyAt
  <2>6. CASE h = n
    <3>1. KeyAt(h) = k
      BY <1>2, <1>3, <2>6 DEF KeyAt
    <3>2. hand' = LET moved == IF prev[n] # None THEN prev[n] ELSE tail
                  IN  IF moved = n THEN None ELSE moved
      BY <1>5, <2>6 DEF HandAfterUnlink
    <3>3. CASE i # Len(chain)
      <4>1. prev[n] = chain[i + 1] /\ i + 1 \in 1 .. Len(chain) /\ i + 1 # i /\ Len(chain) # 1
        BY <2>3, <3>3
      <4>2. hand' = chain[i + 1] /\ hand' # None
        BY <1>2, <2>4, <3>2, <4>1
      <4> QED BY <2>1, <2>2, <2>4, <3>1, <3>3, <4>1, <4>2
    <3>4. CASE i = Len(chain) /\ Len(chain) # 1
      <4>1. prev[n] = None /\ 1 # i
        BY <2>3, <3>4
      <4>2. hand' = chain[1] /\ hand' # None
        BY <1>2, <2>3, <2>4, <3>2, <4>1
      <4> QED BY <2>1, <2>2, <2>3, <2>4, <3>1, <3>4, <4>1, <4>2
    <3>5. CASE i = Len(chain) /\ Len(chain) = 1
      <4>1. prev[n] = None /\ tail = n
        BY <1>4, <2>3, <3>5
      <4>2. hand' = None
        BY <3>2, <4>1
      <4> QED BY <2>1, <2>2, <3>1, <3>5, <4>2
    <3> QED BY <3>3, <3>4, <3>5
  <2> QED BY <2>5, <2>6
<1>15. InQueue' = [order |-> keyOrder', visited |-> marks', hand |-> KeyAt(hand)']
  BY <1>1 DEF QueueHolds
<1> QED BY <1>8, <1>9, <1>10, <1>11, <1>12, <1>13, <1>14, <1>15

(* What linking a new node does to the queue: its key is the newest, without*)
(* a mark, and the hand stays.                                             *)
LEMMA LinkEffect ==
    ASSUME RInv, RInv', NEW k \in Keys, NEW v \in Values, NEW n \in Nodes,
           index[k] = None, LinkAtHead(n, k, v), hand' = hand
    PROVE  /\ keyOrder' = Append(keyOrder, k) /\ k \notin Range(keyOrder)
           /\ keyOrder \in Seq(Keys) /\ Range(keyOrder') = Range(keyOrder) \cup {k}
           /\ nodeVal'[index'[k]] = v
           /\ \A x \in Keys : x \in Range(keyOrder) =>
                 index'[x] = index[x] /\ nodeVal'[index[x]] = nodeVal[index[x]]
           /\ InQueue' = [order   |-> Append(keyOrder, k),
                          visited |-> marks,
                          hand    |-> KeyAt(hand)]
<1>1. QueueHolds /\ QueueHolds'
  BY QueueFacts, QueueFactsNext
<1>2. /\ \A x \in Keys : index[x] # None => index[x] \in live
      /\ None \notin live /\ live \in SUBSET Nodes /\ visited \in [Nodes -> BOOLEAN]
      /\ index \in [Keys -> Nodes \cup {None}] /\ hand \in live \cup {None}
      /\ nodeKey \in [Nodes -> Keys \cup {None}] /\ nodeVal \in [Nodes -> Values \cup {None}]
  BY NoneAssumption DEF RInv, IInv, Structure, NoDangling, IndexOwnsNodes, TypeOK
<1>3. /\ n \notin live
      /\ index' = [index EXCEPT ![k] = n]
      /\ nodeKey' = [nodeKey EXCEPT ![n] = k]
      /\ nodeVal' = [nodeVal EXCEPT ![n] = v]
      /\ visited' = [visited EXCEPT ![n] = FALSE]
  BY DEF LinkAtHead
<1>4. chain' = Append(chain, n) /\ n \notin Range(chain)
  BY ChainGains
<1>5. keyOrder' = Append(keyOrder, k)
  <2> HIDE DEF chain
  <2> QED BY <1>1, <1>2, <1>3, <1>4, KeyEnters
<1> HIDE DEF chain
<1>6. /\ keyOrder \in Seq(Keys)
      /\ \A x \in Keys : x \in Range(keyOrder) <=> index[x] # None
  BY <1>1 DEF QueueHolds
<1>7. k \notin Range(keyOrder) /\ Range(keyOrder') = Range(keyOrder) \cup {k}
  BY <1>5, <1>6, AppendKeeps
<1>8. nodeVal'[index'[k]] = v
  BY <1>2, <1>3
<1>9. \A x \in Keys : x \in Range(keyOrder) =>
         index'[x] = index[x] /\ nodeVal'[index[x]] = nodeVal[index[x]]
  BY <1>2, <1>3, <1>6
<1>10. marks' = marks
  <2>1. /\ marks \in SUBSET Keys /\ marks' \in SUBSET Keys
        /\ \A x \in Keys : x \in marks <=> index[x] # None /\ visited[index[x]]
        /\ \A x \in Keys : x \in marks' <=> index'[x] # None /\ visited'[index'[x]]
    BY <1>1 DEF QueueHolds
  <2>2. ASSUME NEW x \in Keys, x # k PROVE x \in marks' <=> x \in marks
    <3>1. index'[x] = index[x]
      BY <1>2, <1>3, <2>2
    <3>2. index[x] # None => index[x] # n /\ index[x] \in Nodes
      BY <1>2, <1>3
    <3>3. index[x] # None => visited'[index[x]] = visited[index[x]]
      BY <1>2, <1>3, <3>2
    <3> QED BY <2>1, <2>2, <3>1, <3>3
  <2>3. k \notin marks /\ k \notin marks'
    <3>1. index'[k] = n /\ ~visited'[n]
      BY <1>2, <1>3
    <3> QED BY <2>1, <3>1
  <2> QED BY <2>1, <2>2, <2>3
<1>11. KeyAt(hand)' = KeyAt(hand)
  <2>1. hand # None => hand \in Nodes /\ hand # n
    BY <1>2, <1>3
  <2> QED BY <1>2, <1>3, <2>1 DEF KeyAt
<1>12. InQueue' = [order |-> keyOrder', visited |-> marks', hand |-> KeyAt(hand)']
  BY <1>1 DEF QueueHolds
<1> QED BY <1>5, <1>6, <1>7, <1>8, <1>9, <1>10, <1>11, <1>12

(* While an insertion must evict, the node under the hand has a place in    *)
(* the queue, and from there on some key is not visited.                   *)
SweepWillStop ==
    \E start \in 1 .. Len(keyOrder) : \E stop \in start .. Len(keyOrder) :
        /\ UnderHand = chain[start]
        /\ IF KeyAt(hand) = None THEN start = 1 ELSE keyOrder[start] = KeyAt(hand)
        /\ keyOrder[stop] \notin marks
        /\ \A j \in start .. stop - 1 : keyOrder[j] \in marks

LEMMA SweepFinds == RInv /\ MustEvict => SweepWillStop
<1> SUFFICES ASSUME RInv, MustEvict PROVE SweepWillStop
  OBVIOUS
<1> DEFINE N == Len(chain)
<1>1. QueueHolds /\ IInv
  BY QueueFacts DEF RInv
<1>2. N \in Nat /\ N # 0
  <2>1. N = size /\ size > Capacity
    BY <1>1 DEF QueueHolds, MustEvict
  <2>2. chain \in Seq(Nodes)
    BY <1>1 DEF QueueHolds
  <2> HIDE DEF chain
  <2> QED BY <2>1, <2>2, CapacityAssumption
<1>3. N \in 1 .. N /\ 1 \in 1 .. N
  BY <1>2
<1>4. head = chain[N] /\ tail = chain[1]
  BY <1>3, ChainLinks
<1> HIDE DEF chain
<1>5. keyOrder[N] \notin marks
  <2>1. ~visited[chain[N]]
    BY <1>1, <1>4 DEF IInv, SweepStopsAtHead
  <2>2. /\ keyOrder[N] \in Keys /\ chain[N] = index[keyOrder[N]]
        /\ (keyOrder[N] \in marks <=> index[keyOrder[N]] # None /\ visited[index[keyOrder[N]]])
    BY <1>1, <1>3 DEF QueueHolds
  <2> QED BY <2>1, <2>2
<1>6. PICK start \in 1 .. N :
        /\ UnderHand = chain[start]
        /\ IF KeyAt(hand) = None THEN start = 1 ELSE keyOrder[start] = KeyAt(hand)
  <2>1. CASE hand = None
    <3>1. UnderHand = chain[1] /\ KeyAt(hand) = None
      BY <1>4, <2>1 DEF UnderHand, KeyAt
    <3> QED BY <1>3, <3>1
  <2>2. CASE hand # None
    <3>1. hand \in live
      BY <1>1, <2>2 DEF IInv, Structure, NoDangling
    <3>2. PICK i \in 1 .. N : chain[i] = hand
      BY <1>1, <3>1 DEF QueueHolds
    <3>3. keyOrder[i] = nodeKey[hand] /\ keyOrder[i] \in Keys
      BY <1>1, <3>2 DEF QueueHolds
    <3>4. KeyAt(hand) = keyOrder[i] /\ KeyAt(hand) # None /\ UnderHand = chain[i]
      BY <2>2, <3>2, <3>3, NoneAssumption DEF KeyAt, UnderHand
    <3> QED BY <3>4
  <2> QED BY <2>1, <2>2
<1>7. keyOrder \in Seq(Keys) /\ Len(keyOrder) = N
  BY <1>1 DEF QueueHolds
<1> DEFINE s == keyOrder
           marked == marks
<1>8. s \in Seq(Keys) /\ start \in 1 .. Len(s) /\ s[Len(s)] \notin marked
  BY <1>5, <1>7
<1> HIDE DEF s, marked
<1>9. \E stop \in start .. Len(s) :
         s[stop] \notin marked /\ \A j \in start .. stop - 1 : s[j] \in marked
  BY <1>8, SweepStops
<1> QED BY <1>6, <1>7, <1>9 DEF SweepWillStop, s, marked

LEMMA SweepFindsNext == RInv' /\ MustEvict' => SweepWillStop'
  BY SweepFinds, PTL

-----------------------------------------------------------------------------
(* What each action does to the queue a caller is promised.                *)

(* The values promised are the cached ones, and during an update the new.  *)
LEMMA ValuesPromised ==
    ASSUME RInv
    PROVE  /\ holder.op # "update" =>
                ArrivedValue = [k \in Keys |->
                    IF k \in Range(Arrived.order) THEN nodeVal[index[k]] ELSE None]
           /\ holder.op = "update" =>
                ArrivedValue = [k \in Keys |->
                    IF k = holder.key THEN holder.value
                    ELSE IF k \in Range(Arrived.order) THEN nodeVal[index[k]] ELSE None]
  BY QueueFacts DEF QueueHolds

LEMMA ValuesPromisedNext ==
    ASSUME RInv'
    PROVE  /\ holder'.op # "update" =>
                ArrivedValue' = [k \in Keys |->
                    IF k \in Range(Arrived'.order) THEN nodeVal'[index'[k]] ELSE None]
           /\ holder'.op = "update" =>
                ArrivedValue' = [k \in Keys |->
                    IF k = holder'.key THEN holder'.value
                    ELSE IF k \in Range(Arrived'.order) THEN nodeVal'[index'[k]] ELSE None]
  BY QueueFactsNext DEF QueueHolds

(* What every action may start from.                                       *)
LEMMA QueueNow ==
    ASSUME RInv
    PROVE  /\ InQueue = [order |-> keyOrder, visited |-> marks, hand |-> KeyAt(hand)]
           /\ keyOrder \in Seq(Keys) /\ IsInjective(keyOrder) /\ Len(keyOrder) = size
           /\ \A k \in Keys : k \in Range(keyOrder) <=> index[k] # None
           /\ \A k \in Keys : index[k] # None => index[k] \in live
           /\ hand \in live \cup {None} /\ Range(keyOrder) \subseteq Keys
           /\ TypeOK
  BY QueueFacts DEF QueueHolds, RInv, IInv, Structure, NoDangling, Range

(* get of a key that is there leaves its mark and moves nothing.           *)
LEMMA GetHitEffect ==
    ASSUME RInv, RInv', NEW k \in Keys, GetHit(k)
    PROVE  Q!QGet(k)
<1>1. QueueHolds /\ QueueHolds' /\ TypeOK /\ TypeOK'
  BY QueueFacts, QueueFactsNext DEF RInv, IInv
<1>2. /\ holder = Free /\ holder' = Free /\ index[k] # None
      /\ visited' = [visited EXCEPT ![index[k]] = TRUE]
      /\ UNCHANGED <<index, hand, list, nodeKey, nodeVal, live>>
  BY DEF GetHit, content
<1>3. keyOrder' = keyOrder
  <2>1. chain' = chain
    BY <1>2, ChainStays DEF RInv
  <2> HIDE DEF chain
  <2> QED BY <1>2, <2>1 DEF keyOrder
<1>4. marks' = marks \cup {k}
  <2>1. /\ marks \in SUBSET Keys /\ marks' \in SUBSET Keys
        /\ \A x \in Keys : x \in marks <=> index[x] # None /\ visited[index[x]]
        /\ \A x \in Keys : x \in marks' <=> index'[x] # None /\ visited'[index'[x]]
    BY <1>1 DEF QueueHolds
  <2>2. ASSUME NEW x \in Keys, x # k, index[x] # None PROVE visited'[index[x]] = visited[index[x]]
    <3>1. index[x] # index[k] /\ index[x] \in Nodes /\ index[k] \in Nodes
      BY <1>2, <2>2 DEF RInv, IInv, Structure, IndexOwnsNodes, TypeOK
    <3> QED BY <1>1, <1>2, <3>1 DEF TypeOK
  <2>3. visited'[index[k]]
    BY <1>1, <1>2 DEF TypeOK
  <2> QED BY <1>2, <2>1, <2>2, <2>3
<1>5. KeyAt(hand)' = KeyAt(hand)
  BY <1>2 DEF KeyAt
<1>6. Arrived = InQueue /\ Arrived' = InQueue' /\ holder.op # "update" /\ holder'.op # "update"
  BY <1>1, <1>2, ArrivedCases, ArrivedCasesNext
<1>7. InQueue' = [order |-> keyOrder, visited |-> marks \cup {k}, hand |-> KeyAt(hand)]
  BY <1>1, <1>3, <1>4, <1>5 DEF QueueHolds
<1>8. ArrivedValue' = ArrivedValue
  <2>1. Arrived'.order = keyOrder /\ Arrived.order = keyOrder
    BY <1>6, <1>7, QueueNow
  <2> QED BY <1>2, <1>6, <2>1, ValuesPromised, ValuesPromisedNext
<1>9. k \in Q!Cached
  BY <1>2, <1>6, QueueNow, SameLibrary DEF Q!Cached
<1> QED BY <1>6, <1>7, <1>8, <1>9, QueueNow DEF Q!QGet

(* remove takes the key and its mark out; a hand on it moves on.           *)
LEMMA RemoveEffect ==
    ASSUME RInv, RInv', NEW k \in Keys, RemoveKey(k)
    PROVE  Q!QRemove(k)
<1>1. TypeOK /\ TypeOK'
  BY DEF RInv, IInv
<1>2. holder = Free /\ holder' = Free /\ index[k] # None /\ UnlinkAndFree(index[k], hand)
  BY DEF RemoveKey
<1>3. /\ k \in Range(keyOrder) /\ k \notin Range(keyOrder')
      /\ Range(keyOrder') \subseteq Range(keyOrder)
      /\ \A x \in Keys : index[x] # None /\ x # k =>
            /\ x \in Range(keyOrder')
            /\ index'[x] = index[x] /\ nodeVal'[index[x]] = nodeVal[index[x]]
      /\ InQueue' = [order   |-> S!Without(keyOrder, k),
                     visited |-> marks \ {k},
                     hand    |-> S!HandWithout(keyOrder, KeyAt(hand), k)]
      /\ keyOrder' = S!Without(keyOrder, k)
  BY <1>2, QueueNow, UnlinkEffect
<1>4. Arrived = InQueue /\ Arrived' = InQueue' /\ holder.op # "update" /\ holder'.op # "update"
  BY <1>1, <1>2, ArrivedCases, ArrivedCasesNext
<1>5. /\ Arrived.order = keyOrder /\ Arrived.visited = marks /\ Arrived.hand = KeyAt(hand)
      /\ Arrived'.order = keyOrder' /\ Arrived'.visited = marks \ {k}
      /\ Arrived'.hand = S!HandWithout(keyOrder, KeyAt(hand), k)
  BY <1>3, <1>4, QueueNow
<1>6. ArrivedValue' = [ArrivedValue EXCEPT ![k] = None]
  <2>1. \A x \in Keys : x \in Range(keyOrder') <=> x \in Range(keyOrder) /\ x # k
    BY <1>3, QueueNow
  <2>2. ArrivedValue = [x \in Keys |->
          IF x \in Range(keyOrder) THEN nodeVal[index[x]] ELSE None]
    BY <1>4, <1>5, ValuesPromised
  <2>3. ArrivedValue' = [x \in Keys |->
          IF x \in Range(keyOrder') THEN nodeVal'[index'[x]] ELSE None]
    BY <1>4, <1>5, ValuesPromisedNext
  <2>4. \A x \in Keys : x \in Range(keyOrder) => index[x] # None
    BY QueueNow
  <2> QED BY <1>3, <2>1, <2>2, <2>3, <2>4
<1>7. k \in Q!Cached
  BY <1>3, <1>5, SameLibrary DEF Q!Cached
<1> QED BY <1>3, <1>5, <1>6, <1>7, SameLibrary DEF Q!QRemove

(* An update makes its key the newest, and unvisited, in its first step.   *)
LEMMA UpdateUnlinkEffect ==
    ASSUME RInv, RInv', NEW k \in Keys, NEW v \in Values, UpdateUnlink(k, v)
    PROVE  Q!QUpdate(k, v)
<1>1. TypeOK /\ TypeOK'
  BY DEF RInv, IInv
<1>2. /\ holder = Free /\ index[k] # None /\ UnlinkAndFree(index[k], hand)
      /\ holder'.op = "update" /\ holder'.key = k /\ holder'.value = v
  BY DEF UpdateUnlink, Updating
<1>3. /\ k \in Range(keyOrder) /\ k \notin Range(keyOrder')
      /\ Range(keyOrder') \subseteq Range(keyOrder)
      /\ \A x \in Keys : index[x] # None /\ x # k =>
            /\ x \in Range(keyOrder')
            /\ index'[x] = index[x] /\ nodeVal'[index[x]] = nodeVal[index[x]]
      /\ InQueue' = [order   |-> S!Without(keyOrder, k),
                     visited |-> marks \ {k},
                     hand    |-> S!HandWithout(keyOrder, KeyAt(hand), k)]
      /\ keyOrder' = S!Without(keyOrder, k)
  BY <1>2, QueueNow, UnlinkEffect
<1>4. /\ Arrived = InQueue /\ holder.op # "update"
      /\ Arrived' = [InQueue' EXCEPT !.order = Append(@, k)]
  BY <1>1, <1>2, ArrivedCases, ArrivedCasesNext
<1>5. /\ Arrived.order = keyOrder /\ Arrived.visited = marks /\ Arrived.hand = KeyAt(hand)
      /\ Arrived'.order = Append(keyOrder', k) /\ Arrived'.visited = marks \ {k}
      /\ Arrived'.hand = S!HandWithout(keyOrder, KeyAt(hand), k)
  BY <1>3, <1>4, QueueNow
<1>6. ArrivedValue' = [ArrivedValue EXCEPT ![k] = v]
  <2>1. \A x \in Keys : x \in Range(Arrived'.order) <=> x \in Range(keyOrder)
    <3>1. Range(Append(keyOrder', k)) = Range(keyOrder') \cup {k}
      BY QueueFactsNext, AppendKeeps DEF QueueHolds
    <3> QED BY <1>3, <1>5, <3>1, QueueNow
  <2>2. ArrivedValue = [x \in Keys |->
          IF x \in Range(keyOrder) THEN nodeVal[index[x]] ELSE None]
    BY <1>4, <1>5, ValuesPromised
  <2>3. ArrivedValue' = [x \in Keys |-> IF x = k THEN v
          ELSE IF x \in Range(Arrived'.order) THEN nodeVal'[index'[x]] ELSE None]
    BY <1>2, ValuesPromisedNext
  <2>4. \A x \in Keys : x \in Range(keyOrder) => index[x] # None
    BY QueueNow
  <2> QED BY <1>3, <2>1, <2>2, <2>3, <2>4
<1>7. k \in Q!Cached
  BY <1>3, <1>5, SameLibrary DEF Q!Cached
<1> QED BY <1>3, <1>5, <1>6, <1>7, SameLibrary DEF Q!QUpdate

(* The rest of an update changes nothing a caller is promised.             *)
LEMMA UpdateRelinkEffect ==
    ASSUME RInv, RInv', UpdateRelink
    PROVE  UNCHANGED <<Arrived, ArrivedValue>>
<1> DEFINE k == holder.key
           v == holder.value
<1>1. TypeOK /\ TypeOK'
  BY DEF RInv, IInv
<1>2. /\ holder.op = "update" /\ k \in Keys /\ v \in Values
      /\ index[k] = None /\ hand' = hand /\ holder' = Free
  BY <1>1, HolderCases DEF UpdateRelink, RInv, IInv, UpdatedKeyIsOut
<1>3. PICK n \in Nodes : LinkAtHead(n, k, v)
  BY DEF UpdateRelink
<1> HIDE DEF k, v
<1>4. /\ keyOrder' = Append(keyOrder, k) /\ k \notin Range(keyOrder)
      /\ Range(keyOrder') = Range(keyOrder) \cup {k}
      /\ nodeVal'[index'[k]] = v
      /\ \A x \in Keys : x \in Range(keyOrder) =>
            index'[x] = index[x] /\ nodeVal'[index[x]] = nodeVal[index[x]]
      /\ InQueue' = [order   |-> Append(keyOrder, k),
                     visited |-> marks,
                     hand    |-> KeyAt(hand)]
  BY <1>2, <1>3, LinkEffect
<1>5. /\ Arrived = [InQueue EXCEPT !.order = Append(@, k)]
      /\ Arrived' = InQueue' /\ holder'.op # "update"
  BY <1>1, <1>2, ArrivedCases, ArrivedCasesNext DEF k
<1>6. Arrived' = Arrived
  <2> DEFINE s == keyOrder
             marked == marks
             h == KeyAt(hand)
  <2>1. InQueue = [order |-> s, visited |-> marked, hand |-> h]
    BY QueueNow
  <2> HIDE DEF s, marked, h
  <2>2. [InQueue EXCEPT !.order = Append(@, k)] =
           [order |-> Append(s, k), visited |-> marked, hand |-> h]
    BY ONLY <2>1
  <2> QED BY <1>4, <1>5, <2>2 DEF s, marked, h
<1>7. Arrived.order = keyOrder'
  BY <1>4, <1>5, QueueNow
<1>8. ArrivedValue' = ArrivedValue
  <2>1. ArrivedValue = [x \in Keys |-> IF x = k THEN v
          ELSE IF x \in Range(keyOrder') THEN nodeVal[index[x]] ELSE None]
    BY <1>2, <1>7, ValuesPromised DEF k, v
  <2>2. ArrivedValue' = [x \in Keys |->
          IF x \in Range(keyOrder') THEN nodeVal'[index'[x]] ELSE None]
    BY <1>5, <1>6, <1>7, ValuesPromisedNext
  <2> QED BY <1>4, <2>1, <2>2
<1> QED BY <1>6, <1>8

(* The queue after the eviction that is under way: the first key from the   *)
(* hand on that is not visited leaves.                                     *)
LEMMA EvictionTakes ==
    ASSUME RInv, NEW start \in 1 .. Len(keyOrder), NEW stop \in start .. Len(keyOrder),
           IF KeyAt(hand) = None THEN start = 1 ELSE keyOrder[start] = KeyAt(hand),
           keyOrder[stop] \notin marks, \A j \in start .. stop - 1 : keyOrder[j] \in marks
    PROVE  S!Evicted(InQueue) =
              [order   |-> RemoveAt(keyOrder, stop),
               visited |-> marks \ {keyOrder[j] : j \in start .. stop},
               hand    |-> IF Len(keyOrder) = 1 THEN None
                           ELSE IF stop = Len(keyOrder) THEN keyOrder[1]
                           ELSE keyOrder[stop + 1]]
<1> DEFINE s == keyOrder
           marked == marks
           h == KeyAt(hand)
<1>1. /\ InQueue = [order |-> s, visited |-> marked, hand |-> h]
      /\ s \in Seq(Keys) /\ IsInjective(s)
  BY QueueNow
<1>2. /\ start \in 1 .. Len(s) /\ stop \in start .. Len(s)
      /\ IF h = None THEN start = 1 ELSE s[start] = h
      /\ s[stop] \notin marked /\ \A j \in start .. stop - 1 : s[j] \in marked
  OBVIOUS
<1> HIDE DEF s, marked, h
<1>3. S!Evicted([order |-> s, visited |-> marked, hand |-> h]) =
         [order   |-> RemoveAt(s, stop),
          visited |-> marked \ {s[j] : j \in start .. stop},
          hand    |-> IF Len(s) = 1 THEN None
                      ELSE IF stop = Len(s) THEN s[1] ELSE s[stop + 1]]
  BY ONLY <1>1, <1>2, EvictedIs
<1> QED BY <1>1, <1>3 DEF s, marked

LEMMA EvictionTakesNext ==
    RInv' => \A start \in 1 .. Len(keyOrder') : \A stop \in start .. Len(keyOrder') :
       /\ IF KeyAt(hand)' = None THEN start = 1 ELSE keyOrder'[start] = KeyAt(hand)'
       /\ keyOrder'[stop] \notin marks' /\ \A j \in start .. stop - 1 : keyOrder'[j] \in marks'
       => S!Evicted(InQueue') =
              [order   |-> RemoveAt(keyOrder', stop),
               visited |-> marks' \ {keyOrder'[j] : j \in start .. stop},
               hand    |-> IF Len(keyOrder') = 1 THEN None
                           ELSE IF stop = Len(keyOrder') THEN keyOrder'[1]
                           ELSE keyOrder'[stop + 1]]
<1> DEFINE Takes == \A start \in 1 .. Len(keyOrder) : \A stop \in start .. Len(keyOrder) :
       /\ IF KeyAt(hand) = None THEN start = 1 ELSE keyOrder[start] = KeyAt(hand)
       /\ keyOrder[stop] \notin marks /\ \A j \in start .. stop - 1 : keyOrder[j] \in marks
       => S!Evicted(InQueue) =
              [order   |-> RemoveAt(keyOrder, stop),
               visited |-> marks \ {keyOrder[j] : j \in start .. stop},
               hand    |-> IF Len(keyOrder) = 1 THEN None
                           ELSE IF stop = Len(keyOrder) THEN keyOrder[1]
                           ELSE keyOrder[stop + 1]]
<1>1. RInv => Takes
  BY EvictionTakes
<1>2. RInv' => Takes'
  BY <1>1, PTL
<1> QED BY <1>2

LEMMA EvictionKeeps ==
    RInv /\ MustEvict => Range(S!Evicted(InQueue).order) \subseteq Range(keyOrder)
<1> SUFFICES ASSUME RInv, MustEvict
             PROVE  Range(S!Evicted(InQueue).order) \subseteq Range(keyOrder)
  OBVIOUS
<1>1. PICK start \in 1 .. Len(keyOrder) : \E stop \in start .. Len(keyOrder) :
        /\ IF KeyAt(hand) = None THEN start = 1 ELSE keyOrder[start] = KeyAt(hand)
        /\ keyOrder[stop] \notin marks /\ \A j \in start .. stop - 1 : keyOrder[j] \in marks
  BY SweepFinds DEF SweepWillStop
<1>2. PICK stop \in start .. Len(keyOrder) :
        /\ IF KeyAt(hand) = None THEN start = 1 ELSE keyOrder[start] = KeyAt(hand)
        /\ keyOrder[stop] \notin marks /\ \A j \in start .. stop - 1 : keyOrder[j] \in marks
  BY <1>1
<1>3. S!Evicted(InQueue).order = RemoveAt(keyOrder, stop)
  BY <1>2, EvictionTakes
<1>4. Range(RemoveAt(keyOrder, stop)) = Range(keyOrder) \ {keyOrder[stop]}
  <2> DEFINE s == keyOrder
  <2>1. s \in Seq(Keys) /\ IsInjective(s) /\ stop \in 1 .. Len(s)
    BY QueueNow
  <2> HIDE DEF s
  <2>2. Range(RemoveAt(s, stop)) = Range(s) \ {s[stop]}
    BY <2>1, RemoveAtKeeps
  <2> QED BY <2>2 DEF s
<1> QED BY <1>3, <1>4

LEMMA EvictionKeepsNext ==
    RInv' /\ MustEvict' => Range(S!Evicted(InQueue').order) \subseteq Range(keyOrder')
<1> DEFINE Keeps == Range(S!Evicted(InQueue).order) \subseteq Range(keyOrder)
<1>1. RInv /\ MustEvict => Keeps
  BY EvictionKeeps
<1>2. RInv' /\ MustEvict' => Keeps'
  BY <1>1, PTL
<1> QED BY <1>2

(* An insertion makes its key the newest and, if the cache was full, the    *)
(* queue is already the one the eviction will leave.                       *)
LEMMA InsertNewEffect ==
    ASSUME RInv, RInv', NEW k \in Keys, NEW v \in Values, InsertNew(k, v)
    PROVE  Q!QInsert(k, v)
<1>1. TypeOK /\ TypeOK'
  BY DEF RInv, IInv
<1>2. /\ holder = Free /\ index[k] = None /\ hand' = hand /\ holder' = Evicting
  BY DEF InsertNew
<1>3. PICK n \in Nodes : LinkAtHead(n, k, v)
  BY DEF InsertNew
<1>4. /\ keyOrder' = Append(keyOrder, k) /\ k \notin Range(keyOrder)
      /\ Range(keyOrder') = Range(keyOrder) \cup {k}
      /\ nodeVal'[index'[k]] = v
      /\ \A x \in Keys : x \in Range(keyOrder) =>
            index'[x] = index[x] /\ nodeVal'[index[x]] = nodeVal[index[x]]
      /\ InQueue' = [order   |-> Append(keyOrder, k),
                     visited |-> marks,
                     hand    |-> KeyAt(hand)]
  BY <1>2, <1>3, LinkEffect
<1>5. /\ Arrived = InQueue /\ holder.op # "update" /\ holder'.op # "update"
      /\ Arrived' = IF size' > Capacity THEN S!Evicted(InQueue') ELSE InQueue'
  BY <1>1, <1>2, ArrivedCases, ArrivedCasesNext
<1>6. Arrived.order = keyOrder /\ Arrived.visited = marks /\ Arrived.hand = KeyAt(hand)
  BY <1>5, QueueNow
<1>7. size' > Capacity <=> ~(Len(keyOrder) < Capacity)
  <2>1. size' = size + 1 /\ size \in Nat /\ Len(keyOrder) = size
    BY <1>1, <1>2, QueueNow, SizeSteps, UsizeAssumption
    DEF InsertNew, RInv, IInv, SizeBound, Free, Evicting, TypeOK
  <2> QED BY <2>1, CapacityAssumption
<1> DEFINE pushed == [order |-> Append(keyOrder, k), visited |-> marks, hand |-> KeyAt(hand)]
           after == IF Len(keyOrder) < Capacity THEN pushed ELSE S!Evicted(pushed)
<1>8. Arrived' = after
  BY <1>4, <1>5, <1>7
<1>9. Range(Arrived'.order) \subseteq Range(keyOrder) \cup {k}
  <2>1. CASE size' > Capacity
    <3>1. MustEvict' /\ Arrived' = S!Evicted(InQueue')
      BY <1>2, <1>5, <2>1 DEF MustEvict
    <3> QED BY <1>4, <3>1, EvictionKeepsNext
  <2>2. CASE ~(size' > Capacity)
    <3>1. Arrived'.order = keyOrder'
      BY <1>4, <1>5, <2>2
    <3> QED BY <1>4, <3>1
  <2> QED BY <2>1, <2>2
<1>10. ArrivedValue' = [x \in Keys |-> IF x \notin Range(Arrived'.order) THEN None
                                       ELSE IF x = k THEN v ELSE ArrivedValue[x]]
  <2>1. ArrivedValue = [x \in Keys |->
          IF x \in Range(keyOrder) THEN nodeVal[index[x]] ELSE None]
    BY <1>5, <1>6, ValuesPromised
  <2>2. ArrivedValue' = [x \in Keys |->
          IF x \in Range(Arrived'.order) THEN nodeVal'[index'[x]] ELSE None]
    BY <1>5, ValuesPromisedNext
  <2> QED BY <1>4, <1>9, <2>1, <2>2
<1>11. k \notin Q!Cached
  BY <1>4, <1>6, SameLibrary DEF Q!Cached
<1> QED BY <1>6, <1>8, <1>10, <1>11, SameLibrary DEF Q!QInsert

(* A turn of the sweep takes a mark and moves the hand, and the key it will *)
(* stop at is the same as before.                                          *)
LEMMA SweepVisitedEffect ==
    ASSUME RInv, RInv', SweepVisited
    PROVE  UNCHANGED <<Arrived, ArrivedValue>>
<1>1. QueueHolds /\ QueueHolds' /\ TypeOK /\ TypeOK'
  BY QueueFacts, QueueFactsNext DEF RInv, IInv
<1>2. /\ holder = Evicting /\ holder' = Evicting /\ size > Capacity /\ size' = size
      /\ MustEvict /\ visited[UnderHand]
      /\ visited' = [visited EXCEPT ![UnderHand] = FALSE]
      /\ hand' = IF prev[UnderHand] # None THEN prev[UnderHand] ELSE tail
      /\ UNCHANGED <<index, list, nodeKey, nodeVal, live>>
  BY DEF SweepVisited, MustEvict, content
<1>3. PICK start \in 1 .. Len(keyOrder) : \E stop \in start .. Len(keyOrder) :
        /\ UnderHand = chain[start]
        /\ IF KeyAt(hand) = None THEN start = 1 ELSE keyOrder[start] = KeyAt(hand)
        /\ keyOrder[stop] \notin marks /\ \A j \in start .. stop - 1 : keyOrder[j] \in marks
  BY <1>2, SweepFinds DEF SweepWillStop
<1>4. PICK stop \in start .. Len(keyOrder) :
        /\ UnderHand = chain[start]
        /\ IF KeyAt(hand) = None THEN start = 1 ELSE keyOrder[start] = KeyAt(hand)
        /\ keyOrder[stop] \notin marks /\ \A j \in start .. stop - 1 : keyOrder[j] \in marks
  BY <1>3
<1> DEFINE N == Len(keyOrder)
           k == keyOrder[start]
<1>5. N = Len(chain) /\ N \in Nat /\ start \in 1 .. N
  BY <1>1, QueueNow DEF QueueHolds
<1>6. keyOrder' = keyOrder
  <2>1. chain' = chain
    BY <1>2, ChainStays DEF RInv
  <2> HIDE DEF chain
  <2> QED BY <1>2, <2>1 DEF keyOrder
<1>7. /\ prev[UnderHand] = IF start = N THEN None ELSE chain[start + 1]
      /\ start # N => start + 1 \in 1 .. N
  BY <1>4, <1>5, ChainLinks
<1> HIDE DEF chain
<1>8. \A i \in 1 .. N : /\ chain[i] \in Nodes /\ chain[i] # None /\ keyOrder[i] \in Keys
                        /\ keyOrder[i] = nodeKey[chain[i]] /\ chain[i] = index[keyOrder[i]]
  BY <1>1, <1>5 DEF QueueHolds
<1>9. k \in Keys /\ index[k] = UnderHand /\ UnderHand \in Nodes /\ UnderHand # None
  BY <1>4, <1>5, <1>8
<1>10. k \in marks
  BY <1>1, <1>2, <1>9 DEF QueueHolds
<1>11. start # stop /\ start + 1 \in 1 .. N /\ stop \in start + 1 .. N /\ start # N
  <2>1. start # stop
    BY <1>4, <1>10
  <2> QED BY <1>4, <1>5, <2>1
<1>12. hand' = chain[start + 1] /\ KeyAt(hand)' = keyOrder[start + 1] /\ KeyAt(hand)' # None
  <2>1. hand' = chain[start + 1] /\ hand' # None
    BY <1>2, <1>7, <1>8, <1>11
  <2>2. keyOrder[start + 1] = nodeKey[hand'] /\ keyOrder[start + 1] \in Keys
    BY <1>8, <1>11, <2>1
  <2> QED BY <1>2, <2>1, <2>2, NoneAssumption DEF KeyAt
<1>13. marks' = marks \ {k}
  <2>1. /\ marks \in SUBSET Keys /\ marks' \in SUBSET Keys
        /\ \A x \in Keys : x \in marks <=> index[x] # None /\ visited[index[x]]
        /\ \A x \in Keys : x \in marks' <=> index'[x] # None /\ visited'[index'[x]]
    BY <1>1 DEF QueueHolds
  <2>2. ASSUME NEW x \in Keys, x # k, index[x] # None PROVE visited'[index[x]] = visited[index[x]]
    <3>1. index[x] # index[k] /\ index[x] \in Nodes
      BY <1>9, <2>2 DEF RInv, IInv, Structure, IndexOwnsNodes, TypeOK
    <3> QED BY <1>1, <1>2, <1>9, <3>1 DEF TypeOK
  <2>3. ~visited'[index[k]]
    BY <1>1, <1>2, <1>9 DEF TypeOK
  <2> QED BY <1>2, <1>9, <2>1, <2>2, <2>3
<1> DEFINE s == keyOrder
           m == marks
           next1 == start + 1
<1>14. s \in Seq(Keys) /\ \A i, j \in 1 .. N : s[i] = s[j] => i = j
  <2>1. keyOrder \in Seq(Keys) /\ IsInjective(keyOrder)
    BY QueueNow
  <2>2. DOMAIN keyOrder = 1 .. N
    BY <2>1
  <2> QED BY <2>1, <2>2 DEF IsInjective
<1>15. \A j \in next1 .. stop - 1 : s[j] \in marks'
  <2>1. ASSUME NEW j \in next1 .. stop - 1 PROVE s[j] \in m /\ s[j] # k
    <3>1. j \in start .. stop - 1 /\ j \in 1 .. N /\ j # start
      BY <1>5, <1>11
    <3> QED BY <1>4, <1>5, <1>14, <3>1
  <2> QED BY <1>13, <2>1
<1> DEFINE last == IF Len(s) = 1 THEN None ELSE IF stop = Len(s) THEN s[1] ELSE s[stop + 1]
<1>16. S!Evicted(InQueue) = [order   |-> RemoveAt(s, stop),
                             visited |-> m \ {s[j] : j \in start .. stop},
                             hand    |-> last]
  BY <1>4, EvictionTakes
<1>17. S!Evicted(InQueue') = [order   |-> RemoveAt(s, stop),
                              visited |-> marks' \ {s[j] : j \in next1 .. stop},
                              hand    |-> last]
  <2>1. /\ IF KeyAt(hand)' = None THEN next1 = 1 ELSE keyOrder'[next1] = KeyAt(hand)'
        /\ keyOrder'[stop] \notin marks'
        /\ \A j \in next1 .. stop - 1 : keyOrder'[j] \in marks'
    BY <1>4, <1>6, <1>12, <1>13, <1>15
  <2>2. next1 \in 1 .. Len(keyOrder') /\ stop \in next1 .. Len(keyOrder')
    BY <1>6, <1>11
  <2>3. S!Evicted(InQueue') =
              [order   |-> RemoveAt(keyOrder', stop),
               visited |-> marks' \ {keyOrder'[j] : j \in next1 .. stop},
               hand    |-> IF Len(keyOrder') = 1 THEN None
                           ELSE IF stop = Len(keyOrder') THEN keyOrder'[1]
                           ELSE keyOrder'[stop + 1]]
    <3> HIDE DEF next1
    <3> QED BY <2>1, <2>2, EvictionTakesNext
  <2> QED BY <1>6, <2>3
<1>18. marks' \ {s[j] : j \in next1 .. stop} = m \ {s[j] : j \in start .. stop}
  <2>1. \A j \in start .. stop : j = start \/ j \in next1 .. stop
    BY <1>5, <1>11
  <2>2. start \in start .. stop /\ \A j \in next1 .. stop : j \in start .. stop
    BY <1>5, <1>11
  <2> HIDE DEF next1
  <2> QED BY <1>13, <2>1, <2>2
<1>19. Arrived' = Arrived /\ holder.op # "update" /\ holder'.op # "update"
  <2>1. /\ Arrived = S!Evicted(InQueue) /\ Arrived' = S!Evicted(InQueue')
        /\ holder.op # "update" /\ holder'.op # "update"
    BY <1>1, <1>2, ArrivedCases, ArrivedCasesNext
  <2> DEFINE before == m \ {s[j] : j \in start .. stop}
             after == marks' \ {s[j] : j \in next1 .. stop}
  <2>2. before = after
    BY <1>18
  <2>3. /\ Arrived = [order |-> RemoveAt(s, stop), visited |-> before, hand |-> last]
        /\ Arrived' = [order |-> RemoveAt(s, stop), visited |-> after, hand |-> last]
    BY <1>16, <1>17, <2>1
  <2> HIDE DEF before, after, last
  <2> QED BY <2>1, <2>2, <2>3
<1>20. ArrivedValue' = ArrivedValue
  BY <1>2, <1>19, ValuesPromised, ValuesPromisedNext
<1> QED BY <1>19, <1>20

(* The eviction takes out the key the sweep has come to, and only now do    *)
(* the nodes hold the queue that was promised.                             *)
LEMMA EvictUnvisitedEffect ==
    ASSUME RInv, RInv', EvictUnvisited
    PROVE  UNCHANGED <<Arrived, ArrivedValue>>
<1>1. QueueHolds /\ TypeOK /\ TypeOK'
  BY QueueFacts DEF RInv, IInv
<1>2. /\ holder = Evicting /\ holder' = Evicting /\ size > Capacity /\ MustEvict
      /\ ~visited[UnderHand] /\ UnlinkAndFree(UnderHand, HandPast(UnderHand))
  BY DEF EvictUnvisited, MustEvict
<1>3. PICK start \in 1 .. Len(keyOrder) :
        /\ UnderHand = chain[start]
        /\ IF KeyAt(hand) = None THEN start = 1 ELSE keyOrder[start] = KeyAt(hand)
  BY <1>2, SweepFinds DEF SweepWillStop
<1> DEFINE N == Len(keyOrder)
           k == keyOrder[start]
           h == HandPast(UnderHand)
<1>4. N = Len(chain) /\ N \in Nat /\ start \in 1 .. N
  BY <1>1, QueueNow DEF QueueHolds
<1>5. /\ prev[UnderHand] = IF start = N THEN None ELSE chain[start + 1]
      /\ tail = chain[1] /\ 1 \in 1 .. N
      /\ start # N => start + 1 \in 1 .. N
  BY <1>3, <1>4, ChainLinks
<1> HIDE DEF chain
<1>6. \A i \in 1 .. N : /\ chain[i] \in live /\ chain[i] # None /\ keyOrder[i] \in Keys
                        /\ keyOrder[i] = nodeKey[chain[i]] /\ chain[i] = index[keyOrder[i]]
  BY <1>1, <1>4 DEF QueueHolds
<1>7. k \in Keys /\ index[k] = UnderHand /\ UnderHand # None
  BY <1>3, <1>4, <1>6
<1>8. k \notin marks
  BY <1>1, <1>2, <1>7 DEF QueueHolds
<1>9. keyOrder \in Seq(Keys) /\ IsInjective(keyOrder)
      /\ \A i, j \in 1 .. N : keyOrder[i] = keyOrder[j] => i = j
  <2>1. keyOrder \in Seq(Keys) /\ IsInjective(keyOrder)
    BY QueueNow
  <2>2. DOMAIN keyOrder = 1 .. N
    BY <2>1
  <2> QED BY <2>1, <2>2 DEF IsInjective
<1> DEFINE last == IF N = 1 THEN None ELSE IF start = N THEN keyOrder[1] ELSE keyOrder[start + 1]
<1>10. h \in live \cup {None} /\ KeyAt(h) = last /\ last # k
  <2>1. CASE start # N
    <3>1. h = chain[start + 1] /\ last = keyOrder[start + 1] /\ start + 1 # start
      BY <1>4, <1>5, <1>6, <2>1 DEF HandPast
    <3> QED BY <1>4, <1>5, <1>6, <1>9, <2>1, <3>1 DEF KeyAt
  <2>2. CASE start = N /\ N # 1
    <3>1. chain[1] # UnderHand
      BY <1>3, <1>4, <1>5, <1>6, <1>9, <2>2
    <3>2. h = chain[1] /\ last = keyOrder[1]
      BY <1>5, <2>2, <3>1 DEF HandPast
    <3> QED BY <1>4, <1>5, <1>6, <1>9, <2>2, <3>2 DEF KeyAt
  <2>3. CASE start = N /\ N = 1
    <3>1. h = None /\ last = None
      BY <1>3, <1>5, <2>3 DEF HandPast
    <3> QED BY <1>7, <3>1, NoneAssumption DEF KeyAt
  <2> QED BY <2>1, <2>2, <2>3
<1>11. index[k] # None /\ UnlinkAndFree(index[k], h)
  BY <1>2, <1>7
<1> HIDE DEF h, k
<1>12. /\ k \in Range(keyOrder) /\ k \notin Range(keyOrder')
       /\ Range(keyOrder') \subseteq Range(keyOrder)
       /\ \A x \in Keys : index[x] # None /\ x # k =>
             /\ x \in Range(keyOrder')
             /\ index'[x] = index[x] /\ nodeVal'[index[x]] = nodeVal[index[x]]
       /\ InQueue' = [order   |-> S!Without(keyOrder, k),
                      visited |-> marks \ {k},
                      hand    |-> S!HandWithout(keyOrder, KeyAt(h), k)]
       /\ keyOrder' = S!Without(keyOrder, k)
  BY <1>7, <1>10, <1>11, UnlinkEffect
<1>13. S!Without(keyOrder, k) = RemoveAt(keyOrder, start)
  BY <1>4, <1>9, WithoutIs DEF k
<1>14. S!HandWithout(keyOrder, KeyAt(h), k) = last
  <2> DEFINE s == keyOrder
             g == KeyAt(h)
  <2>1. s \in Seq(Keys) /\ IsInjective(s) /\ start \in 1 .. Len(s) /\ k = s[start]
    BY <1>4, <1>9 DEF k
  <2>2. g = last /\ last # k
    BY <1>10
  <2> HIDE DEF s, g, last
  <2>3. S!HandWithout(s, g, s[start]) = g
    BY <2>1, <2>2, WithoutIs
  <2> QED BY <2>1, <2>2, <2>3 DEF s, g
<1> DEFINE removed == RemoveAt(keyOrder, start)
           left == marks \ {k}
<1>15. InQueue' = [order |-> removed, visited |-> left, hand |-> last]
  BY <1>12, <1>13, <1>14
<1>16. S!Evicted(InQueue) = [order |-> removed, visited |-> left, hand |-> last]
  <2>1. start .. start - 1 = {} /\ start .. start = {start} /\ start \in start .. Len(keyOrder)
    BY <1>4
  <2>2. S!Evicted(InQueue) =
              [order   |-> RemoveAt(keyOrder, start),
               visited |-> marks \ {keyOrder[j] : j \in start .. start},
               hand    |-> IF Len(keyOrder) = 1 THEN None
                           ELSE IF start = Len(keyOrder) THEN keyOrder[1]
                           ELSE keyOrder[start + 1]]
    BY <1>3, <1>8, <2>1, EvictionTakes DEF k
  <2>3. marks \ {keyOrder[j] : j \in start .. start} = left
    BY <2>1 DEF k
  <2> QED BY <2>2, <2>3
<1>17. ~(size' > Capacity)
  <2>1. size = Capacity + 1 /\ size' = size - 1
    BY <1>1, <1>2, SizeSteps, CapacityAssumption, UsizeAssumption
    DEF EvictUnvisited, RInv, IInv, SizeBound, TypeOK
  <2> QED BY <2>1, CapacityAssumption
<1>18. /\ Arrived = S!Evicted(InQueue) /\ Arrived' = InQueue'
       /\ holder.op # "update" /\ holder'.op # "update"
  BY <1>1, <1>2, <1>17, ArrivedCases, ArrivedCasesNext
<1>19. Arrived' = Arrived
  BY <1>15, <1>16, <1>18
<1>20. Arrived.order = keyOrder'
  BY <1>12, <1>13, <1>16, <1>18
<1>21. ArrivedValue' = ArrivedValue
  <2>1. ArrivedValue = [x \in Keys |->
          IF x \in Range(keyOrder') THEN nodeVal[index[x]] ELSE None]
    BY <1>18, <1>20, ValuesPromised
  <2>2. ArrivedValue' = [x \in Keys |->
          IF x \in Range(keyOrder') THEN nodeVal'[index'[x]] ELSE None]
    BY <1>18, <1>19, <1>20, ValuesPromisedNext
  <2>3. \A x \in Keys : x \in Range(keyOrder) => index[x] # None
    BY QueueNow
  <2> QED BY <1>12, <2>1, <2>2, <2>3
<1> QED BY <1>19, <1>21

(* What leaves the list, the marks and the holder as they are is not seen. *)
LEMMA UnseenEffect ==
    ASSUME RInv, UNCHANGED <<index, hand, list, content, visited, live, size, holder>>
    PROVE  UNCHANGED <<Arrived, ArrivedValue>>
<1>1. chain' = chain
  BY ChainStays DEF RInv
<1> HIDE DEF chain
<1>2. keyOrder' = keyOrder
  BY <1>1 DEF keyOrder, content
<1>3. InQueue' = InQueue
  BY <1>2 DEF InQueue, content
<1>4. Arrived' = Arrived
  BY <1>3 DEF Arrived, MustEvict
<1> QED BY <1>4 DEF ArrivedValue, content

LEMMA InsertReturnEffect ==
    ASSUME RInv, RInv', InsertReturn
    PROVE  UNCHANGED <<Arrived, ArrivedValue>>
<1>1. TypeOK /\ TypeOK'
  BY DEF RInv, IInv
<1>2. /\ holder = Evicting /\ holder' = Free /\ ~(size > Capacity)
      /\ UNCHANGED <<index, hand, list, content, visited, live, size>>
  BY <1>1, CapacityAssumption DEF InsertReturn, TypeOK
<1>3. InQueue' = InQueue
  <2>1. chain' = chain
    BY <1>2, ChainStays DEF RInv
  <2> HIDE DEF chain
  <2>2. keyOrder' = keyOrder
    BY <1>2, <2>1 DEF keyOrder, content
  <2> QED BY <1>2, <2>2 DEF InQueue, content
<1>4. Arrived = InQueue /\ Arrived' = InQueue /\ holder.op # "update" /\ holder'.op # "update"
  BY <1>1, <1>2, <1>3, ArrivedCases, ArrivedCasesNext
<1>5. ArrivedValue' = ArrivedValue
  BY <1>2, <1>4, ValuesPromised, ValuesPromisedNext DEF content
<1> QED BY <1>4, <1>5

(* clear empties the queue.                                                *)
LEMMA ClearEffect ==
    ASSUME RInv, RInv', Clear
    PROVE  Q!QClear
<1>1. TypeOK /\ TypeOK' /\ QueueHolds'
  BY QueueFactsNext DEF RInv, IInv
<1>2. holder' = Free /\ hand' = None /\ index' = [k \in Keys |-> None]
  BY DEF Clear
<1>3. chain' = <<>>
  BY ChainCleared DEF RInv
<1> HIDE DEF chain
<1>4. keyOrder' = <<>>
  <2>1. keyOrder' \in Seq(Keys) /\ Len(keyOrder') = Len(chain')
    BY <1>1 DEF QueueHolds
  <2> QED BY <1>3, <2>1
<1>5. marks' = {}
  BY <1>1, <1>2 DEF QueueHolds
<1>6. InQueue' = [order |-> <<>>, visited |-> {}, hand |-> None]
  <2>1. InQueue' = [order |-> keyOrder', visited |-> marks', hand |-> KeyAt(hand)']
    BY <1>1 DEF QueueHolds
  <2>2. KeyAt(hand)' = None
    BY <1>2 DEF KeyAt
  <2> QED BY <1>4, <1>5, <2>1, <2>2
<1>7. Arrived' = InQueue' /\ holder'.op # "update"
  BY <1>1, <1>2, ArrivedCasesNext
<1>8. ArrivedValue' = [k \in Keys |-> None]
  <2>1. Range(<<>>) = {}
    BY DEF Range
  <2> QED BY <1>6, <1>7, <2>1, ValuesPromisedNext
<1> QED BY <1>6, <1>7, <1>8 DEF Q!QClear

(* A cache without entries promises none.                                  *)
LEMMA InitEffect == Init => Q!QInit
<1> SUFFICES ASSUME Init PROVE Q!QInit
  OBVIOUS
<1>1. RInv /\ chain = <<>> /\ TypeOK /\ QueueHolds
  BY InitRInv, QueueFacts DEF RInv, IInv
<1> HIDE DEF chain
<1>2. holder = Free /\ hand = None /\ index = [k \in Keys |-> None]
  BY DEF Init
<1>3. keyOrder = <<>>
  <2>1. keyOrder \in Seq(Keys) /\ Len(keyOrder) = Len(chain)
    BY <1>1 DEF QueueHolds
  <2> QED BY <1>1, <2>1
<1>4. marks = {}
  BY <1>1, <1>2 DEF QueueHolds
<1>5. InQueue = [order |-> <<>>, visited |-> {}, hand |-> None]
  <2>1. InQueue = [order |-> keyOrder, visited |-> marks, hand |-> KeyAt(hand)]
    BY <1>1 DEF QueueHolds
  <2>2. KeyAt(hand) = None
    BY <1>2 DEF KeyAt
  <2> QED BY <1>3, <1>4, <2>1, <2>2
<1>6. Arrived = InQueue /\ holder.op # "update"
  BY <1>1, <1>2, ArrivedCases
<1>7. ArrivedValue = [k \in Keys |-> None]
  <2>1. Range(<<>>) = {}
    BY DEF Range
  <2> QED BY <1>1, <1>5, <1>6, <2>1, ValuesPromised
<1> QED BY <1>5, <1>6, <1>7 DEF Q!QInit

-----------------------------------------------------------------------------
(* get, insert (of a new and of a known key), remove and clear each do in   *)
(* one step what SieveQueue says of the call, and what follows the first    *)
(* step of an insert, the sweep with it, changes nothing a caller sees.     *)
THEOREM EachCallTakesEffect == Spec => CallsTakeEffect
<1> DEFINE Effects ==
        /\ \A k \in Keys : /\ GetHit(k) => Q!QGet(k)
                           /\ RemoveKey(k) => Q!QRemove(k)
        /\ \A k \in Keys, v \in Values : /\ InsertNew(k, v) => Q!QInsert(k, v)
                                         /\ UpdateUnlink(k, v) => Q!QUpdate(k, v)
        /\ Clear => Q!QClear
        /\ HolderStep => UNCHANGED <<Arrived, ArrivedValue>>
<1>1. RInv /\ RInv' => Effects
  BY GetHitEffect, RemoveEffect, InsertNewEffect, UpdateUnlinkEffect, ClearEffect,
     UpdateRelinkEffect, SweepVisitedEffect, EvictUnvisitedEffect, InsertReturnEffect
  DEF HolderStep
<1>2. RInv /\ RInv' => [Effects]_vars
  BY <1>1
<1> QED BY RInvHolds, <1>2, PTL DEF CallsTakeEffect

(* The pointer program is a SIEVE queue: what is evicted is the first key   *)
(* from the hand on that was not visited, and no other, and every answer is *)
(* the last value inserted.                                                *)
THEOREM QueueRefined == Spec => ImplementsQueue
<1> DEFINE avars == <<Arrived.order, ArrivedValue, Arrived.visited, Arrived.hand>>
<1>1. RInv /\ RInv' /\ [Next]_vars => [Q!QNext]_avars
  <2> SUFFICES ASSUME RInv, RInv', [Next]_vars PROVE [Q!QNext]_avars
    OBVIOUS
  <2>1. CASE \E k \in Keys : GetHit(k)
    BY <2>1, GetHitEffect DEF Q!QNext
  <2>2. CASE UNCHANGED <<Arrived, ArrivedValue>>
    BY <2>2
  <2>3. CASE \E k \in Keys : GetMiss(k)
    BY <2>2, <2>3, UnseenEffect DEF GetMiss
  <2>4. CASE \E k \in Keys : RemoveKey(k)
    BY <2>4, RemoveEffect DEF Q!QNext
  <2>5. CASE \E k \in Keys, v \in Values : InsertNew(k, v)
    BY <2>5, InsertNewEffect DEF Q!QNext
  <2>6. CASE \E k \in Keys, v \in Values : UpdateUnlink(k, v)
    BY <2>6, UpdateUnlinkEffect DEF Q!QNext
  <2>7. CASE Clear
    BY <2>7, ClearEffect DEF Q!QNext
  <2>8. CASE HolderStep
    BY <2>2, <2>8, UpdateRelinkEffect, SweepVisitedEffect, EvictUnvisitedEffect,
       InsertReturnEffect DEF HolderStep
  <2>9. CASE UNCHANGED vars
    BY <2>2, <2>9, UnseenEffect DEF vars
  <2> QED BY <2>1, <2>3, <2>4, <2>5, <2>6, <2>7, <2>8, <2>9 DEF Next
<1> QED BY RInvHolds, InitEffect, <1>1, PTL DEF Spec, ImplementsQueue, Q!QSpec, Q!qvars
=============================================================================
