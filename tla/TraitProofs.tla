---------------------------- MODULE TraitProofs ----------------------------
(***************************************************************************)
(* What SieveCache promises its callers, for every set of keys, values and *)
(* threads and every capacity, 0 included; and what the default methods of *)
(* the Cache trait make of it when any number of threads call them.        *)
(***************************************************************************)
EXTENDS TraitCalls, QueueProofs

QInv == QTypeOK /\ QueueSound

(* A count of rewrites begins when its key is inserted.                    *)
CountsStartAtZero == \A k \in Keys : k \notin Cached => rewrites[k] = 0

TInv == TTypeOK /\ QueueSound /\ StampedeBound /\ CountsStartAtZero

-----------------------------------------------------------------------------
(* Operators of SieveOrder.                                                *)

(* The one place of a key in an order without repetition.                  *)
LEMMA PositionIs ==
    ASSUME NEW A, NEW s \in Seq(A), IsInjective(s), NEW k \in Range(s)
    PROVE  /\ Position(s, k) \in 1 .. Len(s) /\ s[Position(s, k)] = k
           /\ \A i \in 1 .. Len(s) : s[i] = k => i = Position(s, k)
           /\ Len(s) \in Nat
<1>1. DOMAIN s = 1 .. Len(s) /\ Len(s) \in Nat
  OBVIOUS
<1>2. \E i \in DOMAIN s : s[i] = k
  BY DEF Range
<1>3. Position(s, k) \in DOMAIN s /\ s[Position(s, k)] = k
  BY <1>2 DEF Position
<1> QED BY <1>1, <1>3 DEF IsInjective

(* An order without one of its keys.                                       *)
LEMMA WithoutKeeps ==
    ASSUME NEW A, NEW s \in Seq(A), IsInjective(s), NEW k \in Range(s)
    PROVE  /\ Without(s, k) \in Seq(A) /\ IsInjective(Without(s, k))
           /\ Len(Without(s, k)) = Len(s) - 1
           /\ Range(Without(s, k)) = Range(s) \ {k}
  BY PositionIs, RemoveAtKeeps DEF Without

(* The hand never stays at a key that leaves.                              *)
LEMMA HandWithoutKeeps ==
    ASSUME NEW A, NEW s \in Seq(A), IsInjective(s), NEW k \in Range(s),
           NEW h \in Range(s) \cup {NoKey}
    PROVE  HandWithout(s, h, k) \in (Range(s) \ {k}) \cup {NoKey}
<1>1. /\ Position(s, k) \in 1 .. Len(s) /\ Len(s) \in Nat
      /\ \A i \in 1 .. Len(s) : s[i] = k => i = Position(s, k)
  BY PositionIs
<1>2. \A i \in 1 .. Len(s) : s[i] \in Range(s)
  BY DEF Range
<1>3. CASE h # k
  BY <1>3 DEF HandWithout
<1>4. CASE h = k /\ Len(s) = 1
  BY <1>4 DEF HandWithout
<1>5. CASE h = k /\ Len(s) # 1 /\ Position(s, k) = Len(s)
  <2>1. 1 \in 1 .. Len(s) /\ 1 # Position(s, k)
    BY <1>1, <1>5
  <2> QED BY <1>1, <1>2, <1>5, <2>1 DEF HandWithout
<1>6. CASE h = k /\ Len(s) # 1 /\ Position(s, k) # Len(s)
  <2>1. Position(s, k) + 1 \in 1 .. Len(s) /\ Position(s, k) + 1 # Position(s, k)
    BY <1>1, <1>6
  <2> QED BY <1>1, <1>2, <1>6, <2>1 DEF HandWithout
<1> QED BY <1>3, <1>4, <1>5, <1>6

(* An eviction takes out one key, which was not visited, and puts the hand *)
(* on one that stays; it needs the newest entry to be unvisited.           *)
LEMMA EvictedKeeps ==
    ASSUME NEW A, NEW q, q.order \in Seq(A), IsInjective(q.order), q.order # <<>>,
           q.hand \in Range(q.order) \cup {NoKey},
           q.order[Len(q.order)] \notin q.visited
    PROVE  \E x \in Range(q.order) :
             /\ x \notin q.visited
             /\ Evicted(q).order = Without(q.order, x)
             /\ Evicted(q).visited \subseteq q.visited
             /\ Evicted(q).hand \in (Range(q.order) \ {x}) \cup {NoKey}
<1> DEFINE s == q.order
           N == Len(q.order)
           start == IF q.hand = NoKey THEN 1 ELSE Position(q.order, q.hand)
           Unvisited(i) == q.order[i] \notin q.visited
           Stop(i) == Unvisited(i) /\ \A j \in start .. i - 1 : q.order[j] \in q.visited
           stop == CHOOSE i \in start .. N : Stop(i)
<1>1. N \in Nat /\ N # 0 /\ DOMAIN s = 1 .. N
  OBVIOUS
<1>2. start \in 1 .. N
  <2>1. q.hand # NoKey => Position(s, q.hand) \in 1 .. N
    BY PositionIs
  <2> QED BY <1>1, <2>1
<1> HIDE DEF start
<1>3. \E i \in start .. N : Stop(i)
  <2> DEFINE T == {i \in start .. N : Unvisited(i)}
  <2>1. T \subseteq Nat /\ N \in T
    BY <1>1, <1>2
  <2>2. PICK i \in T : \A j \in T : i <= j
    BY <2>1, LeastElement
  <2>3. \A j \in start .. i - 1 : j \in start .. N /\ ~(i <= j)
    BY <1>1, <1>2
  <2>4. \A j \in start .. i - 1 : ~Unvisited(j)
    BY <2>2, <2>3
  <2> QED BY <2>2, <2>4
<1>4. stop \in start .. N /\ Unvisited(stop)
  BY <1>3
<1>5. /\ Evicted(q).order = Without(s, s[stop])
      /\ Evicted(q).visited \subseteq q.visited
      /\ Evicted(q).hand = HandWithout(s, s[stop], s[stop])
  BY DEF Evicted, start
<1> HIDE DEF stop
<1>6. stop \in 1 .. N
  BY <1>1, <1>2, <1>4
<1>7. s[stop] \in Range(s)
  BY <1>1, <1>6 DEF Range
<1>8. HandWithout(s, s[stop], s[stop]) \in (Range(s) \ {s[stop]}) \cup {NoKey}
  BY <1>7, HandWithoutKeeps
<1> QED BY <1>4, <1>5, <1>7, <1>8

-----------------------------------------------------------------------------
(* The queue: each operation keeps it sound.                               *)
LEMMA QInitSound == QInit => QInv
  BY CapacityAssumption DEF QInit, QInv, QTypeOK, QueueSound, Cached, Range, IsInjective

LEMMA QGetSound ==
    ASSUME QInv, NEW k \in Keys, QGet(k) PROVE QInv'
  BY DEF QInv, QTypeOK, QueueSound, Cached, QGet

(* The order after an update: the key goes to the end.                     *)
LEMMA UpdatedOrder ==
    ASSUME QInv, NEW k \in Cached
    PROVE  /\ Append(Without(order, k), k) \in Seq(Keys)
           /\ IsInjective(Append(Without(order, k), k))
           /\ Len(Append(Without(order, k), k)) = Len(order)
           /\ Range(Append(Without(order, k), k)) = Cached
<1>1. order \in Seq(Keys) /\ IsInjective(order) /\ k \in Range(order) /\ Len(order) \in Nat
  BY DEF QInv, QTypeOK, QueueSound, Cached
<1>2. k \in Keys
  BY <1>1 DEF Range
<1> DEFINE w == Without(order, k)
<1>3. /\ w \in Seq(Keys) /\ IsInjective(w) /\ Len(w) = Len(order) - 1
      /\ Range(w) = Range(order) \ {k}
  BY <1>1, WithoutKeeps
<1> HIDE DEF w
<1>4. /\ Append(w, k) \in Seq(Keys) /\ IsInjective(Append(w, k))
      /\ Range(Append(w, k)) = Range(w) \cup {k}
  BY <1>2, <1>3, AppendKeeps
<1>5. Len(Append(w, k)) = Len(order)
  BY <1>1, <1>2, <1>3
<1>6. Range(Append(w, k)) = Range(order)
  BY <1>1, <1>3, <1>4
<1> QED BY <1>4, <1>5, <1>6 DEF w, Cached

LEMMA QUpdateSound ==
    ASSUME QInv, NEW k \in Keys, NEW v \in Values, QUpdate(k, v) PROVE QInv' /\ Cached' = Cached
<1>1. /\ order \in Seq(Keys) /\ IsInjective(order) /\ k \in Range(order)
      /\ Len(order) <= Capacity /\ visited \subseteq Range(order) /\ visited \in SUBSET Keys
      /\ hand \in Range(order) \cup {NoKey} /\ value \in [Keys -> Values \cup {NoKey}]
      /\ \A x \in Keys : value[x] # NoKey <=> x \in Range(order)
  BY DEF QInv, QTypeOK, QueueSound, Cached, QUpdate
<1>2. /\ order' \in Seq(Keys) /\ IsInjective(order') /\ Len(order') = Len(order)
      /\ Range(order') = Range(order)
  BY UpdatedOrder DEF QUpdate, Cached
<1>3. hand' \in Range(order) \cup {NoKey}
  BY <1>1, HandWithoutKeeps DEF QUpdate
<1>4. value' = [value EXCEPT ![k] = v] /\ v # NoKey /\ visited' = visited \ {k}
  BY NoKeyAssumption DEF QUpdate
<1>5. value' \in [Keys -> Values \cup {NoKey}] /\ \A x \in Keys : value'[x] # NoKey <=> x \in Range(order)
  BY <1>1, <1>4
<1>6. hand' \in Keys \cup {NoKey}
  BY <1>1, <1>3 DEF Range
<1> QED BY <1>1, <1>2, <1>3, <1>4, <1>5, <1>6 DEF QInv, QTypeOK, QueueSound, Cached

LEMMA QRemoveSound ==
    ASSUME QInv, NEW k \in Keys, QRemove(k) PROVE QInv' /\ Cached' = Cached \ {k}
<1>1. /\ order \in Seq(Keys) /\ IsInjective(order) /\ k \in Range(order) /\ Len(order) \in Nat
      /\ Len(order) <= Capacity /\ visited \subseteq Range(order) /\ visited \in SUBSET Keys
      /\ hand \in Range(order) \cup {NoKey} /\ value \in [Keys -> Values \cup {NoKey}]
      /\ \A x \in Keys : value[x] # NoKey <=> x \in Range(order)
  BY DEF QInv, QTypeOK, QueueSound, Cached, QRemove
<1>2. /\ order' \in Seq(Keys) /\ IsInjective(order') /\ Len(order') = Len(order) - 1
      /\ Range(order') = Range(order) \ {k}
  BY <1>1, WithoutKeeps DEF QRemove
<1>3. hand' \in (Range(order) \ {k}) \cup {NoKey}
  BY <1>1, HandWithoutKeeps DEF QRemove
<1>4. value' = [value EXCEPT ![k] = NoKey] /\ visited' = visited \ {k}
  BY DEF QRemove
<1>5. /\ value' \in [Keys -> Values \cup {NoKey}]
      /\ \A x \in Keys : value'[x] # NoKey <=> x \in Range(order) /\ x # k
  BY <1>1, <1>4
<1>6. hand' \in Keys \cup {NoKey}
  BY <1>1, <1>3 DEF Range
<1>7. Len(order') <= Capacity
  BY <1>1, <1>2, CapacityAssumption
<1> QED BY <1>1, <1>2, <1>3, <1>4, <1>5, <1>6, <1>7 DEF QInv, QTypeOK, QueueSound, Cached

LEMMA QClearSound ==
    ASSUME QInv, QClear PROVE QInv' /\ Cached' = {}
  BY CapacityAssumption DEF QInv, QClear, QTypeOK, QueueSound, Cached, Range, IsInjective

(* An insertion into a cache with room evicts nothing; into a full one,    *)
(* one key, which was not visited: with capacity 0, the new one.           *)
LEMMA QInsertSteps ==
    ASSUME QInv, NEW k \in Keys, NEW v \in Values, QInsert(k, v)
    PROVE  LET pushed == Append(order, k)
           IN  /\ k \notin Cached /\ pushed \in Seq(Keys) /\ IsInjective(pushed)
               /\ Range(pushed) = Cached \cup {k}
               /\ \/ /\ Len(order) < Capacity
                     /\ order' = pushed /\ visited' = visited /\ hand' = hand
                  \/ /\ Len(order) = Capacity
                     /\ \E x \in Range(pushed) :
                          /\ x \notin visited
                          /\ order' = Without(pushed, x)
                          /\ visited' \subseteq visited
                          /\ hand' \in (Range(pushed) \ {x}) \cup {NoKey}
<1> DEFINE pushed == Append(order, k)
           q == [order |-> pushed, visited |-> visited, hand |-> hand]
<1>1. /\ order \in Seq(Keys) /\ IsInjective(order) /\ k \notin Range(order) /\ Len(order) \in Nat
      /\ Len(order) <= Capacity /\ visited \subseteq Range(order)
      /\ hand \in Range(order) \cup {NoKey}
  BY DEF QInv, QTypeOK, QueueSound, Cached, QInsert
<1>2. /\ pushed \in Seq(Keys) /\ IsInjective(pushed) /\ Range(pushed) = Range(order) \cup {k}
  BY <1>1, AppendKeeps
<1>3. pushed # <<>> /\ pushed[Len(pushed)] = k
  BY <1>1
<1> HIDE DEF pushed
<1>4. CASE Len(order) < Capacity
  <2>1. order' = q.order /\ visited' = q.visited /\ hand' = q.hand
    BY <1>4 DEF QInsert, pushed
  <2> QED BY <1>1, <1>2, <1>4, <2>1 DEF pushed, Cached
<1>5. CASE ~(Len(order) < Capacity)
  <2>1. order' = Evicted(q).order /\ visited' = Evicted(q).visited /\ hand' = Evicted(q).hand
    BY <1>5 DEF QInsert, pushed
  <2>2. q.order = pushed /\ q.visited = visited /\ q.hand = hand
    OBVIOUS
  <2> HIDE DEF q
  <2>3. q.hand \in Range(q.order) \cup {NoKey} /\ q.order[Len(q.order)] \notin q.visited
    BY <1>1, <1>2, <1>3, <2>2
  <2>4. \E x \in Range(pushed) :
          /\ x \notin visited
          /\ Evicted(q).order = Without(pushed, x)
          /\ Evicted(q).visited \subseteq visited
          /\ Evicted(q).hand \in (Range(pushed) \ {x}) \cup {NoKey}
    BY <1>2, <1>3, <2>2, <2>3, EvictedKeeps
  <2>5. Len(order) = Capacity
    BY <1>1, <1>5, CapacityAssumption
  <2> QED BY <1>1, <1>2, <2>1, <2>4, <2>5 DEF pushed, Cached
<1> QED BY <1>4, <1>5

LEMMA QInsertSound ==
    ASSUME QInv, NEW k \in Keys, NEW v \in Values, QInsert(k, v)
    PROVE  /\ QInv' /\ visited \subseteq Cached' /\ Cached' \subseteq Cached \cup {k}
           /\ \/ Cached \subseteq Cached'
              \/ Len(order) = Capacity /\ Len(order') = Capacity
<1> DEFINE pushed == Append(order, k)
<1>1. /\ order \in Seq(Keys) /\ Len(order) \in Nat /\ visited \subseteq Cached
      /\ visited \in SUBSET Keys
      /\ Len(order) <= Capacity /\ hand \in Cached \cup {NoKey}
      /\ value \in [Keys -> Values \cup {NoKey}]
      /\ \A x \in Keys : value[x] # NoKey <=> x \in Cached
  BY DEF QInv, QTypeOK, QueueSound
<1>2. /\ k \notin Cached /\ pushed \in Seq(Keys) /\ IsInjective(pushed)
      /\ Range(pushed) = Cached \cup {k} /\ Len(pushed) = Len(order) + 1
  BY <1>1, QInsertSteps
<1>3. value' = [x \in Keys |-> IF x \notin Cached' THEN NoKey
                               ELSE IF x = k THEN v ELSE value[x]]
  BY DEF QInsert, Cached
<1>4. \/ /\ Len(order) < Capacity
         /\ order' = pushed /\ visited' = visited /\ hand' = hand
      \/ /\ Len(order) = Capacity
         /\ \E x \in Range(pushed) :
              /\ x \notin visited
              /\ order' = Without(pushed, x)
              /\ visited' \subseteq visited
              /\ hand' \in (Range(pushed) \ {x}) \cup {NoKey}
  BY QInsertSteps
<1> HIDE DEF pushed
<1>5. /\ order' \in Seq(Keys) /\ IsInjective(order') /\ Len(order') <= Capacity
      /\ visited' \subseteq visited /\ visited \subseteq Cached'
      /\ hand' \in Cached' \cup {NoKey} /\ Cached' \subseteq Cached \cup {k}
      /\ \/ Cached \subseteq Cached'
         \/ Len(order) = Capacity /\ Len(order') = Capacity
  <2>1. CASE /\ Len(order) < Capacity
             /\ order' = pushed /\ visited' = visited /\ hand' = hand
    <3>1. Cached' = Cached \cup {k}
      BY <1>2, <2>1 DEF Cached
    <3>2. Len(order') <= Capacity
      BY <1>1, <1>2, <2>1, CapacityAssumption
    <3> QED BY <1>1, <1>2, <2>1, <3>1, <3>2
  <2>2. CASE /\ Len(order) = Capacity
             /\ \E x \in Range(pushed) :
                  /\ x \notin visited
                  /\ order' = Without(pushed, x)
                  /\ visited' \subseteq visited
                  /\ hand' \in (Range(pushed) \ {x}) \cup {NoKey}
    <3>0. PICK x \in Range(pushed) :
            /\ x \notin visited
            /\ order' = Without(pushed, x)
            /\ visited' \subseteq visited
            /\ hand' \in (Range(pushed) \ {x}) \cup {NoKey}
      BY <2>2
    <3>1. /\ order' \in Seq(Keys) /\ IsInjective(order') /\ Len(order') = Len(pushed) - 1
          /\ Range(order') = Range(pushed) \ {x}
      BY <1>2, <3>0, WithoutKeeps
    <3>2. Cached' = (Cached \cup {k}) \ {x}
      BY <1>2, <3>1 DEF Cached
    <3>3. Len(order') = Capacity
      BY <1>1, <1>2, <2>2, <3>0, <3>1
    <3>4. Len(order') <= Capacity
      BY <3>3, CapacityAssumption
    <3>5. visited \subseteq Cached'
      BY <1>1, <3>0, <3>2
    <3>6. hand' \in Cached' \cup {NoKey}
      BY <1>2, <3>0, <3>2
    <3>7. Cached' \subseteq Cached \cup {k}
      BY <3>2
    <3> QED BY <2>2, <3>0, <3>1, <3>3, <3>4, <3>5, <3>6, <3>7
  <2> QED BY <1>4, <2>1, <2>2
<1>6. value' \in [Keys -> Values \cup {NoKey}]
  BY <1>1, <1>3
<1>7. \A x \in Keys : value'[x] # NoKey <=> x \in Cached'
  BY <1>1, <1>3, <1>5, NoKeyAssumption
<1>8. hand' \in Keys \cup {NoKey} /\ visited' \in SUBSET Keys /\ visited' \subseteq Cached'
  BY <1>1, <1>5 DEF Cached, Range
<1> QED BY <1>5, <1>6, <1>7, <1>8 DEF QInv, QTypeOK, QueueSound, Cached

LEMMA QStepSound == QInv /\ [QNext]_qvars => QInv'
<1> SUFFICES ASSUME QInv, [QNext]_qvars PROVE QInv'
  OBVIOUS
<1>1. CASE QNext
  BY <1>1, QGetSound, QUpdateSound, QInsertSound, QRemoveSound, QClearSound DEF QNext
<1>2. CASE UNCHANGED qvars
  BY <1>2 DEF qvars, QInv, QTypeOK, QueueSound, Cached
<1> QED BY <1>1, <1>2

-----------------------------------------------------------------------------
(* Age: what an operation can do to the order of two keys.                 *)
LEMMA BeforeIsOrder ==
    ASSUME NEW A, NEW s \in Seq(A), IsInjective(s), NEW a, NEW b
    PROVE  ~(Before(s, a, b) /\ Before(s, b, a))
<1>1. DOMAIN s = 1 .. Len(s) /\ Len(s) \in Nat
  OBVIOUS
<1> SUFFICES ASSUME Before(s, a, b), Before(s, b, a) PROVE FALSE
  OBVIOUS
<1>2. PICK i \in 1 .. Len(s), j \in 1 .. Len(s) : i < j /\ s[i] = a /\ s[j] = b
  BY <1>1 DEF Before
<1>3. PICK g \in 1 .. Len(s), h \in 1 .. Len(s) : g < h /\ s[g] = b /\ s[h] = a
  BY <1>1 DEF Before
<1>4. i = h /\ j = g
  BY <1>1, <1>2, <1>3 DEF IsInjective
<1> QED BY <1>2, <1>3, <1>4

LEMMA BeforeInAppend ==
    ASSUME NEW A, NEW s \in Seq(A), NEW x \in A, NEW a, NEW b,
           x \notin Range(s), Before(Append(s, x), a, b)
    PROVE  a # x /\ (b # x => Before(s, a, b))
<1> DEFINE r == Append(s, x)
<1>1. /\ Len(s) \in Nat /\ DOMAIN s = 1 .. Len(s) /\ DOMAIN r = 1 .. Len(s) + 1
      /\ r[Len(s) + 1] = x /\ \A i \in 1 .. Len(s) : r[i] = s[i]
  OBVIOUS
<1>2. PICK i \in DOMAIN r, j \in DOMAIN r : i < j /\ r[i] = a /\ r[j] = b
  BY DEF Before
<1> HIDE DEF r
<1>3. i \in 1 .. Len(s) /\ (j = Len(s) + 1 \/ j \in 1 .. Len(s))
  BY <1>1, <1>2
<1>4. a # x
  BY <1>1, <1>2, <1>3 DEF Range
<1>5. ASSUME b # x PROVE Before(s, a, b)
  <2>1. j \in 1 .. Len(s)
    BY <1>1, <1>2, <1>3, <1>5
  <2> QED BY <1>1, <1>2, <1>3, <2>1 DEF Before
<1> QED BY <1>4, <1>5

LEMMA BeforeInWithout ==
    ASSUME NEW A, NEW s \in Seq(A), IsInjective(s), NEW k \in Range(s), NEW a, NEW b,
           Before(Without(s, k), a, b)
    PROVE  Before(s, a, b)
<1> DEFINE p == Position(s, k)
           r == Without(s, k)
<1>1. p \in 1 .. Len(s) /\ Len(s) \in Nat /\ DOMAIN s = 1 .. Len(s)
  BY PositionIs
<1>2. /\ r \in Seq(A) /\ Len(r) = Len(s) - 1
      /\ \A j \in 1 .. Len(s) - 1 : r[j] = IF j < p THEN s[j] ELSE s[j + 1]
  BY <1>1, RemoveAtKeeps DEF Without
<1>3. DOMAIN r = 1 .. Len(s) - 1
  BY <1>2
<1>4. PICK i \in DOMAIN r, j \in DOMAIN r : i < j /\ r[i] = a /\ r[j] = b
  BY DEF Before
<1> HIDE DEF r, p
<1> DEFINE From(m) == IF m < p THEN m ELSE m + 1
<1>5. From(i) \in DOMAIN s /\ From(j) \in DOMAIN s /\ From(i) < From(j)
  BY <1>1, <1>3, <1>4
<1>6. s[From(i)] = a /\ s[From(j)] = b
  BY <1>1, <1>2, <1>3, <1>4
<1> HIDE DEF From
<1> QED BY <1>5, <1>6 DEF Before

(* Only an update of the older of two keys changes which is older.         *)
LEMMA AgeKept ==
    ASSUME QInv, [QNext]_qvars, NEW a \in Cached, NEW b \in Cached,
           Before(order, a, b), Before(order', b, a)
    PROVE  \E v \in Values : QUpdate(a, v)
<1>1. order \in Seq(Keys) /\ IsInjective(order) /\ Cached = Range(order)
  BY DEF QInv, QTypeOK, QueueSound, Cached
<1>2. ~Before(order, b, a)
  BY <1>1, BeforeIsOrder
<1>3. ~UNCHANGED order
  BY <1>2
<1>4. CASE \E k \in Keys : QRemove(k)
  <2>1. PICK k \in Keys : QRemove(k)
    BY <1>4
  <2>2. k \in Range(order) /\ order' = Without(order, k)
    BY <2>1 DEF QRemove, Cached
  <2> QED BY <1>1, <1>2, <2>2, BeforeInWithout
<1>5. CASE QClear
  <2>1. order' = <<>>
    BY <1>5 DEF QClear
  <2>2. DOMAIN order' = {}
    BY <2>1
  <2> QED BY <2>2 DEF Before
<1>6. CASE \E k \in Keys, v \in Values : QInsert(k, v)
  <2>1. PICK k \in Keys, v \in Values : QInsert(k, v)
    BY <1>6
  <2> DEFINE pushed == Append(order, k)
  <2>2. k \notin Range(order) /\ pushed \in Seq(Keys) /\ IsInjective(pushed)
    BY <2>1, QInsertSteps DEF Cached
  <2>3. order' = pushed \/ \E x \in Range(pushed) : order' = Without(pushed, x)
    BY <2>1, QInsertSteps
  <2>4. Before(pushed, b, a)
    <3> HIDE DEF pushed
    <3> QED BY <2>2, <2>3, BeforeInWithout
  <2>5. a # k
    BY <1>1, <2>2
  <2> QED BY <1>1, <1>2, <2>2, <2>4, <2>5, BeforeInAppend
<1>7. CASE \E k \in Keys, v \in Values : QUpdate(k, v)
  <2>1. PICK k \in Keys, v \in Values : QUpdate(k, v)
    BY <1>7
  <2>2. CASE k = a
    BY <2>1, <2>2
  <2>3. CASE k # a
    <3> DEFINE w == Without(order, k)
    <3>1. k \in Range(order) /\ order' = Append(w, k)
      BY <2>1 DEF QUpdate, Cached
    <3>2. w \in Seq(Keys) /\ Range(w) = Range(order) \ {k}
      BY <1>1, <3>1, WithoutKeeps
    <3> HIDE DEF w
    <3>3. Before(w, b, a)
      BY <2>3, <3>1, <3>2, BeforeInAppend
    <3> QED BY <1>1, <1>2, <3>1, <3>3, BeforeInWithout DEF w
  <2> QED BY <2>2, <2>3
<1>8. CASE \E k \in Keys : QGet(k)
  BY <1>3, <1>8 DEF QGet
<1> QED BY <1>3, <1>4, <1>5, <1>6, <1>7, <1>8 DEF QNext, qvars

-----------------------------------------------------------------------------
(* The trait's default methods.                                            *)

(* How many threads can be waiting.                                        *)
LEMMA ThreadCounts ==
    /\ Cardinality(Threads) \in Nat
    /\ \A T \in SUBSET Threads :
        /\ Cardinality(T) \in Nat
        /\ \A t \in Threads \ T : Cardinality(T) < Cardinality(Threads)
        /\ \A t \in T : Cardinality(T \ {t}) = Cardinality(T) - 1
<1>1. Cardinality(Threads) \in Nat
  BY ThreadsAssumption, FS_CardinalityType
<1>2. ASSUME NEW T \in SUBSET Threads
      PROVE  /\ Cardinality(T) \in Nat
             /\ \A t \in Threads \ T : Cardinality(T) < Cardinality(Threads)
             /\ \A t \in T : Cardinality(T \ {t}) = Cardinality(T) - 1
  <2>1. IsFiniteSet(T) /\ Cardinality(T) \in Nat
    BY ThreadsAssumption, FS_Subset, FS_CardinalityType
  <2>2. Cardinality(T) <= Cardinality(Threads)
    BY ThreadsAssumption, FS_Subset
  <2>3. T # Threads => Cardinality(T) # Cardinality(Threads)
    BY ThreadsAssumption, FS_Subset
  <2>4. \A t \in T : Cardinality(T \ {t}) = Cardinality(T) - 1
    BY <2>1, FS_RemoveElement
  <2> QED BY <1>1, <2>1, <2>2, <2>3, <2>4
<1> QED BY <1>1, <1>2

(* A call on the trait does nothing to the cache but the cache's own       *)
(* operations.                                                             *)
LEMMA CallsAreOperations ==
    ASSUME TTypeOK, [TNext]_tvars PROVE [QNext]_qvars
<1>1. \A t \in Threads : ~Free(t) => asking[t] \in Keys
  BY DEF TTypeOK, Free
<1>2. CASE UNCHANGED tvars
  BY <1>2 DEF tvars
<1>3. CASE TNext
  <2>1. PICK t \in Threads :
          \/ \E k \in Keys : Get(t, k) \/ RemoveKey(t, k) \/ Miss(t, k)
          \/ \E k \in Keys, v \in Values : Insert(t, k, v)
          \/ \E v \in Values : StoreNew(t, v) \/ StoreOver(t, v)
          \/ Clear(t)
    BY <1>3 DEF TNext
  <2>2. CASE \E k \in Keys : Get(t, k) \/ RemoveKey(t, k) \/ Miss(t, k)
    BY <2>2 DEF Get, RemoveKey, Miss, QNext
  <2>3. CASE \E k \in Keys, v \in Values : Insert(t, k, v)
    BY <2>3 DEF Insert, QNext
  <2>4. CASE \E v \in Values : StoreNew(t, v) \/ StoreOver(t, v)
    BY <1>1, <2>4 DEF StoreNew, StoreOver, QNext
  <2>5. CASE Clear(t)
    BY <2>5 DEF Clear, QNext
  <2> QED BY <2>1, <2>2, <2>3, <2>4, <2>5
<1> QED BY <1>2, <1>3

(* A thread that is in no get_or_insert_with leaves room in every count.   *)
LEMMA FreeCallKeeps ==
    ASSUME TInv, QInv', NEW t \in Threads, Free(t), Kept, asking' = asking
    PROVE  TInv'
<1>1. /\ rewrites \in [Keys -> Nat] /\ asking \in [Threads -> Keys \cup {NoKey}]
      /\ \A k \in Keys : k \notin Cached => rewrites[k] = 0
      /\ \A k \in Cached : rewrites[k] + Cardinality(Waiting(k)) < Cardinality(Threads)
  BY DEF TInv, TTypeOK, CountsStartAtZero, StampedeBound
<1>2. rewrites' = [k \in Keys |-> IF k \in Cached' THEN rewrites[k] ELSE 0]
  BY DEF Kept, Cached
<1>3. Cached' \subseteq Keys
  BY DEF QInv, QTypeOK, Cached, Range
<1>4. \A k : Waiting(k)' = Waiting(k) /\ Waiting(k) \in SUBSET Threads
  BY DEF Waiting
<1>5. ASSUME NEW k \in Cached'
      PROVE  rewrites'[k] + Cardinality(Waiting(k)') < Cardinality(Threads)
  <2>1. k \in Keys /\ rewrites'[k] = rewrites[k]
    BY <1>2, <1>3
  <2>2. CASE k \in Cached
    BY <1>1, <1>4, <2>1, <2>2
  <2>3. CASE k \notin Cached
    <3>1. t \notin Waiting(k)
      BY <2>1, NoKeyAssumption DEF Waiting, Free
    <3>2. Cardinality(Waiting(k)) < Cardinality(Threads) /\ Cardinality(Waiting(k)) \in Nat
      BY <1>4, <3>1, ThreadCounts
    <3> QED BY <1>1, <1>4, <2>1, <2>3, <3>2
  <2> QED BY <2>2, <2>3
<1>6. rewrites' \in [Keys -> Nat] /\ \A k \in Keys : k \notin Cached' => rewrites'[k] = 0
  BY <1>1, <1>2
<1> QED BY <1>1, <1>5, <1>6 DEF TInv, TTypeOK, CountsStartAtZero, StampedeBound, QInv

(* A thread starts to wait only for a key that is not cached ...           *)
LEMMA MissKeeps ==
    ASSUME TInv, NEW t \in Threads, NEW k \in Keys, Miss(t, k) PROVE TInv'
<1>1. /\ rewrites \in [Keys -> Nat] /\ asking \in [Threads -> Keys \cup {NoKey}]
      /\ \A x \in Keys : x \notin Cached => rewrites[x] = 0
      /\ \A x \in Cached : rewrites[x] + Cardinality(Waiting(x)) < Cardinality(Threads)
  BY DEF TInv, TTypeOK, CountsStartAtZero, StampedeBound
<1>2. /\ asking[t] = NoKey /\ k \notin Cached /\ asking' = [asking EXCEPT ![t] = k]
      /\ UNCHANGED <<order, value, visited, hand, rewrites>>
  BY DEF Miss, Free, qvars
<1>3. Cached' = Cached /\ Cached \subseteq Keys
  BY <1>2 DEF Cached, TInv, TTypeOK, QTypeOK, Range
<1>4. ASSUME NEW x \in Cached PROVE Waiting(x)' = Waiting(x)
  BY <1>1, <1>2, <1>3, NoKeyAssumption DEF Waiting
<1>5. \A x \in Cached' : rewrites'[x] + Cardinality(Waiting(x)') < Cardinality(Threads)
  BY <1>1, <1>2, <1>3, <1>4
<1>6. QTypeOK' /\ QueueSound'
  BY <1>2 DEF TInv, TTypeOK, QTypeOK, QueueSound, Cached
<1>7. asking' \in [Threads -> Keys \cup {NoKey}]
  BY <1>1, <1>2
<1> QED
  BY <1>1, <1>2, <1>3, <1>5, <1>6, <1>7 DEF TInv, TTypeOK, CountsStartAtZero, StampedeBound

(* ... and when it stores a new key, it waits no more and the count is 0.  *)
LEMMA StoreNewKeeps ==
    ASSUME TInv, QInv', NEW t \in Threads, NEW v \in Values, StoreNew(t, v) PROVE TInv'
<1> DEFINE k == asking[t]
<1>1. /\ rewrites \in [Keys -> Nat] /\ asking \in [Threads -> Keys \cup {NoKey}]
      /\ \A x \in Keys : x \notin Cached => rewrites[x] = 0
      /\ \A x \in Cached : rewrites[x] + Cardinality(Waiting(x)) < Cardinality(Threads)
  BY DEF TInv, TTypeOK, CountsStartAtZero, StampedeBound
<1>2. /\ k \in Keys /\ QInsert(k, v) /\ k \notin Cached
      /\ asking' = [asking EXCEPT ![t] = NoKey]
  BY <1>1 DEF StoreNew, Free, QInsert
<1>3. rewrites' = [x \in Keys |-> IF x \in Cached' THEN rewrites[x] ELSE 0]
  BY DEF StoreNew, Kept, Cached
<1>4. Cached' \subseteq Cached \cup {k} /\ Cached' \subseteq Keys
  <2>1. QInv
    BY DEF TInv, TTypeOK, QInv
  <2>2. Cached' \subseteq Cached \cup {k}
    BY <1>2, <2>1, QInsertSound
  <2>3. Cached' \subseteq Keys
    BY DEF QInv, QTypeOK, Cached, Range
  <2> QED BY <2>2, <2>3
<1>5. ASSUME NEW x \in Cached'
      PROVE  rewrites'[x] + Cardinality(Waiting(x)') < Cardinality(Threads)
  <2>1. x \in Keys /\ rewrites'[x] = rewrites[x] /\ x # NoKey
    BY <1>3, <1>4, NoKeyAssumption
  <2>2. CASE x = k
    <3>1. Waiting(x)' \in SUBSET Threads /\ t \notin Waiting(x)'
      BY <1>1, <1>2, <2>1 DEF Waiting
    <3>2. Cardinality(Waiting(x)') < Cardinality(Threads) /\ Cardinality(Waiting(x)') \in Nat
      BY <3>1, ThreadCounts
    <3>3. rewrites[x] = 0
      BY <1>1, <1>2, <2>2
    <3> QED BY <2>1, <3>2, <3>3
  <2>3. CASE x # k
    <3>1. x \in Cached
      BY <1>4, <2>3
    <3>2. Waiting(x)' = Waiting(x)
      BY <1>1, <1>2, <2>1, <2>3 DEF Waiting
    <3> QED BY <1>1, <2>1, <3>1, <3>2
  <2> QED BY <2>2, <2>3
<1>6. rewrites' \in [Keys -> Nat] /\ \A x \in Keys : x \notin Cached' => rewrites'[x] = 0
  BY <1>1, <1>3
<1>7. asking' \in [Threads -> Keys \cup {NoKey}]
  BY <1>1, <1>2
<1> QED BY <1>5, <1>6, <1>7 DEF TInv, TTypeOK, CountsStartAtZero, StampedeBound, QInv

(* Storing over another thread's value trades waiting for a rewrite.       *)
LEMMA StoreOverKeeps ==
    ASSUME TInv, QInv', NEW t \in Threads, NEW v \in Values, StoreOver(t, v) PROVE TInv'
<1> DEFINE k == asking[t]
<1>1. /\ rewrites \in [Keys -> Nat] /\ asking \in [Threads -> Keys \cup {NoKey}]
      /\ \A x \in Keys : x \notin Cached => rewrites[x] = 0
      /\ \A x \in Cached : rewrites[x] + Cardinality(Waiting(x)) < Cardinality(Threads)
  BY DEF TInv, TTypeOK, CountsStartAtZero, StampedeBound
<1>2. /\ k \in Keys /\ QUpdate(k, v) /\ k \in Cached
      /\ asking' = [asking EXCEPT ![t] = NoKey]
      /\ rewrites' = [rewrites EXCEPT ![k] = rewrites[k] + 1]
  BY <1>1 DEF StoreOver, Free, QUpdate
<1>3. Cached' = Cached /\ Cached \subseteq Keys
  <2>1. QInv
    BY DEF TInv, TTypeOK, QInv
  <2>2. Cached' = Cached
    BY <1>2, <2>1, QUpdateSound
  <2>3. Cached \subseteq Keys
    BY <2>1 DEF QInv, QTypeOK, Cached, Range
  <2> QED BY <2>2, <2>3
<1>4. ASSUME NEW x \in Cached
      PROVE  rewrites'[x] + Cardinality(Waiting(x)') < Cardinality(Threads)
  <2>1. x \in Keys /\ x # NoKey /\ rewrites[x] \in Nat
    BY <1>1, <1>3, NoKeyAssumption
  <2>2. CASE x = k
    <3>1. Waiting(x)' = Waiting(x) \ {t} /\ t \in Waiting(x) /\ Waiting(x) \in SUBSET Threads
      BY <1>1, <1>2, <2>1, <2>2 DEF Waiting
    <3>2. Cardinality(Waiting(x)') = Cardinality(Waiting(x)) - 1 /\ Cardinality(Waiting(x)) \in Nat
      BY <3>1, ThreadCounts
    <3>3. rewrites'[x] = rewrites[x] + 1
      BY <1>1, <1>2, <2>2
    <3> QED BY <1>1, <2>1, <3>2, <3>3, ThreadCounts
  <2>3. CASE x # k
    <3>1. Waiting(x)' = Waiting(x)
      BY <1>1, <1>2, <2>1, <2>3 DEF Waiting
    <3>2. rewrites'[x] = rewrites[x]
      BY <1>1, <1>2, <2>1, <2>3
    <3> QED BY <1>1, <3>1, <3>2
  <2> QED BY <2>2, <2>3
<1>5. rewrites' \in [Keys -> Nat] /\ \A x \in Keys : x \notin Cached => rewrites'[x] = 0
  BY <1>1, <1>2
<1>6. asking' \in [Threads -> Keys \cup {NoKey}]
  BY <1>1, <1>2
<1> QED BY <1>3, <1>4, <1>5, <1>6 DEF TInv, TTypeOK, CountsStartAtZero, StampedeBound, QInv

LEMMA InitTInv == TInit => TInv
<1> SUFFICES ASSUME TInit PROVE TInv
  OBVIOUS
<1>1. QInv /\ Cached = {}
  BY QInitSound DEF TInit, QInit, Cached, Range
<1>2. asking \in [Threads -> Keys \cup {NoKey}] /\ rewrites \in [Keys -> Nat]
      /\ \A k \in Keys : rewrites[k] = 0
  BY DEF TInit
<1> QED BY <1>1, <1>2 DEF TInv, TTypeOK, QInv, StampedeBound, CountsStartAtZero

LEMMA StepTInv == TInv /\ [TNext]_tvars => TInv'
<1> SUFFICES ASSUME TInv, [TNext]_tvars PROVE TInv'
  OBVIOUS
<1>1. QInv'
  BY CallsAreOperations, QStepSound DEF TInv, TTypeOK, QInv
<1>2. CASE UNCHANGED tvars
  BY <1>2 DEF tvars, qvars, TInv, TTypeOK, QTypeOK, QueueSound, Cached, StampedeBound, Waiting,
     CountsStartAtZero
<1>3. CASE TNext
  <2>1. PICK t \in Threads :
          \/ \E k \in Keys : Get(t, k) \/ RemoveKey(t, k) \/ Miss(t, k)
          \/ \E k \in Keys, v \in Values : Insert(t, k, v)
          \/ \E v \in Values : StoreNew(t, v) \/ StoreOver(t, v)
          \/ Clear(t)
    BY <1>3 DEF TNext
  <2>2. CASE \E k \in Keys : Get(t, k) \/ RemoveKey(t, k)
    BY <1>1, <2>2, FreeCallKeeps DEF Get, RemoveKey
  <2>3. CASE \E k \in Keys : Miss(t, k)
    BY <2>3, MissKeeps
  <2>4. CASE \E k \in Keys, v \in Values : Insert(t, k, v)
    BY <1>1, <2>4, FreeCallKeeps DEF Insert
  <2>5. CASE \E v \in Values : StoreNew(t, v) \/ StoreOver(t, v)
    BY <1>1, <2>5, StoreNewKeeps, StoreOverKeeps
  <2>6. CASE Clear(t)
    BY <1>1, <2>6, FreeCallKeeps DEF Clear
  <2> QED BY <2>1, <2>2, <2>3, <2>4, <2>5, <2>6
<1> QED BY <1>2, <1>3

THEOREM Invariant == TSpec => []TInv
  BY InitTInv, StepTInv, PTL DEF TSpec

-----------------------------------------------------------------------------
(* Every variable keeps its type.                                          *)
THEOREM TypeCorrect == TSpec => []TTypeOK
<1>1. TInv => TTypeOK
  BY DEF TInv
<1> QED BY Invariant, <1>1, PTL

(* The queue holds at most Capacity keys, each once, exactly those have a  *)
(* value, and the visited keys and the hand are among them.                *)
THEOREM QueueStaysSound == TSpec => []QueueSound
<1>1. TInv => QueueSound
  BY DEF TInv
<1> QED BY Invariant, <1>1, PTL

(* While a key stays cached, get_or_insert_with replaces its value fewer   *)
(* times than there are threads.                                           *)
THEOREM StampedeBounded == TSpec => []StampedeBound
<1>1. TInv => StampedeBound
  BY DEF TInv
<1> QED BY Invariant, <1>1, PTL

(* The threads' calls, get_or_insert_with included, are to the cache a     *)
(* sequence of its own operations.                                         *)
THEOREM CallsUseOperations == TSpec => QSpec
<1>1. TInit => QInit
  BY DEF TInit
<1>2. TInv /\ [TNext]_tvars => [QNext]_qvars
  BY CallsAreOperations DEF TInv
<1> QED BY Invariant, <1>1, <1>2, PTL DEF TSpec, QSpec

(* No insertion evicts a key that was hit and not passed over since.       *)
THEOREM HitsSurvive == TSpec => HitSurvives
<1>1. TInv => \A k \in Keys, v \in Values : QInsert(k, v) => visited \subseteq Range(order')
  BY QInsertSound DEF TInv, TTypeOK, QInv, Cached
<1> QED BY Invariant, <1>1, PTL DEF HitSurvives

(* A key stays between the same neighbours until it is updated or leaves.  *)
THEOREM AgeIsKept == TSpec => OrderIsAge
<1>1. TInv /\ [TNext]_tvars =>
        \A a, b \in Cached : Before(order, a, b) /\ Before(order', b, a)
          => \E v \in Values : QUpdate(a, v)
  BY CallsAreOperations, AgeKept DEF TInv, TTypeOK, QInv
<1> QED BY Invariant, <1>1, PTL DEF TSpec, OrderIsAge

(* A key leaves only by a removal, or from a full cache that stays full.   *)
THEOREM EvictionsAreNeeded == TSpec => NoNeedlessEviction
<1>1. ASSUME TInv, [TNext]_tvars
      PROVE  \/ Cached \subseteq Range(order')
             \/ is_full /\ is_full'
             \/ \E t \in Threads : Clear(t) \/ \E k \in Keys : RemoveKey(t, k)
  <2>1. QInv /\ order \in Seq(Keys) /\ \A t \in Threads : ~Free(t) => asking[t] \in Keys
    BY <1>1 DEF TInv, TTypeOK, QTypeOK, QInv, Free
  <2>2. ASSUME NEW k \in Keys, NEW v \in Values, QInsert(k, v)
        PROVE  Cached \subseteq Range(order') \/ (is_full /\ is_full')
    <3>1. Cached \subseteq Range(order') \/ (Len(order) = Capacity /\ Len(order') = Capacity)
      BY <2>1, <2>2, QInsertSound DEF Cached
    <3> QED BY <3>1, CapacityAssumption DEF is_full
  <2>3. ASSUME NEW k \in Keys, NEW v \in Values, QUpdate(k, v)
        PROVE  Cached \subseteq Range(order')
    BY <2>1, <2>3, QUpdateSound DEF Cached
  <2>4. ASSUME order' = order PROVE Cached \subseteq Range(order')
    BY <2>4 DEF Cached
  <2>5. CASE UNCHANGED tvars
    BY <2>4, <2>5 DEF tvars, qvars
  <2>6. CASE TNext
    <3>1. PICK t \in Threads :
            \/ \E k \in Keys : Get(t, k) \/ RemoveKey(t, k) \/ Miss(t, k)
            \/ \E k \in Keys, v \in Values : Insert(t, k, v)
            \/ \E v \in Values : StoreNew(t, v) \/ StoreOver(t, v)
            \/ Clear(t)
      BY <2>6 DEF TNext
    <3>2. CASE \E k \in Keys : Get(t, k) \/ Miss(t, k)
      BY <2>4, <3>2 DEF Get, QGet, Miss, qvars
    <3>3. CASE \E k \in Keys, v \in Values : Insert(t, k, v)
      BY <2>2, <2>3, <3>3 DEF Insert
    <3>4. CASE \E v \in Values : StoreNew(t, v) \/ StoreOver(t, v)
      BY <2>1, <2>2, <2>3, <3>4 DEF StoreNew, StoreOver
    <3> QED BY <3>1, <3>2, <3>3, <3>4
  <2> QED BY <1>1, <2>5, <2>6
<1> QED BY Invariant, <1>1, PTL DEF TSpec, NoNeedlessEviction
=============================================================================
