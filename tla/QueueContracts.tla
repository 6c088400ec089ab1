--------------------------- MODULE QueueContracts ---------------------------
(*****************************************************************************)
(* The public queues of src/queue: what their callers may rely on, for every *)
(* element type and capacity.                                                *)
(*****************************************************************************)
EXTENDS QueueProofs, PublicGhost

CONSTANT None

Fifo == INSTANCE FifoQueue

(* No operation of FifoQueue puts it further beyond its capacity (fifo.rs    *)
(* 66-147), so that only inner_mut can; and push_back_evict, which makes     *)
(* room for one element, does not bring such a queue back.                   *)
THEOREM CapacityKept ==
    ASSUME NEW S, NEW q \in Fifo!Queues(S), NEW v \in S, NEW Gone
    PROVE  /\ Fifo!Excess(Fifo!push_back(q, v).queue) <= Fifo!Excess(q)
           /\ Fifo!Excess(Fifo!push_back_evict(q, v).queue) <= Fifo!Excess(q)
           /\ Fifo!Excess(Fifo!pop_front(q).queue) <= Fifo!Excess(q)
           /\ Fifo!Excess(Fifo!retain(q, Gone)) <= Fifo!Excess(q)
           /\ Fifo!Excess(Fifo!clear(q)) = 0
<1>1. /\ q.inner \in Seq(S) /\ q.capacity \in Nat /\ Len(q.inner) \in Nat
      /\ \A s : [q EXCEPT !.inner = s].capacity = q.capacity
      /\ \A s : [q EXCEPT !.inner = s].inner = s
  BY DEF Fifo!Queues
<1> DEFINE L == Len(q.inner)
<1>2. \A s : Len(s) \in Nat /\ Len(s) <= L
             => Fifo!Excess([q EXCEPT !.inner = s]) <= Fifo!Excess(q)
  BY <1>1 DEF Fifo!Excess
<1>3. \A s : Len(s) = L + 1 /\ ~Fifo!is_full(q)
             => Fifo!Excess([q EXCEPT !.inner = s]) <= Fifo!Excess(q)
  BY <1>1 DEF Fifo!Excess, Fifo!is_full
<1>4. Fifo!Excess(q) <= Fifo!Excess(q)
  BY <1>1 DEF Fifo!Excess
<1>5. Len(Append(q.inner, v)) = L + 1
  BY <1>1
<1>6. Fifo!Excess(Fifo!push_back(q, v).queue) <= Fifo!Excess(q)
  BY <1>3, <1>4, <1>5 DEF Fifo!push_back
<1>7. Fifo!Excess(Fifo!push_back_evict(q, v).queue) <= Fifo!Excess(q)
  <2>1. CASE Fifo!is_full(q)
    <3>1. q.inner # <<>>
      BY <1>1, <2>1 DEF Fifo!is_full
    <3>2. Tail(q.inner) \in Seq(S) /\ Len(Tail(q.inner)) = L - 1
      BY <1>1, <3>1, TailKeeps
    <3>3. Len(Append(Tail(q.inner), v)) = L
      BY <1>1, <3>2
    <3> QED BY <1>1, <1>2, <2>1, <3>3 DEF Fifo!push_back_evict
  <2>2. CASE ~Fifo!is_full(q)
    BY <1>3, <1>5, <2>2 DEF Fifo!push_back_evict
  <2> QED BY <2>1, <2>2
<1>8. Fifo!Excess(Fifo!pop_front(q).queue) <= Fifo!Excess(q)
  <2>1. CASE Fifo!is_empty(q)
    BY <1>4, <2>1 DEF Fifo!pop_front
  <2>2. CASE ~Fifo!is_empty(q)
    <3>1. Len(Tail(q.inner)) = L - 1 /\ L - 1 \in Nat
      BY <1>1, <2>2, TailKeeps DEF Fifo!is_empty
    <3> QED BY <1>1, <1>2, <2>2, <3>1 DEF Fifo!pop_front
  <2> QED BY <2>1, <2>2
<1>9. Fifo!Excess(Fifo!retain(q, Gone)) <= Fifo!Excess(q)
  <2>1. Retain(q.inner, Gone) \in Seq(S) /\ Len(Retain(q.inner, Gone)) <= L
    BY <1>1, RetainKeeps
  <2>2. Len(Retain(q.inner, Gone)) \in Nat
    BY <2>1
  <2>3. Fifo!Retain(q.inner, Gone) = Retain(q.inner, Gone)
    BY DEF Fifo!Retain, Retain
  <2> QED BY <1>2, <2>1, <2>2, <2>3 DEF Fifo!retain
<1>10. Fifo!Excess(Fifo!clear(q)) = 0
  BY <1>1 DEF Fifo!clear, Fifo!Excess
<1> QED BY <1>6, <1>7, <1>8, <1>9, <1>10

(* A collected queue is full at once (fifo.rs 222-231), but for the empty    *)
(* one, whose capacity 0 means no limit.                                     *)
THEOREM CollectedQueue ==
    ASSUME NEW S, NEW s \in Seq(S), NEW v \in S
    PROVE  /\ Fifo!Excess(Fifo!from_iter(s)) = 0
           /\ s # <<>> => Fifo!push_back(Fifo!from_iter(s), v).answer = FALSE
           /\ \A q \in Fifo!Queues(S) :
                 q.capacity = Fifo!from_iter(<<>>).capacity
                     => Fifo!push_back(q, v).answer = TRUE
<1>1. Len(s) \in Nat /\ (s # <<>> => Len(s) > 0) /\ Len(<<>>) = 0
  OBVIOUS
<1>2. Fifo!Excess(Fifo!from_iter(s)) = 0
  BY <1>1 DEF Fifo!Excess, Fifo!from_iter
<1>3. s # <<>> => Fifo!push_back(Fifo!from_iter(s), v).answer = FALSE
  BY <1>1 DEF Fifo!push_back, Fifo!from_iter, Fifo!is_full
<1>4. \A q \in Fifo!Queues(S) : q.capacity = Fifo!from_iter(<<>>).capacity
          => Fifo!push_back(q, v).answer = TRUE
  BY <1>1 DEF Fifo!push_back, Fifo!from_iter, Fifo!is_full, Fifo!Queues
<1> QED BY <1>2, <1>3, <1>4

-----------------------------------------------------------------------------
(* The loop of the public insert (ghost.rs 104-109) ends when what Overfull  *)
(* says is too much is gone, and no earlier or later.                        *)
LEMMA LoopDropsOverfull ==
    ASSUME NEW A, NEW g, g = [keys |-> g.keys, queue |-> g.queue], g.queue \in Seq(A),
           NEW capacity \in Nat
    PROVE  LET n == Overfull(g, capacity)
           IN  MakeRoom(g, capacity) =
                 [keys  |-> g.keys \ {g.queue[i] : i \in 1 .. n},
                  queue |-> SubSeq(g.queue, n + 1, Len(g.queue))]
<1> DEFINE s == g.queue
           L == Len(s)
           N == Overfull(g, capacity)
           dropped(n) == {s[i] : i \in 1 .. n}
           left(n) == [keys |-> g.keys \ dropped(n), queue |-> SubSeq(s, n + 1, L)]
           least(n) == IF n <= N THEN n ELSE N
           Loop(m, f) == f = [n \in 0 .. m |-> IF n = 0 THEN g
                                               ELSE DropOldest(f[n - 1], capacity)]
           want(m) == [n \in 0 .. m |-> left(least(n))]
<1>1. L \in Nat /\ s \in Seq(A)
  OBVIOUS
<1>2. N \in 0 .. L /\ \A m \in 0 .. L : m < N <=> L - m >= capacity /\ m < L
  <2>1. N = IF L < capacity THEN 0 ELSE IF capacity = 0 THEN L ELSE L - capacity + 1
    BY DEF Overfull
  <2> HIDE DEF N, L
  <2> QED BY <1>1, <2>1
<1>3. left(0) = g
  <2>1. SubSeq(s, 1, L) = s
    BY <1>1, SubSeqFull
  <2>2. dropped(0) = {}
    <3>1. 1 .. 0 = {}
      OBVIOUS
    <3> QED BY <3>1
  <2> HIDE DEF dropped
  <2> QED BY <2>1, <2>2
<1>4. ASSUME NEW m \in 0 .. L
      PROVE  DropOldest(left(m), capacity) = left(IF m < N THEN m + 1 ELSE m)
  <2> DEFINE r == SubSeq(s, m + 1, L)
  <2>1. r \in Seq(A) /\ Len(r) = L - m
    BY <1>1, SubSeqKeeps
  <2>2. left(m).queue = r /\ left(m).keys = g.keys \ dropped(m)
    OBVIOUS
  <2>3. CASE m < N
    <3>1. m + 1 \in 1 .. L /\ L \in m + 1 .. L /\ L - m >= capacity /\ L - m > 0
      BY <1>1, <1>2, <2>3
    <3>2. Head(r) = s[m + 1] /\ Tail(r) = SubSeq(s, m + 1 + 1, L)
      BY <1>1, <3>1, HeadTailOfSubSeq
    <3>3. Len(r) >= capacity /\ r # <<>>
      <4>1. Len(r) >= capacity /\ Len(r) # 0
        BY <1>1, <2>1, <3>1
      <4>2. Len(<<>>) = 0
        OBVIOUS
      <4> HIDE DEF r
      <4> QED BY <4>1, <4>2
    <3>4. dropped(m + 1) = dropped(m) \cup {s[m + 1]}
      <4> HIDE DEF s, L
      <4> QED BY <3>1
    <3> HIDE DEF r, dropped
    <3>5. DropOldest(left(m), capacity) =
             [keys |-> (g.keys \ dropped(m)) \ {Head(r)}, queue |-> Tail(r)]
      BY <2>2, <3>3 DEF DropOldest
    <3>6. (g.keys \ dropped(m)) \ {Head(r)} = g.keys \ dropped(m + 1)
      BY <3>2, <3>4
    <3> QED BY <2>3, <3>2, <3>5, <3>6
  <2>4. CASE ~(m < N)
    <3>1. ~(Len(r) >= capacity /\ r # <<>>)
      <4>1. ~(L - m >= capacity) \/ ~(m < L)
        BY <1>2, <2>4
      <4>2. CASE ~(m < L)
        <5>1. Len(r) = 0
          BY <1>1, <2>1, <4>2
        <5> HIDE DEF r
        <5> QED BY <2>1, <5>1
      <4> QED BY <2>1, <4>1, <4>2
    <3> HIDE DEF r, left
    <3> QED BY <2>2, <2>4, <3>1 DEF DropOldest
  <2> QED BY <2>3, <2>4
<1> HIDE DEF left, N
<1>5. ASSUME NEW n \in 0 .. L, n # 0
      PROVE  DropOldest(left(least(n - 1)), capacity) = left(least(n))
  <2>1. least(n - 1) \in 0 .. L
    BY <1>1, <1>2, <1>5
  <2>2. (IF least(n - 1) < N THEN least(n - 1) + 1 ELSE least(n - 1)) = least(n)
    BY <1>1, <1>2, <1>5
  <2> HIDE DEF least
  <2> QED BY <1>4, <2>1, <2>2
<1> HIDE DEF least
<1>6. least(0) = 0 /\ least(L) = N
  BY <1>1, <1>2 DEF least
<1>7. Loop(L, want(L))
  <2>1. ASSUME NEW n \in 0 .. L
        PROVE  left(least(n)) = IF n = 0 THEN g ELSE DropOldest(want(L)[n - 1], capacity)
    <3>1. CASE n = 0
      BY <1>3, <1>6, <3>1
    <3>2. CASE n # 0
      <4>1. n - 1 \in 0 .. L
        BY <1>1, <3>2
      <4>2. want(L)[n - 1] = left(least(n - 1))
        BY <4>1
      <4> HIDE DEF want
      <4> QED BY <1>5, <3>2, <4>2
    <3> QED BY <3>1, <3>2
  <2> QED BY <2>1
<1>8. ASSUME NEW f, Loop(L, f) PROVE \A n \in 0 .. L : f[n] = left(least(n))
  <2> DEFINE T == {n \in Nat : n <= L => f[n] = left(least(n))}
  <2>1. 0 \in T
    BY <1>1, <1>3, <1>6, <1>8
  <2>2. ASSUME NEW n \in Nat, n \in T PROVE n + 1 \in T
    <3> SUFFICES ASSUME n + 1 <= L PROVE f[n + 1] = left(least(n + 1))
      OBVIOUS
    <3>1. n + 1 \in 0 .. L /\ n + 1 # 0 /\ (n + 1) - 1 = n /\ n <= L
      BY <1>1
    <3>2. f[n + 1] = DropOldest(f[(n + 1) - 1], capacity)
      BY <1>8, <3>1
    <3> QED BY <1>5, <2>2, <3>1, <3>2
  <2>3. Nat \subseteq T
    <3> HIDE DEF T
    <3> QED BY <2>1, <2>2, Induction
  <2> QED BY <1>1, <2>3
<1> DEFINE k == CHOOSE f : Loop(L, f)
<1>9. Loop(L, k)
  <2> HIDE DEF Loop
  <2> QED BY <1>7
<1>10. MakeRoom(g, capacity) = k[L]
  BY DEF MakeRoom
<1> HIDE DEF k, Loop
<1>11. k[L] = left(N)
  <2>1. L \in 0 .. L
    BY <1>1
  <2> QED BY <1>6, <1>8, <1>9, <2>1
<1> QED BY <1>10, <1>11 DEF left, N

(* The public ghost queue and the private one of s3fifo.rs do the same to    *)
(* the set and the queue, and the public one's answers say whether they did  *)
(* anything (ghost.rs 98-140).                                               *)
THEOREM TwinsAgree ==
    ASSUME NEW S, NEW q \in PublicQueues(S), NEW k \in S
    PROVE  /\ insert(q, k).queue.ghosts = GhostInsert(q.ghosts, k, q.capacity)
           /\ insert(q, k).queue \in PublicQueues(S)
           /\ insert(q, k).queue.capacity = q.capacity
           /\ insert(q, k).answer <=> ~contains(q, k)
           /\ remove(q, k).queue.ghosts = GhostRemove(q.ghosts, k)
           /\ remove(q, k).queue \in PublicQueues(S)
           /\ remove(q, k).queue.capacity = q.capacity
           /\ remove(q, k).answer <=> contains(q, k)
<1> DEFINE g == q.ghosts
           c == q.capacity
           n == Overfull(g, c)
           rest == SubSeq(g.queue, n + 1, Len(g.queue))
           dropped == {g.queue[i] : i \in 1 .. n}
<1>1. /\ g = [keys |-> g.keys, queue |-> g.queue]
      /\ g.keys \in SUBSET S /\ g.queue \in Seq(S) /\ c \in Nat
      /\ q = [ghosts |-> g, capacity |-> c]
  BY DEF PublicQueues
<1>2. n \in 0 .. Len(g.queue)
  <2> HIDE DEF n, g, c
  <2> QED BY <1>1, OverfullRange DEF n
<1>3. MakeRoom(g, c) = [keys |-> g.keys \ dropped, queue |-> rest]
  <2> HIDE DEF g, c
  <2> QED BY <1>1, LoopDropsOverfull
<1>4. rest \in Seq(S)
  <2> HIDE DEF n, g, c
  <2> QED BY <1>1, <1>2, SubSeqKeeps
<1>5. Append(rest, k) \in Seq(S)
  <2> HIDE DEF rest
  <2> QED BY <1>4
<1>6. Retain(g.queue, {k}) \in Seq(S)
  <2> HIDE DEF g
  <2> QED BY <1>1, RetainKeeps
<1> DEFINE i == insert(q, k)
           r == remove(q, k)
<1>7. CASE contains(q, k)
  <2>1. i = [queue |-> q, answer |-> FALSE]
    BY <1>7 DEF insert
  <2>2. GhostInsert(g, k, c) = g
    BY <1>7 DEF GhostInsert, GhostContains, contains
  <2> DEFINE less == [keys |-> g.keys \ {k}, queue |-> Retain(g.queue, {k})]
  <2>3. r = [queue |-> [q EXCEPT !.ghosts = less], answer |-> TRUE]
    BY <1>7 DEF remove
  <2>4. GhostRemove(g, k) = less
    BY <1>7 DEF GhostRemove, GhostContains, contains
  <2>5. less \in [keys : SUBSET S, queue : Seq(S)]
    BY <1>1, <1>6
  <2> HIDE DEF i, r, less
  <2>6. [q EXCEPT !.ghosts = less] = [ghosts |-> less, capacity |-> c]
    BY <1>1
  <2> HIDE DEF g, c
  <2>7. /\ i.queue.ghosts = GhostInsert(g, k, c) /\ i.queue = q /\ i.answer = FALSE
        /\ i.queue.capacity = c
    BY <1>1, <2>1, <2>2
  <2>8. r.queue.ghosts = less /\ r.queue.capacity = c /\ r.answer = TRUE
    BY <2>3, <2>6
  <2>9. r.queue \in PublicQueues(S)
    BY <1>1, <2>3, <2>5, <2>6 DEF PublicQueues
  <2> QED BY <1>7, <2>4, <2>7, <2>8, <2>9 DEF i, r, g, c
<1>8. CASE ~contains(q, k)
  <2>1. r = [queue |-> q, answer |-> FALSE]
    BY <1>8 DEF remove
  <2>2. GhostRemove(g, k) = g
    BY <1>8 DEF GhostRemove, GhostContains, contains
  <2> DEFINE more == [keys |-> (g.keys \ dropped) \cup {k}, queue |-> Append(rest, k)]
  <2>3. i = [queue |-> [q EXCEPT !.ghosts = more], answer |-> TRUE]
    <3> HIDE DEF rest, dropped, n
    <3> QED BY <1>3, <1>8 DEF insert
  <2>4. GhostInsert(g, k, c) = more
    BY <1>8 DEF GhostInsert, GhostContains, contains
  <2>5. more \in [keys : SUBSET S, queue : Seq(S)]
    <3> HIDE DEF rest, dropped
    <3> QED BY <1>1, <1>5
  <2> HIDE DEF i, r, more
  <2>6. [q EXCEPT !.ghosts = more] = [ghosts |-> more, capacity |-> c]
    BY <1>1
  <2> HIDE DEF g, c
  <2>7. /\ r.queue.ghosts = GhostRemove(g, k) /\ r.queue = q /\ r.answer = FALSE
        /\ r.queue.capacity = c
    BY <1>1, <2>1, <2>2
  <2>8. i.queue.ghosts = more /\ i.queue.capacity = c /\ i.answer = TRUE
    BY <2>3, <2>6
  <2>9. i.queue \in PublicQueues(S)
    BY <1>1, <2>3, <2>5, <2>6 DEF PublicQueues
  <2> QED BY <1>8, <2>4, <2>7, <2>8, <2>9 DEF i, r, g, c
<1> QED BY <1>7, <1>8

(* The public ghost queue stays sound, holds what was inserted last and not  *)
(* what was removed, and len, which counts the set, is what iter yields from *)
(* the queue (ghost.rs 82-175); a queue of capacity 0 calls itself full and  *)
(* yet insert succeeds.                                                      *)
THEOREM PublicGhostSound ==
    ASSUME NEW S, NEW q \in PublicQueues(S), NEW k \in S, GhostSound(q.ghosts, q.capacity)
    PROVE  /\ GhostSound(insert(q, k).queue.ghosts, q.capacity)
           /\ GhostSound(remove(q, k).queue.ghosts, q.capacity)
           /\ GhostSound(clear(q).ghosts, q.capacity)
           /\ contains(insert(q, k).queue, k)
           /\ ~contains(remove(q, k).queue, k)
           /\ len(q) = Len(iter(q))
           /\ q.capacity = 0 => is_full(q)
<1>1. q.ghosts.keys \in SUBSET S /\ q.ghosts.queue \in Seq(S) /\ q.capacity \in Nat
  BY DEF PublicQueues
<1>2. GhostSound(insert(q, k).queue.ghosts, q.capacity)
  <2>1. insert(q, k).queue.ghosts = GhostInsert(q.ghosts, k, q.capacity)
    BY TwinsAgree
  <2>2. GhostSound(GhostInsert(q.ghosts, k, q.capacity), q.capacity)
    BY <1>1, GhostInsertSound
  <2> QED BY <2>1, <2>2
<1>3. GhostSound(remove(q, k).queue.ghosts, q.capacity)
  <2>1. remove(q, k).queue.ghosts = GhostRemove(q.ghosts, k)
    BY TwinsAgree
  <2>2. GhostSound(GhostRemove(q.ghosts, k), q.capacity)
    BY <1>1, GhostRemoveSound
  <2> QED BY <2>1, <2>2
<1>4. GhostSound(clear(q).ghosts, q.capacity)
  <2>1. clear(q).ghosts = NoGhosts
    BY DEF clear, PublicQueues
  <2> QED BY <1>1, <2>1, GhostStartsSound
<1>5. contains(insert(q, k).queue, k)
  <2>1. insert(q, k).queue.ghosts = GhostInsert(q.ghosts, k, q.capacity)
    BY TwinsAgree
  <2>2. k \in GhostInsert(q.ghosts, k, q.capacity).keys
    BY DEF GhostInsert, GhostContains
  <2> QED BY <2>1, <2>2 DEF contains
<1>6. ~contains(remove(q, k).queue, k)
  <2>1. remove(q, k).queue.ghosts = GhostRemove(q.ghosts, k)
    BY TwinsAgree
  <2>2. k \notin GhostRemove(q.ghosts, k).keys
    BY DEF GhostRemove, GhostContains
  <2> QED BY <2>1, <2>2 DEF contains
<1>7. len(q) = Len(iter(q))
  <2> DEFINE s == q.ghosts.queue
  <2>1. s \in Seq(S) /\ Len(s) \in Nat /\ DOMAIN s = 1 .. Len(s)
    BY <1>1
  <2>2. IsInjective(s) /\ q.ghosts.keys = Range(s)
    BY DEF GhostSound
  <2> HIDE DEF s
  <2>3. Cardinality(Range(s)) = Len(s)
    BY <2>1, <2>2, RangeCounts
  <2> QED BY <2>2, <2>3 DEF len, iter, s
<1>8. q.capacity = 0 => is_full(q)
  <2>1. len(q) \in Nat
    BY <1>1, <1>7 DEF iter
  <2> QED BY <2>1 DEF is_full
<1> QED BY <1>2, <1>3, <1>4, <1>5, <1>6, <1>7, <1>8
=============================================================================
