----------------------------- MODULE SieveQueue -----------------------------
(***************************************************************************)
(* What SieveCache promises its callers, one atomic step per call: a FIFO  *)
(* queue with a visited mark per key and a hand.  Sieve implements it.     *)
(***************************************************************************)
EXTENDS SieveOrder, FiniteSets

CONSTANTS Keys, Values, Capacity

ASSUME NoKeyAssumption == NoKey \notin Keys \cup Values
ASSUME CapacityAssumption == Capacity \in Nat

VARIABLES order,    \* the cached keys, oldest first, without repetition
          value,    \* value[k] is what a get(k) returns, NoKey if nothing
          visited,  \* the keys hit since they entered or were passed over
          hand

qvars == <<order, value, visited, hand>>

Cached == Range(order)

QTypeOK ==
    /\ order \in Seq(Keys)
    /\ value \in [Keys -> Values \cup {NoKey}]
    /\ visited \in SUBSET Keys
    /\ hand \in Keys \cup {NoKey}

QInit ==
    /\ order = <<>>
    /\ value = [k \in Keys |-> NoKey]
    /\ visited = {}
    /\ hand = NoKey

QGet(k) ==
    /\ k \in Cached
    /\ visited' = visited \cup {k}
    /\ UNCHANGED <<order, value, hand>>

(* Updating a key makes it the newest, and unvisited.                      *)
QUpdate(k, v) ==
    /\ k \in Cached
    /\ order' = Append(Without(order, k), k)
    /\ value' = [value EXCEPT ![k] = v]
    /\ visited' = visited \ {k}
    /\ hand' = HandWithout(order, hand, k)

(* Mutant: an entry goes when the cache becomes full. *)
QInsert_EvictsEarly(k, v) ==
    /\ k \notin Cached
    /\ LET pushed == [order |-> Append(order, k), visited |-> visited, hand |-> hand]
           after  == IF Len(order) + 1 < Capacity THEN pushed ELSE Evicted(pushed)
       IN  /\ order' = after.order
           /\ visited' = after.visited
           /\ hand' = after.hand
           /\ value' = [x \in Keys |-> IF x \notin Range(after.order) THEN NoKey
                                       ELSE IF x = k THEN v ELSE value[x]]

QInsert(k, v) ==
    /\ k \notin Cached
    /\ LET pushed == [order |-> Append(order, k), visited |-> visited, hand |-> hand]
           after  == IF Len(order) < Capacity THEN pushed ELSE Evicted(pushed)
       IN  /\ order' = after.order
           /\ visited' = after.visited
           /\ hand' = after.hand
           /\ value' = [x \in Keys |-> IF x \notin Range(after.order) THEN NoKey
                                       ELSE IF x = k THEN v ELSE value[x]]

QRemove(k) ==
    /\ k \in Cached
    /\ order' = Without(order, k)
    /\ value' = [value EXCEPT ![k] = NoKey]
    /\ visited' = visited \ {k}
    /\ hand' = HandWithout(order, hand, k)

QClear ==
    /\ order' = <<>>
    /\ value' = [k \in Keys |-> NoKey]
    /\ visited' = {}
    /\ hand' = NoKey

QNext ==
    \/ \E k \in Keys : QGet(k) \/ QRemove(k)
    \/ \E k \in Keys, v \in Values : QInsert(k, v) \/ QUpdate(k, v)
    \/ QClear

QSpec == QInit /\ [][QNext]_qvars

-----------------------------------------------------------------------------
(* The queue holds at most Capacity keys, each once; exactly those have a  *)
(* value, and the visited keys and the hand are among them.                *)
QueueSound ==
    /\ IsInjective(order)
    /\ Len(order) <= Capacity
    /\ \A k \in Keys : value[k] # NoKey <=> k \in Cached
    /\ visited \subseteq Cached
    /\ hand \in Cached \cup {NoKey}

(* A hit buys survival: no insertion evicts a key that is visited when it  *)
(* begins, however far the hand has to go (sieve.rs, test_eviction).       *)
HitSurvives ==
    [][\A k \in Keys, v \in Values : QInsert(k, v) => visited \subseteq Range(order')]_qvars

(* A key stays between the same neighbours until it is updated or leaves:  *)
(* unlike in CLOCK, being passed over by the hand moves nothing.           *)
Before(s, a, b) == \E i, j \in DOMAIN s : i < j /\ s[i] = a /\ s[j] = b
OrderIsAge ==
    [][\A a, b \in Cached : Before(order, a, b) /\ Before(order', b, a)
          => \E v \in Values : QUpdate(a, v)]_qvars
=============================================================================
