----------------------------- MODULE LruRecency -----------------------------
(***************************************************************************)
(* What LruCache promises: the cached keys in the order of their last use, *)
(* one step per call.  Lru implements it.                                  *)
(***************************************************************************)
EXTENDS Integers, Sequences, SequencesExt

CONSTANTS Keys, Values, Capacity, NoValue

VARIABLES order,    \* the cached keys, least recently used first
          value     \* value[k] is what a get(k) returns, NoValue if nothing

Cached == Range(order)

Others(k) == RemoveAt(order, CHOOSE i \in DOMAIN order : order[i] = k)

RInit == order = <<>> /\ value = [k \in Keys |-> NoValue]

RGet(k) ==
    /\ k \in Cached
    /\ order' = Append(Others(k), k)
    /\ UNCHANGED value

RUpdate(k, v) ==
    /\ k \in Cached
    /\ order' = Append(Others(k), k)
    /\ value' = [value EXCEPT ![k] = v]

(* A new key evicts the least recently used one of a full cache: with       *)
(* capacity 0, itself.                                                      *)
RInsert(k, v) ==
    /\ k \notin Cached
    /\ LET used == Append(order, k)
       IN  order' = IF Len(used) > Capacity THEN Tail(used) ELSE used
    /\ value' = [x \in Keys |-> IF x \notin Range(order') THEN NoValue
                                ELSE IF x = k THEN v ELSE value[x]]

RRemove(k) ==
    /\ k \in Cached
    /\ order' = Others(k)
    /\ value' = [value EXCEPT ![k] = NoValue]

RClear == order' = <<>> /\ value' = [k \in Keys |-> NoValue]

RNext ==
    \/ \E k \in Keys : RGet(k) \/ RRemove(k)
    \/ \E k \in Keys, v \in Values : RInsert(k, v) \/ RUpdate(k, v)
    \/ RClear

RSpec == RInit /\ [][RNext]_<<order, value>>
=============================================================================
