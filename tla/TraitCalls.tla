----------------------------- MODULE TraitCalls -----------------------------
(***************************************************************************)
(* The default methods of the Cache trait (src/cache/mod.rs), over a cache *)
(* whose own operations are single steps: SieveQueue, which SieveCache     *)
(* implements.  get_or_insert_with is a get and an insert with the user's  *)
(* function in between and no lock around them.                            *)
(***************************************************************************)
EXTENDS SieveQueue

CONSTANT Threads

ASSUME ThreadsAssumption == IsFiniteSet(Threads)

VARIABLES asking,    \* the key a thread has missed and computes a value for
          rewrites   \* history: how often a cached key's value was replaced by
                     \* get_or_insert_with since the key was inserted

tvars == <<qvars, asking, rewrites>>

TInit ==
    /\ QInit
    /\ asking = [t \in Threads |-> NoKey]
    /\ rewrites = [k \in Keys |-> 0]

TTypeOK ==
    /\ QTypeOK
    /\ asking \in [Threads -> Keys \cup {NoKey}]
    /\ rewrites \in [Keys -> Nat]

Free(t) == asking[t] = NoKey
Waiting(k) == {t \in Threads : asking[t] = k}

is_empty == Len(order) = 0
is_full == Len(order) >= Capacity

(* A key that leaves takes its count with it.                               *)
Kept == rewrites' = [k \in Keys |-> IF k \in Range(order') THEN rewrites[k] ELSE 0]

-----------------------------------------------------------------------------
(* Calls of the cache's own operations.  A get that hits is also what       *)
(* get_or_insert_with does for a key that is there: it returns the value.   *)
Get(t, k) ==
    /\ Free(t)
    /\ QGet(k)
    /\ Kept /\ UNCHANGED asking

Insert(t, k, v) ==
    /\ Free(t)
    /\ QInsert(k, v) \/ QUpdate(k, v)
    /\ Kept /\ UNCHANGED asking

RemoveKey(t, k) ==
    /\ Free(t)
    /\ QRemove(k)
    /\ Kept /\ UNCHANGED asking

Clear(t) ==
    /\ Free(t)
    /\ QClear
    /\ Kept /\ UNCHANGED asking

(* Mutant of Miss: the default is computed without a look-up. *)
Miss_NoLookup(t, k) ==
    /\ Free(t)
    /\ asking' = [asking EXCEPT ![t] = k]
    /\ UNCHANGED <<qvars, rewrites>>

(* get_or_insert_with does not find the key and calls default().            *)
Miss(t, k) ==
    /\ Free(t)
    /\ k \notin Cached
    /\ asking' = [asking EXCEPT ![t] = k]
    /\ UNCHANGED <<qvars, rewrites>>

(* default() has returned v: insert, whatever the cache holds by now.       *)
StoreNew(t, v) ==
    /\ ~Free(t)
    /\ QInsert(asking[t], v)
    /\ asking' = [asking EXCEPT ![t] = NoKey]
    /\ Kept

StoreOver(t, v) ==
    /\ ~Free(t)
    /\ QUpdate(asking[t], v)
    /\ asking' = [asking EXCEPT ![t] = NoKey]
    /\ rewrites' = [rewrites EXCEPT ![asking[t]] = @ + 1]

TNext ==
    \E t \in Threads :
        \/ \E k \in Keys : Get(t, k) \/ RemoveKey(t, k) \/ Miss(t, k)
        \/ \E k \in Keys, v \in Values : Insert(t, k, v)
        \/ \E v \in Values : StoreNew(t, v) \/ StoreOver(t, v)
        \/ Clear(t)

TSpec == TInit /\ [][TNext]_tvars

-----------------------------------------------------------------------------
(* Two calls of get_or_insert_with may both compute a value, and the later  *)
(* one replaces what the earlier inserted and returned.  How often is       *)
(* bounded: while a key stays cached its value is replaced that way at most *)
(* once by each other thread, those that missed before it was inserted;     *)
(* whoever asks later gets what is cached.                                  *)
StampedeBound ==
    \A k \in Cached : rewrites[k] + Cardinality(Waiting(k)) < Cardinality(Threads)

(* Entries are not given up needlessly: a key leaves only by a removal, or  *)
(* when an insertion finds the cache full, and then the cache is full       *)
(* again.  A value computed for a key that another thread has inserted in   *)
(* the meantime replaces its value and takes no second place.               *)
NoNeedlessEviction ==
    [][Cached \subseteq Range(order') \/ (is_full /\ is_full')
        \/ \E t \in Threads : Clear(t) \/ \E k \in Keys : RemoveKey(t, k)]_tvars
=============================================================================
