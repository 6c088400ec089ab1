-------------------------- MODULE MCS3FifoWriters --------------------------
(***************************************************************************)
(* Several writers at work on a full cache.  Every thread is in a call from *)
(* the first state on and makes no other.  That no call is made later loses *)
(* nothing: a thread may take its next step as late as it likes.            *)
(***************************************************************************)
EXTENDS MCS3Fifo

(* The full caches one writer can leave behind when it returns: Capacity    *)
(* entries in the two queues, hit or not, and possibly a ghost.             *)
FullCache ==
    /\ \E held \in {CHOOSE es \in SUBSET Entries : Cardinality(es) = Capacity} :
        \E named \in {f \in [held -> Keys] : IsInjective(f)} :
            LET order == SetToSeq(held)
                live  == {named[e] : e \in held}
                holder(k) == CHOOSE e \in held : named[e] = k
            IN  \E n \in 0 .. Capacity :
                    /\ small = SubSeq(order, 1, n)
                    /\ main = SubSeq(order, n + 1, Capacity)
                    /\ entryKey = [e \in Entries |-> IF e \in held THEN named[e] ELSE None]
                    /\ index = [k \in Keys |-> IF k \in live THEN holder(k) ELSE None]
                    /\ membership = [k \in Keys |->
                            IF k \notin live THEN None
                            ELSE IF holder(k) \in Range(small) THEN "Small" ELSE "Main"]
                    /\ freq \in {f \in [Entries -> 0 .. MaxFreq] :
                                    \A e \in Entries \ held : f[e] = 0}
                    /\ ghost \in {NoGhosts} \cup
                            {GhostInsert(NoGhosts, k, main_queue_capacity) : k \in Keys \ live}
    /\ size = Capacity
    /\ stats = [c \in CounterNames |-> 0]

CallsOf(asked) ==
    loc = [t \in Threads |-> IF pc[t] = "clIndex" THEN AtRest
                             ELSE [AtRest EXCEPT !.key = asked[t]]]

(* Any calls. *)
AnyInit ==
    /\ FullCache
    /\ pc \in [Threads -> {"lookup", "rmIndex", "clIndex"}]
    /\ \E asked \in [Threads -> Keys] : CallsOf(asked)

(* Insertions of keys that are not cached, the same or different ones, in   *)
(* threads that have all looked theirs up by now.                           *)
AbsentInit ==
    /\ FullCache
    /\ pc = [t \in Threads |-> "ghost"]
    /\ \E asked \in [Threads -> Keys \ Live] : CallsOf(asked)

Work == Get \/ \E t \in Threads : Step(t)

AnySpec == AnyInit /\ [][Work]_vars

AbsentSpec == AbsentInit /\ [][Work]_vars
=============================================================================
