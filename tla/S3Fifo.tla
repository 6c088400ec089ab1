------------------------------- MODULE S3Fifo -------------------------------
(***************************************************************************)
(* The S3-FIFO cache of src/cache/s3fifo.rs, one action per critical       *)
(* section.                                                                *)
(*                                                                         *)
(* The index, the small queue, the main queue, the ghost queue and the     *)
(* membership map each have a lock of their own and `size' is an atomic.   *)
(* insert, remove, clear and the evictions take the locks one after the    *)
(* other and never two at once, so between any two sections another thread *)
(* may run: pc[t] names the section thread t takes next and loc[t] keeps   *)
(* what it carries there.  get works under the index's read lock and with  *)
(* one atomic on the entry, so it is one step of any thread; contains,     *)
(* peek and len change nothing and are not actions.                        *)
(*                                                                         *)
(* An entry (an Arc<CacheEntry>) is an element of Entries and stands for   *)
(* its value as well.  An entry nothing refers to may be allocated again;  *)
(* which one is taken makes no difference, entries are only compared.      *)
(***************************************************************************)
EXTENDS CacheConfig, GhostQueue, FiniteSets

CONSTANTS Threads,      \* the threads that insert, remove and clear
          Keys, Entries, None,
          MaxFreq,      \* CacheEntry::MAX_FREQ, 3
          UsizeMod,     \* 2^64 for the AtomicUsize `size'
          CounterMod    \* 2^64 for the AtomicU64 statistics

ASSUME NoneAssumption == None \notin Keys \cup Entries \cup Threads \cup {"Small", "Main"}
ASSUME MaxFreqAssumption == MaxFreq \in Nat \ {0}
ASSUME UsizeAssumption == UsizeMod \in Nat /\ Capacity + 1 < UsizeMod
ASSUME CounterAssumption == CounterMod \in Nat \ {0}

VARIABLES index, small, main, ghost, membership, size,  \* S3FifoCache
          entryKey, freq,                                \* CacheEntry
          stats,                                         \* CacheStats
          pc, loc                                        \* the threads

queues == <<small, main>>
entries == <<entryKey, freq>>
vars == <<index, queues, ghost, membership, size, entries, stats, pc, loc>>

CounterNames == {"hits", "misses", "insertions", "evictions"}

Sections ==
    {"idle",
     "lookup", "ghost", "publish", "push", "member", "count",         \* insert
     "check", "popSmall", "judgeSmall", "promote", "promoteMember",   \* evict
     "checkMain", "measure", "popMain", "judgeMain", "requeue", "forcePop",
     "dropIndex", "dropMember", "dropGhost", "uncount",
     "rmIndex", "rmMember", "rmQueue", "rmCount",                     \* remove
     "clIndex", "clSmall", "clMain", "clGhost", "clMember", "clSize"} \* clear

(* What a thread carries: the key of its call; the entry it has in hand;   *)
(* whether a new entry goes to the main queue, and whether an evicted key  *)
(* goes to the ghost queue; evict_from_main's attempts and max_attempts    *)
(* and where it returns to; where remove returns to, "lookup" when insert  *)
(* called it to update a key; the queue remove found in the membership map.*)
(* `promoted' is history: the entry whose promotion is being followed up.  *)
Hands ==
    [key : Keys \cup {None}, entry : Entries \cup {None},
     toMain : BOOLEAN, toGhost : BOOLEAN, attempts : Nat, limit : Nat,
     caller : {"check", "checkMain"}, resume : {"idle", "lookup"},
     from : {"Small", "Main", None}, promoted : Entries \cup {None}]

AtRest ==
    [key |-> None, entry |-> None, toMain |-> FALSE, toGhost |-> FALSE,
     attempts |-> 0, limit |-> 0, caller |-> "check", resume |-> "idle",
     from |-> None, promoted |-> None]

TypeOK ==
    /\ index \in [Keys -> Entries \cup {None}]
    /\ small \in Seq(Entries) /\ main \in Seq(Entries)
    /\ ghost.keys \in SUBSET Keys /\ ghost.queue \in Seq(Keys)
    /\ membership \in [Keys -> {"Small", "Main", None}]
    /\ size \in 0 .. UsizeMod - 1
    /\ entryKey \in [Entries -> Keys \cup {None}]
    /\ freq \in [Entries -> 0 .. MaxFreq]
    /\ stats \in [CounterNames -> 0 .. CounterMod - 1]
    /\ pc \in [Threads -> Sections]
    /\ loc \in [Threads -> Hands]

Init ==
    /\ index = [k \in Keys |-> None]
    /\ small = <<>> /\ main = <<>> /\ ghost = NoGhosts
    /\ membership = [k \in Keys |-> None]
    /\ size = 0
    /\ entryKey = [e \in Entries |-> None]
    /\ freq = [e \in Entries |-> 0]
    /\ stats = [c \in CounterNames |-> 0]
    /\ pc = [t \in Threads |-> "idle"]
    /\ loc = [t \in Threads |-> AtRest]

-----------------------------------------------------------------------------
(* Thread t leaves the section `from' for `to'; with loc[t] at rest when   *)
(* its call returns.                                                       *)
Goes(t, from, to) == pc[t] = from /\ pc' = [pc EXCEPT ![t] = to]
Carries(t, l) == loc' = [loc EXCEPT ![t] = l]

Grow == size' = IF size = UsizeMod - 1 THEN 0 ELSE size + 1
Shrink == size' = IF size = 0 THEN UsizeMod - 1 ELSE size - 1

Count(c) ==
    stats' = [stats EXCEPT ![c] = IF @ = CounterMod - 1 THEN 0 ELSE @ + 1]

(* An entry lives as long as an Arc to it: in the index, in a queue or in   *)
(* the hands of a thread.  Settle(K, F) gives the entries the keys K and    *)
(* the frequencies F and forgets those of the entries whose last Arc goes.  *)
Referenced ==
    {index[k] : k \in Keys} \cup Range(small) \cup Range(main)
        \cup {loc[t].entry : t \in Threads}

Settle(K, F) ==
    /\ entryKey' = [e \in Entries |-> IF e \in Referenced' THEN K[e] ELSE None]
    /\ freq' = [e \in Entries |-> IF e \in Referenced' THEN F[e] ELSE 0]

-----------------------------------------------------------------------------
(* Mutant of GetHit: the increment does not stop at MAX_FREQ. *)
GetHit_NoCap(k) ==
    /\ index[k] # None
    /\ freq' = [freq EXCEPT ![index[k]] = @ + 1]
    /\ Count("hits")
    /\ UNCHANGED <<index, queues, ghost, membership, size, entryKey, pc, loc>>

(* get: look-up and frequency increment under the index's read lock.        *)
GetHit(k) ==
    /\ index[k] # None
    /\ freq' = [freq EXCEPT ![index[k]] = IF @ < MaxFreq THEN @ + 1 ELSE @]
    /\ Count("hits")
    /\ UNCHANGED <<index, queues, ghost, membership, size, entryKey, pc, loc>>

GetMiss(k) ==
    /\ index[k] = None
    /\ Count("misses")
    /\ UNCHANGED <<index, queues, ghost, membership, size, entries, pc, loc>>

-----------------------------------------------------------------------------
(* insert.                                                                  *)
CallInsert(t, k) ==
    /\ Goes(t, "idle", "lookup")
    /\ Carries(t, [AtRest EXCEPT !.key = k])
    /\ UNCHANGED <<index, queues, ghost, membership, size, entries, stats>>

(* A key that is there is removed and then inserted as if it were new: the  *)
(* index lock is dropped before remove takes it again, and insert calls     *)
(* itself, so that it starts over with the look-up.                         *)
LookupHit(t) ==
    /\ Goes(t, "lookup", "rmIndex")
    /\ index[loc[t].key] # None
    /\ Carries(t, [loc[t] EXCEPT !.resume = "lookup"])
    /\ UNCHANGED <<index, queues, ghost, membership, size, entries, stats>>

LookupMiss(t) ==
    /\ Goes(t, "lookup", "ghost")
    /\ index[loc[t].key] = None
    /\ UNCHANGED <<index, queues, ghost, membership, size, entries, stats, loc>>

(* Mutant of CheckGhost: a key found in the ghost queue stays there. *)
CheckGhost_Keeps(t) ==
    /\ Goes(t, "ghost", "publish")
    /\ Carries(t, [loc[t] EXCEPT !.toMain = GhostContains(ghost, loc[t].key)])
    /\ UNCHANGED <<index, queues, ghost, membership, size, entries, stats>>

CheckGhost(t) ==
    /\ Goes(t, "ghost", "publish")
    /\ Carries(t, [loc[t] EXCEPT !.toMain = GhostContains(ghost, loc[t].key)])
    /\ ghost' = GhostRemove(ghost, loc[t].key)
    /\ UNCHANGED <<index, queues, membership, size, entries, stats>>

(* A new entry, with frequency 0, replaces whatever the index holds by now. *)
NewEntry == CHOOSE e \in Entries : e \notin Referenced

Publish(t) ==
    /\ Goes(t, "publish", "push")
    /\ Entries \ Referenced # {}
    /\ index' = [index EXCEPT ![loc[t].key] = NewEntry]
    /\ Carries(t, [loc[t] EXCEPT !.entry = NewEntry])
    /\ UNCHANGED <<queues, ghost, membership, size, stats>>
    /\ Settle([entryKey EXCEPT ![NewEntry] = loc[t].key], [freq EXCEPT ![NewEntry] = 0])

Push(t) ==
    /\ Goes(t, "push", "member")
    /\ IF loc[t].toMain
       THEN main' = Append(main, loc[t].entry) /\ UNCHANGED small
       ELSE small' = Append(small, loc[t].entry) /\ UNCHANGED main
    /\ Carries(t, [loc[t] EXCEPT !.entry = None])
    /\ UNCHANGED <<index, ghost, membership, size, entries, stats>>

Member(t) ==
    /\ Goes(t, "member", "count")
    /\ membership' = [membership EXCEPT ![loc[t].key] =
                        IF loc[t].toMain THEN "Main" ELSE "Small"]
    /\ UNCHANGED <<index, queues, ghost, size, entries, stats, loc>>

CountInsert(t) ==
    /\ Goes(t, "count", "check")
    /\ Grow
    /\ Count("insertions")
    /\ Carries(t, AtRest)
    /\ UNCHANGED <<index, queues, ghost, membership, entries>>

-----------------------------------------------------------------------------
(* evict_if_needed.                                                         *)
NothingToEvict(t) ==
    /\ Goes(t, "check", "idle")
    /\ size <= Capacity
    /\ UNCHANGED <<index, queues, ghost, membership, size, entries, stats, loc>>

(* Mutant of OverCapacity: the main queue is tried first. *)
OverCapacity_MainFirst(t) ==
    /\ Goes(t, "check", IF main # <<>> THEN "measure" ELSE "popSmall")
    /\ size > Capacity
    /\ UNCHANGED <<index, queues, ghost, membership, size, entries, stats, loc>>

OverCapacity(t) ==
    /\ Goes(t, "check", "popSmall")
    /\ size > Capacity
    /\ UNCHANGED <<index, queues, ghost, membership, size, entries, stats, loc>>

(* evict_from_small; when it finds nothing, evict_from_main is next.        *)
SmallEmpty(t) ==
    /\ Goes(t, "popSmall", "measure")
    /\ small = <<>>
    /\ UNCHANGED <<index, queues, ghost, membership, size, entries, stats, loc>>

(* Mutant of PopSmall: the entry is looked at, front(), and not popped. *)
PopSmall_Front(t) ==
    /\ Goes(t, "popSmall", "judgeSmall")
    /\ small # <<>>
    /\ Carries(t, [AtRest EXCEPT !.entry = Head(small)])
    /\ UNCHANGED <<index, queues, ghost, membership, size, entries, stats>>

PopSmall(t) ==
    /\ Goes(t, "popSmall", "judgeSmall")
    /\ small # <<>>
    /\ small' = Tail(small)
    /\ Carries(t, [AtRest EXCEPT !.entry = Head(small)])
    /\ UNCHANGED <<index, main, ghost, membership, size, entries, stats>>

(* The frequency is read and reset by two atomics; a hit between them is    *)
(* lost like one before them.                                               *)
JudgeSmallHot(t) ==
    /\ Goes(t, "judgeSmall", "promote")
    /\ freq[loc[t].entry] > 0
    /\ freq' = [freq EXCEPT ![loc[t].entry] = 0]
    /\ UNCHANGED <<index, queues, ghost, membership, size, entryKey, stats, loc>>

JudgeSmallCold(t) ==
    /\ Goes(t, "judgeSmall", "dropIndex")
    /\ freq[loc[t].entry] = 0
    /\ Carries(t, [loc[t] EXCEPT !.toGhost = TRUE])
    /\ UNCHANGED <<index, queues, ghost, membership, size, entries, stats>>

Promote(t) ==
    /\ Goes(t, "promote", "promoteMember")
    /\ main' = Append(main, loc[t].entry)
    /\ Carries(t, [AtRest EXCEPT !.key = entryKey[loc[t].entry],
                                 !.promoted = loc[t].entry])
    /\ UNCHANGED <<index, small, ghost, membership, size, entries, stats>>

(* Mutant of PromoteMember: the map is not told. *)
PromoteMember_Skipped(t) ==
    /\ Goes(t, "promoteMember", "checkMain")
    /\ Carries(t, [loc[t] EXCEPT !.key = None])
    /\ UNCHANGED <<index, queues, ghost, membership, size, entries, stats>>

PromoteMember(t) ==
    /\ Goes(t, "promoteMember", "checkMain")
    /\ membership' = [membership EXCEPT ![loc[t].key] = "Main"]
    /\ Carries(t, [loc[t] EXCEPT !.key = None])
    /\ UNCHANGED <<index, queues, ghost, size, entries, stats>>

(* evict_main_if_needed, which ignores what evict_from_main answers.        *)
MainFits(t) ==
    /\ Goes(t, "checkMain", "check")
    /\ Len(main) <= main_queue_capacity
    /\ Carries(t, AtRest)
    /\ UNCHANGED <<index, queues, ghost, membership, size, entries, stats>>

MainOverfull(t) ==
    /\ Goes(t, "checkMain", "measure")
    /\ Len(main) > main_queue_capacity
    /\ Carries(t, [loc[t] EXCEPT !.caller = "checkMain"])
    /\ UNCHANGED <<index, queues, ghost, membership, size, entries, stats>>

-----------------------------------------------------------------------------
(* What is left in t's hands when evict_from_main or evict_from_small is over. *)
Answered(t) == [AtRest EXCEPT !.promoted = loc[t].promoted]

(* evict_from_main.  It answers false when it finds the queue empty: the    *)
(* insert is then over, while evict_main_if_needed looks again.             *)
GivesUp(t, from) ==
    /\ main = <<>>
    /\ Goes(t, from, IF loc[t].caller = "check" THEN "idle" ELSE "checkMain")
    /\ Carries(t, Answered(t))
    /\ UNCHANGED <<index, queues, ghost, membership, size, entries, stats>>

MainEmpty(t) == GivesUp(t, "measure") \/ GivesUp(t, "popMain") \/ GivesUp(t, "forcePop")

Measure(t) ==
    /\ Goes(t, "measure", "popMain")
    /\ main # <<>>
    /\ Carries(t, [loc[t] EXCEPT !.limit = Len(main), !.attempts = 0])
    /\ UNCHANGED <<index, queues, ghost, membership, size, entries, stats>>

PopMain(t) ==
    /\ Goes(t, "popMain", "judgeMain")
    /\ main # <<>>
    /\ main' = Tail(main)
    /\ Carries(t, [loc[t] EXCEPT !.entry = Head(main)])
    /\ UNCHANGED <<index, small, ghost, membership, size, entries, stats>>

JudgeMainHot(t) ==
    /\ Goes(t, "judgeMain", "requeue")
    /\ freq[loc[t].entry] > 0
    /\ freq' = [freq EXCEPT ![loc[t].entry] = @ - 1]
    /\ UNCHANGED <<index, queues, ghost, membership, size, entryKey, stats, loc>>

JudgeMainCold(t) ==
    /\ Goes(t, "judgeMain", "dropIndex")
    /\ freq[loc[t].entry] = 0
    /\ UNCHANGED <<index, queues, ghost, membership, size, entries, stats, loc>>

(* Mutant of Requeue: the sweep has no limit. *)
Requeue_Unlimited(t) ==
    /\ Goes(t, "requeue", "popMain")
    /\ main' = Append(main, loc[t].entry)
    /\ Carries(t, [loc[t] EXCEPT !.entry = None])
    /\ UNCHANGED <<index, small, ghost, membership, size, entries, stats>>

Requeue(t) ==
    /\ Goes(t, "requeue",
            IF loc[t].attempts + 1 >= loc[t].limit THEN "forcePop" ELSE "popMain")
    /\ main' = Append(main, loc[t].entry)
    /\ Carries(t, [loc[t] EXCEPT !.attempts = @ + 1, !.entry = None])
    /\ UNCHANGED <<index, small, ghost, membership, size, entries, stats>>

(* After a whole round without a victim the next entry goes, hot or not.    *)
ForcePop(t) ==
    /\ Goes(t, "forcePop", "dropIndex")
    /\ main # <<>>
    /\ main' = Tail(main)
    /\ Carries(t, [loc[t] EXCEPT !.entry = Head(main)])
    /\ UNCHANGED <<index, small, ghost, membership, size, entries, stats>>

-----------------------------------------------------------------------------
(* Mutant of DropIndex: an eviction that finds its key gone counts nothing. *)
DropIndex_Uncounted(t) ==
    LET gone == index[entryKey[loc[t].entry]] = None
    IN  /\ Goes(t, "dropIndex", IF gone THEN loc[t].caller ELSE "dropMember")
        /\ index' = [index EXCEPT ![entryKey[loc[t].entry]] = None]
        /\ Carries(t, IF gone THEN Answered(t) ELSE loc[t])
        /\ UNCHANGED <<queues, ghost, membership, size, stats>>
        /\ Settle(entryKey, freq)

(* The entry in hand is evicted: its key leaves the index, whatever entry   *)
(* the index has for it, then the membership map; from the small queue it   *)
(* goes to the ghost queue, whose capacity is the main queue's.             *)
DropIndex(t) ==
    /\ Goes(t, "dropIndex", "dropMember")
    /\ index' = [index EXCEPT ![entryKey[loc[t].entry]] = None]
    /\ UNCHANGED <<queues, ghost, membership, size, stats, loc>>
    /\ Settle(entryKey, freq)

DropMember(t) ==
    /\ Goes(t, "dropMember", IF loc[t].toGhost THEN "dropGhost" ELSE "uncount")
    /\ membership' = [membership EXCEPT ![entryKey[loc[t].entry]] = None]
    /\ UNCHANGED <<index, queues, ghost, size, entries, stats, loc>>

DropGhost(t) ==
    /\ Goes(t, "dropGhost", "uncount")
    /\ ghost' = GhostInsert(ghost, entryKey[loc[t].entry], main_queue_capacity)
    /\ UNCHANGED <<index, queues, membership, size, entries, stats, loc>>

Uncount(t) ==
    /\ Goes(t, "uncount", loc[t].caller)
    /\ Shrink
    /\ Count("evictions")
    /\ Carries(t, Answered(t))
    /\ UNCHANGED <<index, queues, ghost, membership>>
    /\ Settle(entryKey, freq)

-----------------------------------------------------------------------------
(* remove, called by a user or by insert.                                   *)
CallRemove(t, k) ==
    /\ Goes(t, "idle", "rmIndex")
    /\ Carries(t, [AtRest EXCEPT !.key = k])
    /\ UNCHANGED <<index, queues, ghost, membership, size, entries, stats>>

(* Back to the caller: to rest, or to insert's second look-up.              *)
Resumed(t) == IF loc[t].resume = "idle" THEN AtRest ELSE loc[t]

RmMiss(t) ==
    /\ Goes(t, "rmIndex", loc[t].resume)
    /\ index[loc[t].key] = None
    /\ Carries(t, Resumed(t))
    /\ UNCHANGED <<index, queues, ghost, membership, size, entries, stats>>

RmIndex(t) ==
    /\ Goes(t, "rmIndex", "rmMember")
    /\ index[loc[t].key] # None
    /\ index' = [index EXCEPT ![loc[t].key] = None]
    /\ UNCHANGED <<queues, ghost, membership, size, stats, loc>>
    /\ Settle(entryKey, freq)

RmMember(t) ==
    LET found == membership[loc[t].key]
    IN  /\ Goes(t, "rmMember", IF found = None THEN "rmCount" ELSE "rmQueue")
        /\ membership' = [membership EXCEPT ![loc[t].key] = None]
        /\ Carries(t, [loc[t] EXCEPT !.from = found])
        /\ UNCHANGED <<index, queues, ghost, size, entries, stats>>

(* remove_from_queue keeps, in the one queue, the entries of other keys.    *)
WithoutKey(queue, k) == Retain(queue, {e \in Entries : entryKey[e] = k})

RmQueue(t) ==
    /\ Goes(t, "rmQueue", "rmCount")
    /\ IF loc[t].from = "Main"
       THEN main' = WithoutKey(main, loc[t].key) /\ UNCHANGED small
       ELSE small' = WithoutKey(small, loc[t].key) /\ UNCHANGED main
    /\ Carries(t, [loc[t] EXCEPT !.from = None])
    /\ UNCHANGED <<index, ghost, membership, size, stats>>
    /\ Settle(entryKey, freq)

RmCount(t) ==
    /\ Goes(t, "rmCount", loc[t].resume)
    /\ Shrink
    /\ Carries(t, Resumed(t))
    /\ UNCHANGED <<index, queues, ghost, membership, entries, stats>>

-----------------------------------------------------------------------------
(* clear: one structure after the other, the counter last.                  *)
ClIndex(t) ==
    /\ Goes(t, "clIndex", "clSmall")
    /\ index' = [k \in Keys |-> None]
    /\ UNCHANGED <<queues, ghost, membership, size, stats, loc>>
    /\ Settle(entryKey, freq)

CallClear(t) ==
    /\ Goes(t, "idle", "clIndex")
    /\ UNCHANGED <<index, queues, ghost, membership, size, entries, stats, loc>>

ClSmall(t) ==
    /\ Goes(t, "clSmall", "clMain")
    /\ small' = <<>>
    /\ UNCHANGED <<index, main, ghost, membership, size, stats, loc>>
    /\ Settle(entryKey, freq)

ClMain(t) ==
    /\ Goes(t, "clMain", "clGhost")
    /\ main' = <<>>
    /\ UNCHANGED <<index, small, ghost, membership, size, stats, loc>>
    /\ Settle(entryKey, freq)

ClGhost(t) ==
    /\ Goes(t, "clGhost", "clMember")
    /\ ghost' = NoGhosts
    /\ UNCHANGED <<index, queues, membership, size, entries, stats, loc>>

ClMember(t) ==
    /\ Goes(t, "clMember", "clSize")
    /\ membership' = [k \in Keys |-> None]
    /\ UNCHANGED <<index, queues, ghost, size, entries, stats, loc>>

ClSize(t) ==
    /\ Goes(t, "clSize", "idle")
    /\ size' = 0
    /\ UNCHANGED <<index, queues, ghost, membership, entries, stats, loc>>

-----------------------------------------------------------------------------
InsertStep(t) ==
    \/ LookupHit(t) \/ LookupMiss(t) \/ CheckGhost(t) \/ Publish(t) \/ Push(t)
    \/ Member(t) \/ CountInsert(t)

EvictStep(t) ==
    \/ NothingToEvict(t) \/ OverCapacity(t) \/ SmallEmpty(t) \/ PopSmall(t)
    \/ JudgeSmallHot(t) \/ JudgeSmallCold(t) \/ Promote(t) \/ PromoteMember(t)
    \/ MainFits(t) \/ MainOverfull(t) \/ MainEmpty(t) \/ Measure(t) \/ PopMain(t)
    \/ JudgeMainHot(t) \/ JudgeMainCold(t) \/ Requeue(t) \/ ForcePop(t)
    \/ DropIndex(t) \/ DropMember(t) \/ DropGhost(t) \/ Uncount(t)

RemoveStep(t) ==
    RmMiss(t) \/ RmIndex(t) \/ RmMember(t) \/ RmQueue(t) \/ RmCount(t)

ClearStep(t) ==
    \/ ClIndex(t) \/ ClSmall(t) \/ ClMain(t) \/ ClGhost(t) \/ ClMember(t) \/ ClSize(t)

Step(t) == InsertStep(t) \/ EvictStep(t) \/ RemoveStep(t) \/ ClearStep(t)

Call(t) ==
    \/ \E k \in Keys : CallInsert(t, k) \/ CallRemove(t, k)
    \/ CallClear(t)

Get == \E k \in Keys : GetHit(k) \/ GetMiss(k)

Next == Get \/ \E t \in Threads : Call(t) \/ Step(t)

(* A thread inside a call keeps running; nobody has to make a call.         *)
Spec == Init /\ [][Next]_vars /\ \A t \in Threads : WF_vars(Step(t))

-----------------------------------------------------------------------------
(* Properties.                                                              *)

Live == {k \in Keys : index[k] # None}
Quiescent == \A t \in Threads : pc[t] = "idle"

(* Between calls the queues hold the entries of the live keys, each once    *)
(* and no other; size counts them and is within the capacity; no live key   *)
(* is a ghost.  One writer keeps this whatever the readers do.  Several do  *)
(* not: two that look up the same key, find it missing and publish it in    *)
(* turn (457-488) queue an entry each, and the index has only one of them.  *)
QueuesMatchIndex ==
    Quiescent =>
        /\ size = Len(small) + Len(main)
        /\ size = Cardinality(Live)
        /\ size <= Capacity
        /\ \A e \in Range(small) \cup Range(main) : index[entryKey[e]] = e
        /\ Live \cap ghost.keys = {}

(* s3fifo.rs:94, the map is to "Track which entries are in which queue (for *)
(* O(1) removal)": between calls it names, for each key with a queued entry *)
(* and no other, the queue that has it, and remove relies on that.  One     *)
(* writer keeps this; of two, one may record a key that the other has       *)
(* evicted since it was pushed.                                             *)
MembershipMatchesQueues ==
    Quiescent =>
        \A k \in Keys :
            /\ membership[k] = "Small" <=> k \in {entryKey[e] : e \in Range(small)}
            /\ membership[k] = "Main" <=> k \in {entryKey[e] : e \in Range(main)}

(* What writers keep that have all missed, the same key or different ones:  *)
(* size counts the queues (97, "Current size (small + main)") and is within *)
(* the capacity, and the entry of every live key is on a queue, where an    *)
(* eviction can reach it.  A queued entry need not be the index's any more; *)
(* its eviction removes by key what is newer (293), and yet the count       *)
(* stays right.                                                             *)
QueuesCoverIndex ==
    Quiescent =>
        /\ size = Len(small) + Len(main)
        /\ size <= Capacity
        /\ \A k \in Live : index[k] \in Range(small) \cup Range(main)

(* No entry is ever in two places of the queues or the threads' hands, with *)
(* any number of threads: what was popped was pushed once, and an eviction  *)
(* or a promotion is not done twice.                                        *)
EntryInOnePlace ==
    /\ IsInjective(small \o main)
    /\ \A t \in Threads : loc[t].entry # None =>
        /\ loc[t].entry \notin Range(small \o main)
        /\ \A u \in Threads \ {t} : loc[u].entry # loc[t].entry

(* Scan resistance: the main queue loses an entry only when the small queue *)
(* has none to give, or to a promotion that made the main queue outgrow its *)
(* capacity.  A stream of keys that are asked for once passes through the   *)
(* small queue without touching the main one.                               *)
MainVictimJustified ==
    \A t \in Threads :
        pc[t] = "dropIndex" /\ ~loc[t].toGhost =>
            small = <<>> \/ (loc[t].promoted # None /\ Len(main) >= main_queue_capacity)

(* At every moment and with any number of threads the ghost queue's set and *)
(* queue hold the same keys, each queued once, and no more of them than the *)
(* main queue's capacity; where that is 0, as in S3FifoCache::new(1), one,  *)
(* although s3fifo.rs:24 says "Bounded to main queue capacity".             *)
GhostConsistent == GhostSound(ghost, main_queue_capacity)

(* Every call returns: the eviction loops end although readers may raise    *)
(* the frequencies of the entries being swept all the time.                 *)
CallReturns == \A t \in Threads : pc[t] # "idle" ~> pc[t] = "idle"

-----------------------------------------------------------------------------
(* What the documents, comments and tests say, and the code does not do.    *)

(* mod.rs:118, len is to "Get the current number of entries in the cache":  *)
(* at most what fits and one more for each insert under way, never a counter*)
(* that was decremented below zero.                                         *)
LenIsPlausible == size <= Capacity + Cardinality(Threads)

(* config.rs:93, "Maximum number of entries the cache can hold".            *)
LiveWithinCapacity == Quiescent => Cardinality(Live) <= Capacity

(* mod.rs:74, "If the key already exists, the value is updated": a reader   *)
(* does not miss a key while it is being updated and nobody removes it.     *)
UpdateNeverHides ==
    \A t \in Threads : loc[t].resume = "lookup" => loc[t].key \in Live
=============================================================================
